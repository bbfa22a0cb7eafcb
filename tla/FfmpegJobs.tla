------------------------------ MODULE FfmpegJobs ------------------------------
(***************************************************************************)
(* The ffmpeg job table of the desktop host at the grain of its two        *)
(* mutexes: lib.rs, struct Ffmpeg {jobs, next} and the commands            *)
(* ffmpeg_start, ffmpeg_write, ffmpeg_finish and ffmpeg_kill.              *)
(*                                                                         *)
(* Each element of Threads executes one command at a time; that there are  *)
(* several is what the mutexes are for, and a host that runs all commands  *)
(* on one thread is the case of one element.  A frame is                   *)
(* FrameChunks chunks long and the pipe to a child holds PipeCap of them,  *)
(* so that a write_all of one frame blocks half way, as it does with a     *)
(* 414 KB frame and a pipe of a few KB, and it does so with the jobs mutex *)
(* held.                                                                   *)
(***************************************************************************)
EXTENDS Naturals, FiniteSets

CONSTANTS
    Threads,          \* callers of the commands
    NoThread,         \* a mutex nobody holds
    MaxJobs,          \* bound on the children spawned (a u32 in the code)
    FrameChunks,      \* pipe-sized pieces of one frame
    PipeCap           \* pieces the stdin pipe of a child can hold

ASSUME ThreadsAssumption == NoThread \notin Threads
ASSUME MaxJobsAssumption == MaxJobs \in Nat
ASSUME ChunkAssumption == FrameChunks \in Nat \ {0} /\ PipeCap \in Nat \ {0}

VARIABLES
    next,             \* the u32 under the mutex `next`
    nextOwner,        \* who holds that mutex
    jobs,             \* the HashMap, a function from its handles to children
    jobsOwner,        \* who holds its mutex across a blocking call
    pc,               \* what each thread is doing
    handle,           \* each thread's handle: argument, or `id` of a start
    child,            \* the Child a thread owns outside the table
    left,             \* chunks of its frame a thread has still to write
    spawned,          \* number of children spawned
    proc,             \* state of each child process
    stdin,            \* is the host's end of the child's stdin open
    pipe,             \* chunks in the pipe
    part              \* chunks of an incomplete frame sent to the child

table == <<next, nextOwner, jobs, jobsOwner>>
local == <<pc, handle, child, left>>
procs == <<spawned, proc, stdin, pipe, part>>
vars  == <<table, local, procs>>

Child   == 1 .. MaxJobs
NoChild == 0

(* HashMap::insert and HashMap::remove. *)
With(f, h, c)  == [k \in DOMAIN f \cup {h} |-> IF k = h THEN c ELSE f[k]]
Without(f, h)  == [k \in DOMAIN f \ {h} |-> f[k]]

PC == {"idle", "number", "insert", "writing", "waiting"}

TypeOK ==
    /\ next \in Nat
    /\ nextOwner \in Threads \cup {NoThread}
    /\ DOMAIN jobs \subseteq 1 .. next
    /\ jobs \in [DOMAIN jobs -> Child]
    /\ jobsOwner \in Threads \cup {NoThread}
    /\ pc \in [Threads -> PC]
    /\ handle \in [Threads -> Nat]
    /\ child \in [Threads -> Child \cup {NoChild}]
    /\ left \in [Threads -> 0 .. FrameChunks]
    /\ spawned \in 0 .. MaxJobs
    /\ proc \in [Child -> {"none", "running", "exited", "killed"}]
    /\ stdin \in [Child -> BOOLEAN]
    /\ pipe \in [Child -> 0 .. PipeCap]
    /\ part \in [Child -> Nat]

Init ==
    /\ next = 0 /\ nextOwner = NoThread
    /\ jobs = [h \in {} |-> NoChild] /\ jobsOwner = NoThread
    /\ pc = [t \in Threads |-> "idle"]
    /\ handle = [t \in Threads |-> 0]
    /\ child = [t \in Threads |-> NoChild]
    /\ left = [t \in Threads |-> 0]
    /\ spawned = 0
    /\ proc = [c \in Child |-> "none"]
    /\ stdin = [c \in Child |-> FALSE]
    /\ pipe = [c \in Child |-> 0]
    /\ part = [c \in Child |-> 0]

-------------------------------------------------------------------------------
(* ffmpeg_start *)

(* The sidecar is spawned before any mutex is taken.  A spawn that fails   *)
(* returns Err and changes nothing.                                        *)
StartSpawn(t) ==
    /\ pc[t] = "idle"
    /\ spawned < MaxJobs
    /\ spawned' = spawned + 1
    /\ proc' = [proc EXCEPT ![spawned + 1] = "running"]
    /\ stdin' = [stdin EXCEPT ![spawned + 1] = TRUE]
    /\ child' = [child EXCEPT ![t] = spawned + 1]
    /\ pc' = [pc EXCEPT ![t] = "number"]
    /\ UNCHANGED <<table, handle, left, pipe, part>>

(* A mistake the checks must catch: the number is taken without being       *)
(* counted, or without the mutex.                                          *)
NumberNotCounted(t) ==
    /\ pc[t] = "number"
    /\ nextOwner = NoThread
    /\ nextOwner' = t
    /\ handle' = [handle EXCEPT ![t] = next + 1]
    /\ pc' = [pc EXCEPT ![t] = "insert"]
    /\ UNCHANGED <<next, jobs, jobsOwner, child, left, procs>>

NumberUnlocked(t) ==
    /\ pc[t] = "number"
    /\ nextOwner' = t
    /\ next' = next + 1
    /\ handle' = [handle EXCEPT ![t] = next + 1]
    /\ pc' = [pc EXCEPT ![t] = "insert"]
    /\ UNCHANGED <<jobs, jobsOwner, child, left, procs>>

(* let mut next = state.next.lock(); *next += 1; let id = *next            *)
StartNumber(t) ==
    /\ pc[t] = "number"
    /\ nextOwner = NoThread
    /\ nextOwner' = t
    /\ next' = next + 1
    /\ handle' = [handle EXCEPT ![t] = next + 1]
    /\ pc' = [pc EXCEPT ![t] = "insert"]
    /\ UNCHANGED <<jobs, jobsOwner, child, left, procs>>

(* A mistake: an early return between the number and the insert, so that   *)
(* the page is told of a handle that names no job.                         *)
ReturnBeforeInsert(t) ==
    /\ pc[t] = "insert"
    /\ child' = [child EXCEPT ![t] = NoChild]
    /\ nextOwner' = NoThread
    /\ pc' = [pc EXCEPT ![t] = "idle"]
    /\ handle' = [handle EXCEPT ![t] = 0]
    /\ UNCHANGED <<next, jobs, jobsOwner, left, procs>>

(* state.jobs.lock().insert(id, child) and the return, which drops the     *)
(* guard of `next`: the jobs mutex is taken while `next` is still held.    *)
StartInsert(t) ==
    /\ pc[t] = "insert"
    /\ jobsOwner = NoThread
    /\ jobs' = With(jobs, handle[t], child[t])
    /\ child' = [child EXCEPT ![t] = NoChild]
    /\ nextOwner' = NoThread
    /\ pc' = [pc EXCEPT ![t] = "idle"]
    /\ handle' = [handle EXCEPT ![t] = 0]
    /\ UNCHANGED <<next, jobsOwner, left, procs>>

-------------------------------------------------------------------------------
(* ffmpeg_write: a handle that is not in the table is an Err, which leaves *)
(* everything as it was; a known one keeps the mutex until the frame is    *)
(* written or the pipe breaks.                                             *)
WriteBegin(t, h) ==
    /\ pc[t] = "idle"
    /\ jobsOwner = NoThread
    /\ h \in DOMAIN jobs
    /\ jobsOwner' = t
    /\ handle' = [handle EXCEPT ![t] = h]
    /\ left' = [left EXCEPT ![t] = FrameChunks]
    /\ pc' = [pc EXCEPT ![t] = "writing"]
    /\ UNCHANGED <<next, nextOwner, jobs, child, procs>>

WriteChunk(t) ==
    LET c == jobs[handle[t]] IN
    /\ pc[t] = "writing"
    /\ left[t] > 0
    /\ proc[c] = "running"
    /\ pipe[c] < PipeCap
    /\ pipe' = [pipe EXCEPT ![c] = @ + 1]
    /\ part' = [part EXCEPT ![c] = IF left[t] = 1 THEN 0 ELSE @ + 1]
    /\ left' = [left EXCEPT ![t] = @ - 1]
    /\ UNCHANGED <<table, pc, handle, child, spawned, proc, stdin>>

(* A mistake: the broken pipe of a dead child is not noticed. *)
WriteEndOnlyWhenWritten(t) ==
    /\ pc[t] = "writing"
    /\ left[t] = 0
    /\ jobsOwner' = NoThread
    /\ handle' = [handle EXCEPT ![t] = 0]
    /\ pc' = [pc EXCEPT ![t] = "idle"]
    /\ UNCHANGED <<next, nextOwner, jobs, left, child, procs>>

(* The whole frame is in the pipe, or the child is gone and write_all      *)
(* reports the broken pipe.  Either way the guard is dropped.              *)
WriteEnd(t) ==
    /\ pc[t] = "writing"
    /\ left[t] = 0 \/ proc[jobs[handle[t]]] # "running"
    /\ jobsOwner' = NoThread
    /\ left' = [left EXCEPT ![t] = 0]
    /\ handle' = [handle EXCEPT ![t] = 0]
    /\ pc' = [pc EXCEPT ![t] = "idle"]
    /\ UNCHANGED <<next, nextOwner, jobs, child, procs>>

-------------------------------------------------------------------------------
(* Mistakes: the job is looked up but not removed; the mutex is not taken. *)
FinishKeepsJob(t, h) ==
    /\ pc[t] = "idle"
    /\ jobsOwner = NoThread
    /\ h \in DOMAIN jobs
    /\ child' = [child EXCEPT ![t] = jobs[h]]
    /\ stdin' = [stdin EXCEPT ![jobs[h]] = FALSE]
    /\ pc' = [pc EXCEPT ![t] = "waiting"]
    /\ UNCHANGED <<table, handle, left, spawned, proc, pipe, part>>

FinishUnlocked(t, h) ==
    /\ pc[t] = "idle"
    /\ h \in DOMAIN jobs
    /\ child' = [child EXCEPT ![t] = jobs[h]]
    /\ stdin' = [stdin EXCEPT ![jobs[h]] = FALSE]
    /\ pc' = [pc EXCEPT ![t] = "waiting"]
    /\ UNCHANGED <<table, handle, left, spawned, proc, pipe, part>>

(* ffmpeg_finish: take the job out, close its stdin, wait for its exit.    *)
(* The mutex is released before the wait.                                  *)
FinishRemove(t, h) ==
    /\ pc[t] = "idle"
    /\ jobsOwner = NoThread
    /\ h \in DOMAIN jobs
    /\ child' = [child EXCEPT ![t] = jobs[h]]
    /\ stdin' = [stdin EXCEPT ![jobs[h]] = FALSE]
    /\ jobs' = Without(jobs, h)
    /\ pc' = [pc EXCEPT ![t] = "waiting"]
    /\ UNCHANGED <<next, nextOwner, jobsOwner, handle, left,
                   spawned, proc, pipe, part>>

FinishWait(t) ==
    /\ pc[t] = "waiting"
    /\ proc[child[t]] # "running"
    /\ child' = [child EXCEPT ![t] = NoChild]
    /\ pc' = [pc EXCEPT ![t] = "idle"]
    /\ UNCHANGED <<table, handle, left, procs>>

(* ffmpeg_kill: take the job out and terminate it; the Child is dropped    *)
(* without a wait.  An unknown handle is ignored.                          *)
Kill(t, h) ==
    LET c == jobs[h] IN
    /\ pc[t] = "idle"
    /\ jobsOwner = NoThread
    /\ h \in DOMAIN jobs
    /\ jobs' = Without(jobs, h)
    /\ proc' = [proc EXCEPT ![c] = IF @ = "running" THEN "killed" ELSE @]
    /\ stdin' = [stdin EXCEPT ![c] = FALSE]
    /\ UNCHANGED <<next, nextOwner, jobsOwner, local, spawned, pipe, part>>

-------------------------------------------------------------------------------
(* The ffmpeg processes: they read their stdin, stop at end of file, or    *)
(* fail at any moment.                                                     *)
ProcRead(c) ==
    /\ proc[c] = "running"
    /\ pipe[c] > 0
    /\ pipe' = [pipe EXCEPT ![c] = @ - 1]
    /\ UNCHANGED <<table, local, spawned, proc, stdin, part>>

ProcEof(c) ==
    /\ proc[c] = "running"
    /\ ~stdin[c]
    /\ pipe[c] = 0
    /\ proc' = [proc EXCEPT ![c] = "exited"]
    /\ UNCHANGED <<table, local, spawned, stdin, pipe, part>>

ProcFail(c) ==
    /\ proc[c] = "running"
    /\ proc' = [proc EXCEPT ![c] = "exited"]
    /\ UNCHANGED <<table, local, spawned, stdin, pipe, part>>

-------------------------------------------------------------------------------
Command(t) ==
    \/ StartSpawn(t) \/ StartNumber(t) \/ StartInsert(t)
    \/ WriteChunk(t) \/ WriteEnd(t)
    \/ FinishWait(t)
    \/ \E h \in DOMAIN jobs : WriteBegin(t, h) \/ FinishRemove(t, h) \/ Kill(t, h)

Process(c) == ProcRead(c) \/ ProcEof(c) \/ ProcFail(c)

Next == (\E t \in Threads : Command(t)) \/ (\E c \in Child : Process(c))

Spec == Init /\ [][Next]_vars

(* A command that has begun runs on whenever it can; a mutex that comes    *)
(* free again and again is eventually given to a thread waiting for it;    *)
(* and ffmpeg reads the input it is given and stops at its end.            *)
Fairness ==
    /\ \A t \in Threads :
         /\ SF_vars(StartNumber(t)) /\ SF_vars(StartInsert(t))
         /\ WF_vars(WriteChunk(t)) /\ WF_vars(WriteEnd(t))
         /\ WF_vars(FinishWait(t))
    /\ \A c \in Child : WF_vars(ProcRead(c)) /\ WF_vars(ProcEof(c))

FairSpec == Spec /\ Fairness

-------------------------------------------------------------------------------
Holding(t) == pc[t] \in {"number", "insert", "waiting"}

(* A child belongs to one place only: two handles never name the same      *)
(* process, no thread that starts or finishes a job shares its child with  *)
(* the table or with another thread.  Otherwise two finishes could wait    *)
(* for, or a kill could hit, the job of another render.                    *)
OwnedOnce ==
    /\ \A h, k \in DOMAIN jobs : jobs[h] = jobs[k] => h = k
    /\ \A t \in Threads, h \in DOMAIN jobs : Holding(t) => child[t] # jobs[h]
    /\ \A t, u \in Threads :
         Holding(t) /\ Holding(u) /\ child[t] = child[u] => t = u

(* A running ffmpeg is always within reach: some handle names it, or the   *)
(* command that starts or finishes it still holds it.  The table loses no  *)
(* process whatever the order of start, finish and kill.                   *)
NoneLost ==
    \A c \in Child :
        proc[c] = "running" =>
            \/ \E h \in DOMAIN jobs : jobs[h] = c
            \/ \E t \in Threads : Holding(t) /\ child[t] = c

(* The encoder sees the end of its input only between two frames: finish   *)
(* cannot close the stdin of a job while another caller is half way        *)
(* through a frame.  A process that failed or was killed is exempt.        *)
WholeFrames ==
    \A c \in Child :
        proc[c] = "running" /\ ~stdin[c] => part[c] = 0

(* The strengthening that makes the three invariants above inductive: who  *)
(* is inside a critical section holds its mutex, the handle about to be    *)
(* inserted is the newest and unused, the job being written stays in the   *)
(* table, and every child in the table or in hand has been spawned.        *)
Locking ==
    /\ \A t \in Threads : pc[t] = "insert" <=> nextOwner = t
    /\ \A t \in Threads : pc[t] = "writing" <=> jobsOwner = t
    /\ \A t \in Threads :
         pc[t] = "insert" => handle[t] = next /\ next > 0 /\ next \notin DOMAIN jobs
    /\ \A t \in Threads : pc[t] = "writing" => handle[t] \in DOMAIN jobs

Placed ==
    /\ \A h \in DOMAIN jobs : jobs[h] <= spawned /\ stdin[jobs[h]]
    /\ \A t \in Threads : Holding(t) => child[t] \in 1 .. spawned
    /\ \A t \in Threads : pc[t] \in {"number", "insert"} => stdin[child[t]]
    /\ \A c \in Child : c > spawned => proc[c] = "none" /\ part[c] = 0

(* A child with part of a frame is being written to. *)
Partial ==
    \A c \in Child :
        proc[c] = "running" /\ part[c] # 0 =>
            \E t \in Threads :
                pc[t] = "writing" /\ jobs[handle[t]] = c /\ left[t] > 0

(* The inductive invariant of the table. *)
IInv == TypeOK /\ Locking /\ Placed /\ OwnedOnce /\ NoneLost /\ Partial

(* A handle is never reissued and a job never comes back: what leaves the  *)
(* table has left it for good, and only a start in progress adds a job,    *)
(* under a handle above all those in use before.                           *)
NoResurrection ==
    [][\A h \in DOMAIN jobs' \ DOMAIN jobs :
          h = next /\ \A k \in DOMAIN jobs : k < h]_vars

(* The table implements the abstract one, in which every command is one    *)
(* step: a handle counts as issued once its job is registered.             *)
Abstract == INSTANCE JobTable WITH
    issued <- IF nextOwner = NoThread THEN next ELSE next - 1,
    live   <- DOMAIN jobs

ImplementsTable == Abstract!TSpec

(* Every start, write and finish returns, although write_all blocks with   *)
(* the jobs mutex held and a start waits for that mutex with `next` held:  *)
(* the two mutexes are always taken in the order next, jobs.               *)
CommandsReturn ==
    \A t \in Threads : pc[t] # "idle" ~> pc[t] = "idle"
===============================================================================
