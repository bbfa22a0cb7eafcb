-------------------------- MODULE FfmpegJobs_proof ---------------------------
(***************************************************************************)
(* Proofs about the job table for any set of callers, any number of jobs,  *)
(* any frame and pipe size.                                                *)
(***************************************************************************)
EXTENDS FfmpegJobs, TLAPS

LEMMA InitInv == Init => IInv
<1> USE ThreadsAssumption, MaxJobsAssumption, ChunkAssumption DEF Init
<1> SUFFICES ASSUME Init PROVE IInv
  OBVIOUS
<1>1. TypeOK
  BY DEF TypeOK, PC, Child, NoChild, Holding
<1>2. Locking
  BY DEF Locking, PC, Child, NoChild, Holding
<1>3. Placed
  BY DEF Placed, PC, Child, NoChild, Holding
<1>4. OwnedOnce
  BY DEF OwnedOnce, PC, Child, NoChild, Holding
<1>5. NoneLost
  BY DEF NoneLost, PC, Child, NoChild, Holding
<1>6. Partial
  BY DEF Partial, PC, Child, NoChild, Holding
<1>7. QED
  BY <1>1, <1>2, <1>3, <1>4, <1>5, <1>6 DEF IInv

(* Three facts for the steps that leave the table and what is in hand alone. *)
LEMMA StillPlaced ==
    ASSUME Placed, UNCHANGED <<jobs, spawned, stdin>>,
           \A u \in Threads : Holding(u)' => Holding(u) /\ child'[u] = child[u],
           \A u \in Threads : pc'[u] \in {"number", "insert"} => pc[u] \in {"number", "insert"},
           \A c \in Child : c > spawned => proc'[c] = proc[c] /\ part'[c] = part[c]
    PROVE  Placed'
BY DEF Placed, Holding

LEMMA StillOwned ==
    ASSUME OwnedOnce, UNCHANGED jobs,
           \A u \in Threads : Holding(u)' => Holding(u) /\ child'[u] = child[u]
    PROVE  OwnedOnce'
BY DEF OwnedOnce

LEMMA StillReachable ==
    ASSUME NoneLost, UNCHANGED <<jobs, proc>>,
           \A u \in Threads : Holding(u) => Holding(u)' /\ child'[u] = child[u]
    PROVE  NoneLost'
BY DEF NoneLost

LEMMA StartSpawnInv ==
    ASSUME IInv, NEW t \in Threads, StartSpawn(t)
    PROVE  IInv'
<1> USE ThreadsAssumption, MaxJobsAssumption, ChunkAssumption
    DEF IInv, TypeOK, StartSpawn, table, local, procs, PC, Child, NoChild
<1>1. TypeOK'
  <2>1. spawned + 1 \in Child /\ spawned' \in 0 .. MaxJobs
    OBVIOUS
  <2>2. /\ child' \in [Threads -> Child \cup {NoChild}]
        /\ proc' \in [Child -> {"none", "running", "exited", "killed"}]
        /\ stdin' \in [Child -> BOOLEAN]
        /\ pc' \in [Threads -> PC]
    BY <2>1
  <2>3. UNCHANGED <<next, nextOwner, jobs, jobsOwner, handle, left, pipe, part>>
    OBVIOUS
  <2>4. QED
    BY <2>1, <2>2, <2>3
<1>2. Locking'
  BY DEF Locking
<1>3. Placed'
  <2>1. \A h \in DOMAIN jobs : jobs[h] # spawned + 1
    BY DEF Placed
  <2>2. \A h \in DOMAIN jobs' : jobs'[h] <= spawned' /\ stdin'[jobs'[h]]
    BY <2>1 DEF Placed
  <2>3. \A u \in Threads : Holding(u)' => child'[u] \in 1 .. spawned'
    BY DEF Placed, Holding
  <2>4. \A u \in Threads : pc'[u] \in {"number", "insert"} => stdin'[child'[u]]
    <3> SUFFICES ASSUME NEW u \in Threads, pc'[u] \in {"number", "insert"}
                 PROVE  stdin'[child'[u]]
      OBVIOUS
    <3>1. spawned + 1 \in Child
      OBVIOUS
    <3>2. CASE u = t
      BY <3>1, <3>2
    <3>3. CASE u # t
      BY <3>1, <3>3 DEF Placed, Holding
    <3>4. QED
      BY <3>2, <3>3
  <2>5. \A c \in Child : c > spawned' => proc'[c] = "none" /\ part'[c] = 0
    BY DEF Placed
  <2>6. QED
    BY <2>2, <2>3, <2>4, <2>5 DEF Placed
<1>4. OwnedOnce'
  <2>1. \A h, k \in DOMAIN jobs' : jobs'[h] = jobs'[k] => h = k
    BY DEF OwnedOnce
  <2>2. \A u \in Threads :
           Holding(u)' => \/ u = t /\ child'[u] = spawned + 1
                          \/ u # t /\ Holding(u) /\ child'[u] = child[u]
    BY DEF Holding
  <2>3. /\ \A u \in Threads : Holding(u) => child[u] # spawned + 1
        /\ \A h \in DOMAIN jobs : jobs[h] # spawned + 1
    BY DEF Placed
  <2>4. \A u \in Threads, h \in DOMAIN jobs' : Holding(u)' => child'[u] # jobs'[h]
    BY <2>2, <2>3 DEF OwnedOnce
  <2>5. \A u, w \in Threads :
           Holding(u)' /\ Holding(w)' /\ child'[u] = child'[w] => u = w
    BY <2>2, <2>3 DEF OwnedOnce
  <2>6. QED
    BY <2>1, <2>4, <2>5 DEF OwnedOnce
<1>5. NoneLost'
  <2> SUFFICES ASSUME NEW c \in Child, proc'[c] = "running"
               PROVE  \/ \E h \in DOMAIN jobs' : jobs'[h] = c
                      \/ \E u \in Threads : Holding(u)' /\ child'[u] = c
    BY DEF NoneLost
  <2>1. CASE c = spawned + 1
    <3>1. child'[t] = c /\ pc'[t] = "number"
      BY <2>1
    <3>2. QED
      BY <3>1 DEF Holding
  <2>2. CASE c # spawned + 1
    <3>1. proc[c] = "running" /\ jobs' = jobs
      BY <2>2
    <3>2. CASE \E h \in DOMAIN jobs : jobs[h] = c
      BY <3>1, <3>2
    <3>3. CASE \E u \in Threads : Holding(u) /\ child[u] = c
      <4>1. PICK u \in Threads : Holding(u) /\ child[u] = c
        BY <3>3
      <4>2. u # t
        BY <4>1 DEF Holding
      <4>3. Holding(u)' /\ child'[u] = c
        BY <4>1, <4>2 DEF Holding
      <4>4. QED
        BY <4>3
    <3>4. QED
      BY <3>1, <3>2, <3>3 DEF NoneLost
  <2>3. QED
    BY <2>1, <2>2
<1>6. Partial'
  <2> SUFFICES ASSUME NEW c \in Child, proc'[c] = "running", part'[c] # 0
               PROVE  \E u \in Threads :
                        pc'[u] = "writing" /\ jobs'[handle'[u]] = c /\ left'[u] > 0
    <3> HIDE DEF TypeOK, StartSpawn
    <3>1. QED
      BY DEF Partial
  <2>1. c # spawned + 1
    BY DEF Placed
  <2>2. proc[c] = "running" /\ part[c] # 0
    BY <2>1
  <2>3. PICK u \in Threads :
               pc[u] = "writing" /\ jobs[handle[u]] = c /\ left[u] > 0
    BY <2>2 DEF Partial
  <2>4. u # t
    BY <2>3
  <2>5. QED
    BY <2>3, <2>4
<1>7. QED
  BY <1>1, <1>2, <1>3, <1>4, <1>5, <1>6 DEF IInv

LEMMA StartNumberInv ==
    ASSUME IInv, NEW t \in Threads, StartNumber(t)
    PROVE  IInv'
<1> USE ThreadsAssumption, MaxJobsAssumption, ChunkAssumption
    DEF IInv, TypeOK, StartNumber, table, local, procs, PC, Child, NoChild
<1>1. TypeOK'
  <2>1. /\ next' \in Nat /\ DOMAIN jobs \subseteq 1 .. next'
        /\ nextOwner' \in Threads \cup {NoThread}
        /\ pc' \in [Threads -> PC]
        /\ handle' \in [Threads -> Nat]
    OBVIOUS
  <2>2. UNCHANGED <<jobs, jobsOwner, child, left, procs>>
    OBVIOUS
  <2> HIDE DEF StartNumber
  <2>3. QED
    BY <2>1, <2>2
<1>2. Locking'
  BY DEF Locking
<1>3. \A u \in Threads : Holding(u)' => Holding(u) /\ child'[u] = child[u]
  BY DEF Holding
<1>4. \A u \in Threads : Holding(u) => Holding(u)' /\ child'[u] = child[u]
  BY DEF Holding
<1>5. \A u \in Threads : pc'[u] \in {"number", "insert"} => pc[u] \in {"number", "insert"}
  OBVIOUS
<1>6. UNCHANGED <<jobs, spawned, stdin, proc>>
  OBVIOUS
<1>7. \A c \in Child : c > spawned => proc'[c] = proc[c] /\ part'[c] = part[c]
  OBVIOUS
<1>8. Placed'
  BY <1>3, <1>5, <1>6, <1>7, StillPlaced
<1>9. OwnedOnce'
  BY <1>3, <1>6, StillOwned
<1>10. NoneLost'
  BY <1>4, <1>6, StillReachable
<1>11. Partial'
  <2>1. \A u \in Threads :
           pc[u] = "writing" => pc'[u] = "writing" /\ handle'[u] = handle[u]
    OBVIOUS
  <2>2. UNCHANGED <<jobs, left, proc, part>>
    OBVIOUS
  <2>3. QED
    BY <2>1, <2>2 DEF Partial
<1>12. QED
  BY <1>1, <1>2, <1>8, <1>9, <1>10, <1>11 DEF IInv

LEMMA StartInsertInv ==
    ASSUME IInv, NEW t \in Threads, StartInsert(t)
    PROVE  IInv'
<1> USE ThreadsAssumption, MaxJobsAssumption, ChunkAssumption
    DEF IInv, TypeOK, StartInsert, table, local, procs, PC, Child, NoChild
<1> USE DEF With
<1>1. TypeOK'
  BY DEF Locking, Placed, Holding
<1>2. Locking'
  BY DEF Locking
<1>3. Placed'
  <2>1. /\ DOMAIN jobs' = DOMAIN jobs \cup {handle[t]}
        /\ jobs'[handle[t]] = child[t]
        /\ \A k \in DOMAIN jobs : k # handle[t] => jobs'[k] = jobs[k]
    OBVIOUS
  <2>2. child[t] \in 1 .. spawned /\ handle[t] \notin DOMAIN jobs
    BY DEF Placed, Locking, Holding
  <2>3. stdin[child[t]]
    BY DEF Placed, Holding
  <2>4. \A k \in DOMAIN jobs' : jobs'[k] <= spawned' /\ stdin'[jobs'[k]]
    BY <2>1, <2>2, <2>3 DEF Placed
  <2>5. \A u \in Threads : Holding(u)' => Holding(u) /\ child'[u] = child[u]
    BY DEF Holding
  <2>6. QED
    BY <2>4, <2>5 DEF Placed
<1>4. OwnedOnce'
  BY DEF OwnedOnce, Placed, Locking, Holding
<1>5. NoneLost'
  <2> SUFFICES ASSUME NEW c \in Child, proc[c] = "running"
               PROVE  \/ \E k \in DOMAIN jobs' : jobs'[k] = c
                      \/ \E u \in Threads : Holding(u)' /\ child'[u] = c
    BY DEF NoneLost
  <2>1. handle[t] \notin DOMAIN jobs
    BY DEF Locking
  <2>2. CASE \E k \in DOMAIN jobs : jobs[k] = c
    BY <2>1, <2>2
  <2>3. CASE \E u \in Threads : Holding(u) /\ child[u] = c
    <3>1. PICK u \in Threads : Holding(u) /\ child[u] = c
      BY <2>3
    <3>2. CASE u = t
      BY <3>1, <3>2
    <3>3. CASE u # t
      <4>1. Holding(u)' /\ child'[u] = c
        BY <3>1, <3>3 DEF Holding
      <4>2. QED
        BY <4>1
    <3>4. QED
      BY <3>2, <3>3
  <2>4. QED
    BY <2>2, <2>3 DEF NoneLost
<1>6. Partial'
  BY DEF Partial, Locking, Placed, OwnedOnce, Holding
<1>7. QED
  BY <1>1, <1>2, <1>3, <1>4, <1>5, <1>6 DEF IInv

LEMMA WriteBeginInv ==
    ASSUME IInv, NEW t \in Threads, NEW h \in DOMAIN jobs, WriteBegin(t, h)
    PROVE  IInv'
<1> USE ThreadsAssumption, MaxJobsAssumption, ChunkAssumption
    DEF IInv, TypeOK, WriteBegin, table, local, procs, PC, Child, NoChild
<1>1. TypeOK'
  <2>1. /\ jobsOwner' \in Threads \cup {NoThread}
        /\ pc' \in [Threads -> PC]
        /\ handle' \in [Threads -> Nat]
        /\ left' \in [Threads -> 0 .. FrameChunks]
    OBVIOUS
  <2>2. UNCHANGED <<next, nextOwner, jobs, child, procs>>
    OBVIOUS
  <2> HIDE DEF WriteBegin
  <2>3. QED
    BY <2>1, <2>2
<1>2. Locking'
  BY DEF Locking
<1>3. \A u \in Threads : Holding(u)' => Holding(u) /\ child'[u] = child[u]
  BY DEF Holding
<1>4. \A u \in Threads : Holding(u) => Holding(u)' /\ child'[u] = child[u]
  BY DEF Holding
<1>5. \A u \in Threads : pc'[u] \in {"number", "insert"} => pc[u] \in {"number", "insert"}
  OBVIOUS
<1>6. UNCHANGED <<jobs, spawned, stdin, proc>>
  OBVIOUS
<1>7. \A c \in Child : c > spawned => proc'[c] = proc[c] /\ part'[c] = part[c]
  OBVIOUS
<1>8. Placed'
  BY <1>3, <1>5, <1>6, <1>7, StillPlaced
<1>9. OwnedOnce'
  BY <1>3, <1>6, StillOwned
<1>10. NoneLost'
  BY <1>4, <1>6, StillReachable
<1>11. Partial'
  BY DEF Partial, Locking, Placed, OwnedOnce, Holding
<1>12. QED
  BY <1>1, <1>2, <1>8, <1>9, <1>10, <1>11 DEF IInv

LEMMA WriteChunkInv ==
    ASSUME IInv, NEW t \in Threads, WriteChunk(t)
    PROVE  IInv'
<1> USE ThreadsAssumption, MaxJobsAssumption, ChunkAssumption
    DEF IInv, TypeOK, WriteChunk, table, local, procs, PC, Child, NoChild
<1>1. TypeOK'
  <2>1. handle[t] \in DOMAIN jobs /\ jobs[handle[t]] \in Child
    BY DEF Locking
  <2>2. pipe[jobs[handle[t]]] + 1 \in 0 .. PipeCap /\ left[t] - 1 \in 0 .. FrameChunks
    BY <2>1
  <2>3. pipe' \in [Child -> 0 .. PipeCap]
    BY <2>1, <2>2
  <2>4. part' \in [Child -> Nat]
    BY <2>1
  <2>5. left' \in [Threads -> 0 .. FrameChunks]
    BY <2>2
  <2>6. UNCHANGED <<next, nextOwner, jobs, jobsOwner, pc, handle, child, spawned, proc, stdin>>
    OBVIOUS
  <2> HIDE DEF WriteChunk
  <2>7. QED
    BY <2>3, <2>4, <2>5, <2>6
<1>2. Locking'
  BY DEF Locking
<1>3. \A u \in Threads : Holding(u)' => Holding(u) /\ child'[u] = child[u]
  BY DEF Holding
<1>4. \A u \in Threads : Holding(u) => Holding(u)' /\ child'[u] = child[u]
  BY DEF Holding
<1>5. \A u \in Threads : pc'[u] \in {"number", "insert"} => pc[u] \in {"number", "insert"}
  OBVIOUS
<1>6. UNCHANGED <<jobs, spawned, stdin, proc>>
  OBVIOUS
<1>7. \A c \in Child : c > spawned => proc'[c] = proc[c] /\ part'[c] = part[c]
  BY DEF Placed, Locking
<1>8. Placed'
  BY <1>3, <1>5, <1>6, <1>7, StillPlaced
<1>9. OwnedOnce'
  BY <1>3, <1>6, StillOwned
<1>10. NoneLost'
  BY <1>4, <1>6, StillReachable
<1>11. Partial'
  <2> SUFFICES ASSUME NEW c \in Child, proc[c] = "running", part'[c] # 0
               PROVE  \E u \in Threads :
                        pc[u] = "writing" /\ jobs[handle[u]] = c /\ left'[u] > 0
    BY DEF Partial
  <2>1. handle[t] \in DOMAIN jobs /\ jobs[handle[t]] \in Child
    BY DEF Locking
  <2>2. CASE c = jobs[handle[t]]
    <3>1. left[t] # 1
      BY <2>1, <2>2
    <3>2. left'[t] > 0
      BY <3>1
    <3>3. QED
      BY <2>2, <3>2
  <2>3. CASE c # jobs[handle[t]]
    <3>1. part[c] # 0
      BY <2>1, <2>3
    <3>2. PICK u \in Threads :
                 pc[u] = "writing" /\ jobs[handle[u]] = c /\ left[u] > 0
      BY <3>1 DEF Partial
    <3>3. left'[u] = left[u]
      BY <2>3, <3>2
    <3>4. QED
      BY <3>2, <3>3
  <2>4. QED
    BY <2>2, <2>3
<1>12. QED
  BY <1>1, <1>2, <1>8, <1>9, <1>10, <1>11 DEF IInv

LEMMA WriteEndInv ==
    ASSUME IInv, NEW t \in Threads, WriteEnd(t)
    PROVE  IInv'
<1> USE ThreadsAssumption, MaxJobsAssumption, ChunkAssumption
    DEF IInv, TypeOK, WriteEnd, table, local, procs, PC, Child, NoChild
<1>1. TypeOK'
  BY DEF Locking, Placed, Holding
<1>2. Locking'
  BY DEF Locking
<1>3. \A u \in Threads : Holding(u)' => Holding(u) /\ child'[u] = child[u]
  BY DEF Holding
<1>4. \A u \in Threads : Holding(u) => Holding(u)' /\ child'[u] = child[u]
  BY DEF Holding
<1>5. \A u \in Threads : pc'[u] \in {"number", "insert"} => pc[u] \in {"number", "insert"}
  OBVIOUS
<1>6. UNCHANGED <<jobs, spawned, stdin, proc>>
  OBVIOUS
<1>7. \A c \in Child : c > spawned => proc'[c] = proc[c] /\ part'[c] = part[c]
  OBVIOUS
<1>8. Placed'
  BY <1>3, <1>5, <1>6, <1>7, StillPlaced
<1>9. OwnedOnce'
  BY <1>3, <1>6, StillOwned
<1>10. NoneLost'
  BY <1>4, <1>6, StillReachable
<1>11. Partial'
  BY DEF Partial, Locking, Placed, OwnedOnce, Holding
<1>12. QED
  BY <1>1, <1>2, <1>8, <1>9, <1>10, <1>11 DEF IInv

LEMMA FinishRemoveInv ==
    ASSUME IInv, NEW t \in Threads, NEW h \in DOMAIN jobs, FinishRemove(t, h)
    PROVE  IInv'
<1> USE ThreadsAssumption, MaxJobsAssumption, ChunkAssumption
    DEF IInv, TypeOK, FinishRemove, table, local, procs, PC, Child, NoChild
<1> USE DEF Without
<1>1. TypeOK'
  BY DEF Locking, Placed, Holding
<1>2. Locking'
  BY DEF Locking
<1>3. Placed'
  <2>1. /\ DOMAIN jobs' = DOMAIN jobs \ {h}
        /\ \A k \in DOMAIN jobs' : jobs'[k] = jobs[k]
    OBVIOUS
  <2>2. \A k \in DOMAIN jobs' : jobs[k] # jobs[h]
    BY <2>1 DEF OwnedOnce
  <2>3. \A k \in DOMAIN jobs' : jobs'[k] <= spawned' /\ stdin'[jobs'[k]]
    BY <2>1, <2>2 DEF Placed
  <2>4. \A u \in Threads : Holding(u)' => child'[u] \in 1 .. spawned'
    BY DEF Placed, Holding
  <2>5. \A u \in Threads : pc'[u] \in {"number", "insert"} => stdin'[child'[u]]
    BY DEF Placed, Holding, OwnedOnce
  <2>6. \A c \in Child : c > spawned' => proc'[c] = "none" /\ part'[c] = 0
    BY DEF Placed
  <2>7. QED
    BY <2>3, <2>4, <2>5, <2>6 DEF Placed
<1>4. OwnedOnce'
  BY DEF OwnedOnce, Placed, Locking, Holding
<1>5. NoneLost'
  <2> SUFFICES ASSUME NEW c \in Child, proc'[c] = "running"
               PROVE  \/ \E k \in DOMAIN jobs' : jobs'[k] = c
                      \/ \E u \in Threads : Holding(u)' /\ child'[u] = c
    BY DEF NoneLost
  <2>1. proc[c] = "running"
    OBVIOUS
  <2>2. CASE \E u \in Threads : Holding(u) /\ child[u] = c
    <3>1. PICK u \in Threads : Holding(u) /\ child[u] = c
      BY <2>2
    <3>2. Holding(u)' /\ child'[u] = c
      BY <3>1 DEF Holding
    <3>3. QED
      BY <3>2
  <2>3. CASE \E k \in DOMAIN jobs : jobs[k] = c
    <3>1. PICK k \in DOMAIN jobs : jobs[k] = c
      BY <2>3
    <3>2. CASE k # h
      <4>1. k \in DOMAIN jobs' /\ jobs'[k] = c
        BY <3>1, <3>2
      <4>2. QED
        BY <4>1
    <3>3. CASE k = h
      <4>1. Holding(t)' /\ child'[t] = c
        BY <3>1, <3>3 DEF Holding
      <4>2. QED
        BY <4>1
    <3>4. QED
      BY <3>2, <3>3
  <2>4. QED
    BY <2>1, <2>2, <2>3 DEF NoneLost
<1>6. Partial'
  BY DEF Partial, Locking, Placed, OwnedOnce, Holding
<1>7. QED
  BY <1>1, <1>2, <1>3, <1>4, <1>5, <1>6 DEF IInv

LEMMA FinishWaitInv ==
    ASSUME IInv, NEW t \in Threads, FinishWait(t)
    PROVE  IInv'
<1> USE ThreadsAssumption, MaxJobsAssumption, ChunkAssumption
    DEF IInv, TypeOK, FinishWait, table, local, procs, PC, Child, NoChild
<1>1. TypeOK'
  BY DEF Locking, Placed, Holding
<1>2. Locking'
  BY DEF Locking
<1>3. Placed'
  <2>1. \A h \in DOMAIN jobs' : jobs'[h] <= spawned' /\ stdin'[jobs'[h]]
    BY DEF Placed
  <2>2. \A u \in Threads : Holding(u)' => Holding(u) /\ child'[u] = child[u]
    BY DEF Holding
  <2>3. \A u \in Threads : pc'[u] \in {"number", "insert"} => pc'[u] = pc[u]
    OBVIOUS
  <2>4. QED
    BY <2>1, <2>2, <2>3 DEF Placed, Holding
<1>4. OwnedOnce'
  <2>1. jobs' = jobs
    OBVIOUS
  <2>2. \A u \in Threads : Holding(u)' => Holding(u) /\ child'[u] = child[u]
    BY DEF Holding
  <2>3. QED
    BY <2>1, <2>2, StillOwned
<1>5. NoneLost'
  <2>1. \A u \in Threads :
           Holding(u) /\ proc[child[u]] = "running" => Holding(u)' /\ child'[u] = child[u]
    BY DEF Holding
  <2>2. UNCHANGED <<jobs, proc>>
    OBVIOUS
  <2> HIDE DEF TypeOK, FinishWait
  <2>3. QED
    BY <2>1, <2>2 DEF NoneLost
<1>6. Partial'
  <2>1. UNCHANGED <<jobs, handle, left, proc, part>>
    OBVIOUS
  <2>2. \A u \in Threads : pc[u] = "writing" => pc'[u] = "writing"
    OBVIOUS
  <2> HIDE DEF TypeOK, FinishWait
  <2>3. QED
    BY <2>1, <2>2 DEF Partial
<1>7. QED
  BY <1>1, <1>2, <1>3, <1>4, <1>5, <1>6 DEF IInv

LEMMA KillInv ==
    ASSUME IInv, NEW t \in Threads, NEW h \in DOMAIN jobs, Kill(t, h)
    PROVE  IInv'
<1> USE ThreadsAssumption, MaxJobsAssumption, ChunkAssumption
    DEF IInv, TypeOK, Kill, table, local, procs, PC, Child, NoChild
<1> USE DEF Without
<1>1. TypeOK'
  BY DEF Locking, Placed, Holding
<1>2. Locking'
  BY DEF Locking
<1>3. Placed'
  <2>1. /\ DOMAIN jobs' = DOMAIN jobs \ {h}
        /\ \A k \in DOMAIN jobs' : jobs'[k] = jobs[k]
    OBVIOUS
  <2>2. \A k \in DOMAIN jobs' : jobs[k] # jobs[h]
    BY <2>1 DEF OwnedOnce
  <2>3. \A k \in DOMAIN jobs' : jobs'[k] <= spawned' /\ stdin'[jobs'[k]]
    BY <2>1, <2>2 DEF Placed
  <2>4. \A u \in Threads : Holding(u)' => child'[u] \in 1 .. spawned'
    BY DEF Placed, Holding
  <2>5. \A u \in Threads : pc'[u] \in {"number", "insert"} => stdin'[child'[u]]
    BY DEF Placed, Holding, OwnedOnce
  <2>6. \A c \in Child : c > spawned' => proc'[c] = "none" /\ part'[c] = 0
    BY DEF Placed
  <2>7. QED
    BY <2>3, <2>4, <2>5, <2>6 DEF Placed
<1>4. OwnedOnce'
  BY DEF OwnedOnce, Placed, Locking, Holding
<1>5. NoneLost'
  <2> SUFFICES ASSUME NEW c \in Child, proc'[c] = "running"
               PROVE  \/ \E k \in DOMAIN jobs' : jobs'[k] = c
                      \/ \E u \in Threads : Holding(u)' /\ child'[u] = c
    BY DEF NoneLost
  <2>1. proc[c] = "running"
    OBVIOUS
  <2>2. CASE \E u \in Threads : Holding(u) /\ child[u] = c
    <3>1. PICK u \in Threads : Holding(u) /\ child[u] = c
      BY <2>2
    <3>2. Holding(u)' /\ child'[u] = c
      BY <3>1 DEF Holding
    <3>3. QED
      BY <3>2
  <2>3. CASE \E k \in DOMAIN jobs : jobs[k] = c
    <3>1. PICK k \in DOMAIN jobs : jobs[k] = c
      BY <2>3
    <3>2. CASE k # h
      <4>1. k \in DOMAIN jobs' /\ jobs'[k] = c
        BY <3>1, <3>2
      <4>2. QED
        BY <4>1
    <3>3. CASE k = h
      <4>1. proc'[c] # "running"
        BY <3>1, <3>3
      <4>2. QED
        BY <4>1
    <3>4. QED
      BY <3>2, <3>3
  <2>4. QED
    BY <2>1, <2>2, <2>3 DEF NoneLost
<1>6. Partial'
  BY DEF Partial, Locking, Placed, OwnedOnce, Holding
<1>7. QED
  BY <1>1, <1>2, <1>3, <1>4, <1>5, <1>6 DEF IInv

LEMMA ProcessInv ==
    ASSUME IInv, NEW c \in Child, Process(c)
    PROVE  IInv'
<1> USE ThreadsAssumption, MaxJobsAssumption, ChunkAssumption
    DEF IInv, TypeOK, Process, ProcRead, ProcEof, ProcFail,
        table, local, procs, PC, Child, NoChild
<1>1. /\ UNCHANGED <<table, local, spawned, stdin, part>>
      /\ \A d \in Child : proc'[d] = "running" => proc[d] = "running"
      /\ \A d \in Child : proc[d] = "none" => proc'[d] = "none"
  <2>1. UNCHANGED <<table, local, spawned, stdin, part>>
    OBVIOUS
  <2>2. proc' = proc \/ proc' = [proc EXCEPT ![c] = "exited"]
    OBVIOUS
  <2>3. proc[c] = "running"
    OBVIOUS
  <2>4. \A d \in Child : proc'[d] = "running" => proc[d] = "running"
    BY <2>2
  <2>5. \A d \in Child : proc[d] = "none" => proc'[d] = "none"
    BY <2>2, <2>3
  <2>6. QED
    BY <2>1, <2>4, <2>5
<1>2. TypeOK'
  <2>1. proc' = proc \/ proc' = [proc EXCEPT ![c] = "exited"]
    OBVIOUS
  <2>2. proc' \in [Child -> {"none", "running", "exited", "killed"}]
    BY <2>1
  <2>3. CASE ProcRead(c)
    <3>1. pipe[c] - 1 \in 0 .. PipeCap
      BY <2>3
    <3>2. pipe' = [pipe EXCEPT ![c] = pipe[c] - 1]
      BY <2>3
    <3>3. pipe' \in [Child -> 0 .. PipeCap]
      BY <3>1, <3>2
    <3>4. QED
      BY <1>1, <2>2, <3>3
  <2>4. CASE ProcEof(c) \/ ProcFail(c)
    <3>1. pipe' = pipe
      BY <2>4
    <3>2. QED
      BY <1>1, <2>2, <3>1
  <2>5. QED
    BY <2>3, <2>4
<1>3. Locking'
  BY <1>1 DEF Locking
<1>4. Placed'
  BY <1>1 DEF Placed, Holding
<1>5. OwnedOnce'
  BY <1>1 DEF OwnedOnce, Holding
<1>6. NoneLost'
  BY <1>1 DEF NoneLost, Holding
<1>7. Partial'
  BY <1>1 DEF Partial
<1>8. QED
  BY <1>2, <1>3, <1>4, <1>5, <1>6, <1>7 DEF IInv

LEMMA NextInv == IInv /\ [Next]_vars => IInv'
<1> SUFFICES ASSUME IInv, [Next]_vars PROVE IInv'
  OBVIOUS
<1>1. ASSUME NEW t \in Threads, Command(t) PROVE IInv'
  <2>1. CASE StartSpawn(t)
    BY <2>1, StartSpawnInv
  <2>2. CASE StartNumber(t)
    BY <2>2, StartNumberInv
  <2>3. CASE StartInsert(t)
    BY <2>3, StartInsertInv
  <2>4. CASE WriteChunk(t)
    BY <2>4, WriteChunkInv
  <2>5. CASE WriteEnd(t)
    BY <2>5, WriteEndInv
  <2>6. CASE FinishWait(t)
    BY <2>6, FinishWaitInv
  <2>7. ASSUME NEW h \in DOMAIN jobs,
               WriteBegin(t, h) \/ FinishRemove(t, h) \/ Kill(t, h)
        PROVE  IInv'
    BY <2>7, WriteBeginInv, FinishRemoveInv, KillInv
  <2>8. QED
    BY <1>1, <2>1, <2>2, <2>3, <2>4, <2>5, <2>6, <2>7 DEF Command
<1>2. ASSUME NEW c \in Child, Process(c) PROVE IInv'
  BY <1>2, ProcessInv
<1>3. CASE UNCHANGED vars
  BY <1>3 DEF vars, table, local, procs, IInv, TypeOK, Locking, Placed,
              OwnedOnce, NoneLost, Partial, Holding
<1>4. QED
  BY <1>1, <1>2, <1>3 DEF Next

(* The inductive invariant holds of every behaviour of the job table       *)
(* (lib.rs, ffmpeg_start to ffmpeg_kill).                                  *)
THEOREM Inductive == Spec => []IInv
BY InitInv, NextInv, PTL DEF Spec

(* Types: in particular no mutex guard, handle or child of a command is    *)
(* ever out of range.                                                      *)
THEOREM TypeCorrect == Spec => []TypeOK
<1>1. IInv => TypeOK
  BY DEF IInv
<1>2. QED
  BY <1>1, Inductive, PTL

(* No two owners of one ffmpeg process, for any number of callers.         *)
THEOREM OwnedOnceAlways == Spec => []OwnedOnce
<1>1. IInv => OwnedOnce
  BY DEF IInv
<1>2. QED
  BY <1>1, Inductive, PTL

(* No running ffmpeg process is ever out of reach of the table and of the  *)
(* command that holds it.                                                  *)
THEOREM NoneLostAlways == Spec => []NoneLost
<1>1. IInv => NoneLost
  BY DEF IInv
<1>2. QED
  BY <1>1, Inductive, PTL

(* ffmpeg_finish never cuts a frame another caller is writing: a child     *)
(* whose stdin is closed has no owner in the table, hence no writer, hence *)
(* no partial frame.                                                       *)
THEOREM WholeFramesAlways == Spec => []WholeFrames
<1>1. ASSUME IInv PROVE WholeFrames
  <2> SUFFICES ASSUME NEW c \in Child, proc[c] = "running", ~stdin[c], part[c] # 0
               PROVE  FALSE
    BY <1>1 DEF IInv, TypeOK, WholeFrames
  <2>1. PICK t \in Threads : pc[t] = "writing" /\ jobs[handle[t]] = c
    BY <1>1 DEF IInv, Partial
  <2>2. handle[t] \in DOMAIN jobs
    BY <1>1, <2>1 DEF IInv, Locking
  <2>3. QED
    BY <1>1, <2>1, <2>2 DEF IInv, Placed
<1>2. QED
  BY <1>1, Inductive, PTL

(* What every step does to the set of registered handles.                  *)
LEMMA TableStep ==
    ASSUME IInv, [Next]_vars
    PROVE  \/ UNCHANGED <<next, nextOwner, DOMAIN jobs>>
           \/ nextOwner = NoThread /\ nextOwner' # NoThread
                 /\ next' = next + 1 /\ DOMAIN jobs' = DOMAIN jobs
           \/ nextOwner # NoThread /\ nextOwner' = NoThread /\ next' = next
                 /\ next \notin DOMAIN jobs /\ DOMAIN jobs' = DOMAIN jobs \cup {next}
           \/ UNCHANGED <<next, nextOwner>>
                 /\ \E h \in DOMAIN jobs : DOMAIN jobs' = DOMAIN jobs \ {h}
<1> USE ThreadsAssumption DEF IInv
<1>1. ASSUME NEW t \in Threads, StartSpawn(t) \/ WriteChunk(t) \/ FinishWait(t) \/ WriteEnd(t)
      PROVE  UNCHANGED <<next, nextOwner, DOMAIN jobs>>
  BY <1>1 DEF StartSpawn, WriteChunk, FinishWait, WriteEnd, table
<1>2. ASSUME NEW t \in Threads, NEW h \in DOMAIN jobs, WriteBegin(t, h)
      PROVE  UNCHANGED <<next, nextOwner, DOMAIN jobs>>
  BY <1>2 DEF WriteBegin
<1>3. ASSUME NEW t \in Threads, StartNumber(t)
      PROVE  nextOwner = NoThread /\ nextOwner' # NoThread
               /\ next' = next + 1 /\ DOMAIN jobs' = DOMAIN jobs
  BY <1>3 DEF StartNumber
<1>4. ASSUME NEW t \in Threads, StartInsert(t)
      PROVE  nextOwner # NoThread /\ nextOwner' = NoThread /\ next' = next
               /\ next \notin DOMAIN jobs /\ DOMAIN jobs' = DOMAIN jobs \cup {next}
  <2>1. nextOwner = t /\ handle[t] = next /\ next \notin DOMAIN jobs
    BY <1>4 DEF StartInsert, Locking
  <2>2. DOMAIN jobs' = DOMAIN jobs \cup {handle[t]}
    BY <1>4 DEF StartInsert, With
  <2>3. QED
    BY <1>4, <2>1, <2>2 DEF StartInsert
<1>5. ASSUME NEW t \in Threads, NEW h \in DOMAIN jobs, FinishRemove(t, h) \/ Kill(t, h)
      PROVE  UNCHANGED <<next, nextOwner>> /\ DOMAIN jobs' = DOMAIN jobs \ {h}
  BY <1>5 DEF FinishRemove, Kill, Without
<1>6. ASSUME NEW c \in Child, Process(c)
      PROVE  UNCHANGED <<next, nextOwner, DOMAIN jobs>>
  BY <1>6 DEF Process, ProcRead, ProcEof, ProcFail, table
<1>7. CASE UNCHANGED vars
  BY <1>7 DEF vars, table
<1>8. QED
  BY <1>1, <1>2, <1>3, <1>4, <1>5, <1>6, <1>7 DEF Next, Command

(* Handles are issued in increasing order and never come back.             *)
THEOREM NoResurrectionAlways == Spec => NoResurrection
<1>1. ASSUME IInv, [Next]_vars
      PROVE  \A h \in DOMAIN jobs' \ DOMAIN jobs :
                h = next /\ \A k \in DOMAIN jobs : k < h
  <2> SUFFICES ASSUME NEW h \in DOMAIN jobs', h \notin DOMAIN jobs
               PROVE  h = next /\ \A k \in DOMAIN jobs : k < h
    OBVIOUS
  <2>1. h = next /\ next \notin DOMAIN jobs
    <3>1. DOMAIN jobs' # DOMAIN jobs
      OBVIOUS
    <3>2. ~ \E k \in DOMAIN jobs : DOMAIN jobs' = DOMAIN jobs \ {k}
      OBVIOUS
    <3>3. next \notin DOMAIN jobs /\ DOMAIN jobs' = DOMAIN jobs \cup {next}
      BY <1>1, <3>1, <3>2, TableStep
    <3>4. QED
      BY <3>3
  <2>2. DOMAIN jobs \subseteq 1 .. next /\ next \in Nat
    BY <1>1 DEF IInv, TypeOK
  <2>3. QED
    BY <2>1, <2>2
<1>2. QED
  BY <1>1, Inductive, PTL DEF Spec, NoResurrection

(* The locked table implements the atomic one of JobTable: its initial     *)
(* state is theirs and each of its steps is one of theirs or a stutter.    *)
THEOREM Refinement == Spec => ImplementsTable
<1>1. Init => Abstract!TInit
  BY DEF Init, Abstract!TInit
<1>2. ASSUME IInv, IInv', [Next]_vars
      PROVE  [Abstract!TNext]_(Abstract!tvars)
  <2>1. next \in Nat /\ next' \in Nat
    BY <1>2 DEF IInv, TypeOK
  <2>2. CASE UNCHANGED <<next, nextOwner, DOMAIN jobs>>
    BY <2>2 DEF Abstract!tvars
  <2>3. CASE nextOwner = NoThread /\ nextOwner' # NoThread
               /\ next' = next + 1 /\ DOMAIN jobs' = DOMAIN jobs
    BY <2>1, <2>3 DEF Abstract!tvars
  <2>4. CASE nextOwner # NoThread /\ nextOwner' = NoThread /\ next' = next
               /\ DOMAIN jobs' = DOMAIN jobs \cup {next}
    BY <2>1, <2>4 DEF Abstract!TNext, Abstract!TStart
  <2>5. CASE UNCHANGED <<next, nextOwner>>
               /\ \E h \in DOMAIN jobs : DOMAIN jobs' = DOMAIN jobs \ {h}
    BY <2>5 DEF Abstract!TNext, Abstract!TRemove
  <2>6. QED
    BY <1>2, <2>2, <2>3, <2>4, <2>5, TableStep
<1>3. QED
  BY <1>1, <1>2, Inductive, PTL DEF Spec, ImplementsTable, Abstract!TSpec
===============================================================================
