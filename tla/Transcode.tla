------------------------------- MODULE Transcode -------------------------------
(* The threads of one ffmpeg process (dependencies/ffmpeg/fftools) that joins a
   rendered video with its sound: muxav copies the video stream and encodes the
   audio stream, -shortest (scripts/tas/4video.js).

       demuxer of the video -----------------------------> muxer
       demuxer of the audio -> decoder -> filter -> encoder ^

   The threads are joined by thread queues (a queue here is what ThreadQueue
   implements: sending blocks while it is full, receiving while it is empty or
   choked).  The scheduler (ffmpeg_sched.c) holds back the demuxer whose stream is
   too far ahead.  One action is what a thread does under one lock. *)
EXTENDS Integers, Sequences, FiniteSets, FiniteSetsExt

CONSTANTS
    MaxPackets,   \* bound: packets in an input
    Duration,     \* of a packet of either stream
    PacketEnd,    \* per stream: pts + duration of its packets, in decode order
    Tolerance,    \* SCHEDULE_TOLERANCE
    QueueSize,    \* capacity of every thread queue
    BufSize,      \* of the muxer's sync queue
    Failing       \* tasks that may fail

Copied == 1
Coded == 2
Streams == {Copied, Coded}

(* Nothing waits as long as the buffer of the sync queue: no time stamp is rounded. *)
INSTANCE SyncQueue WITH NbStreams <- 2, Limiting <- Streams,
    TimeBase <- [s \in Streams |-> 1], Second <- 1, Micro <- 1

Demux == <<"video demuxer", "audio demuxer">>
Workers == {"dec", "filter", "enc"}
Queues == Workers \union {"mux"}
Threads == {Demux[s] : s \in Streams} \union Queues \union {"main"}
Feeds == [dec |-> "filter", filter |-> "enc", enc |-> "mux"]

ASSUME BoundsAssumption ==
    /\ MaxPackets \in Nat \ {0} /\ QueueSize \in Nat \ {0}
    /\ Duration \in [Streams -> Nat \ {0}] /\ Tolerance \in Nat \ {0}
    /\ PacketEnd \in [Streams -> [1 .. MaxPackets -> Nat]]
    /\ Failing \subseteq Threads \ {"main"}

VARIABLES
    length,          \* packets in the input of a stream
    pc,              \* where a thread is
    hand,            \* the packet (frame) a thread has in hand, by its number
    fifo,            \* per queue: the packets in it
    sendFinished,    \* per queue: streams that are finished for sending
    recvFinished,    \* per queue: streams that are finished for receiving
    queueChoked,     \* the flag choked of a queue
    choked,          \* per stream: choked of its demuxer's waiter
    dstFinished,     \* dst_finished of the workers
    premux,          \* pre_mux_queue of a stream; 0 stands for the end of the stream
    muxStarted,      \* mux_started
    readyLock,       \* who holds mux_ready_lock for long
    initEof,         \* streams with init_eof
    lastDts,         \* last_dts of a stream
    sourceFinished,  \* streams with source_finished
    exited,          \* streams whose demuxer has task_exited
    scheduleLock,    \* who holds schedule_lock
    plan,            \* what is left to apply of this schedule_update_locked
    sq, written,     \* the muxer's sync queue, and how many packets it has written
    terminate,       \* the flag terminate
    muxDone,         \* nb_mux_done = nb_mux
    failing          \* the task that has failed, if any

queues == <<fifo, sendFinished, recvFinished, queueChoked>>
premuxing == <<premux, muxStarted, readyLock, initEof>>
schedule == <<choked, lastDts, sourceFinished, exited, scheduleLock, plan>>
muxing == <<sq, written>>
stopping == <<terminate, muxDone, failing>>
vars == <<length, pc, hand, queues, dstFinished, premuxing, schedule, muxing, stopping>>

None == "none"
NoDts == 0  \* AV_NOPTS_VALUE of a time stamp of the scheduler

(* The packets come in decode order: the dts rises by a packet's duration, the time at
   which a packet ends need not rise (the frames between which a frame is predicted come
   before it). *)
Dts(s, n) == (n - 1) * Duration[s]
DtsEnd(s, n) == n * Duration[s]
End(s, n) == PacketEnd[s][n]

Init ==
    /\ length \in [Streams -> 1 .. MaxPackets]
    /\ pc = [t \in Threads |->
                CASE t \in {Demux[s] : s \in Streams} -> "read"
                  [] t \in Workers -> "receive"
                  [] t = "mux" -> "not started"
                  [] t = "main" -> "start"]
    /\ hand = [t \in Threads |-> 0]
    /\ fifo = [q \in Queues |-> <<>>]
    /\ sendFinished = [q \in Queues |-> {}] /\ recvFinished = [q \in Queues |-> {}]
    /\ queueChoked = [q \in Queues |-> FALSE]
    /\ choked = [s \in Streams |-> FALSE]
    /\ dstFinished = {}
    /\ premux = [s \in Streams |-> <<>>]
    /\ muxStarted = FALSE /\ readyLock = None /\ initEof = {}
    /\ lastDts = [s \in Streams |-> NoDts]
    /\ sourceFinished = {} /\ exited = {}
    /\ scheduleLock = None /\ plan = <<>>
    /\ sq = sq_alloc /\ written = [s \in Streams |-> 0]
    /\ terminate = FALSE /\ muxDone = FALSE /\ failing = None

(* A thread that applies a schedule does nothing else meanwhile. *)
At(t, label) == pc[t] = label /\ scheduleLock # t
Goto(t, label) == pc' = [pc EXCEPT ![t] = label]

-----------------------------------------------------------------------------
(* The scheduler. *)

(* trailing_dts(sch, 0) *)
TrailingDts(dts, finished) ==
    LET open == Streams \ finished IN
    IF open = {} \/ \E s \in open : dts[s] = NoDts THEN NoDts
    ELSE Min({dts[s] : s \in open})

(* A mistake: a stream may also be just as far ahead as the tolerance. *)
MayProceedAt(dts, finished) ==
    LET trailing == TrailingDts(dts, finished) IN
    {s \in Streams \ finished :
        IF trailing = NoDts THEN dts[s] = NoDts ELSE dts[s] - trailing <= Tolerance}

(* Streams that are not finished and not too far ahead of the trailing one. *)
MayProceed(dts, finished) ==
    LET trailing == TrailingDts(dts, finished) IN
    {s \in Streams \ finished :
        IF trailing = NoDts THEN dts[s] = NoDts ELSE dts[s] - trailing < Tolerance}

(* If none may proceed, the first demuxer that is still there. *)
Unchoked(dts, finished, gone) ==
    LET left == Streams \ gone IN
    IF MayProceed(dts, finished) # {} \/ left = {} THEN MayProceed(dts, finished)
    ELSE {Min(left)}

(* The waiters that change, and the queue behind the audio demuxer with its one
   (choke_demux; the video demuxer feeds the muxer, which is never choked). *)
Changes(unchoked) ==
    LET changed(s) == choked[s] # (s \notin unchoked)
        to(s) == [stream |-> s, choked |-> s \notin unchoked]
    IN  (IF changed(Copied) THEN <<<<"waiter", to(Copied)>>>> ELSE <<>>)
        \o (IF changed(Coded) THEN <<<<"waiter", to(Coded)>>, <<"queue", to(Coded)>>>> ELSE <<>>)

(* Thread t takes schedule_lock, sets these and calls schedule_update_locked. *)
Update(t, dts, finished, gone) ==
    /\ scheduleLock = None
    /\ lastDts' = dts /\ sourceFinished' = finished /\ exited' = gone
    /\ plan' = IF terminate THEN <<>> ELSE Changes(Unchoked(dts, finished, gone))
    /\ scheduleLock' = IF plan' = <<>> THEN None ELSE t
    /\ UNCHANGED choked

(* ... and applies the changes one after the other. *)
ApplyChange(t) ==
    /\ scheduleLock = t
    /\ LET to == Head(plan)[2] IN
        IF Head(plan)[1] = "waiter"
        THEN choked' = [choked EXCEPT ![to.stream] = to.choked] /\ UNCHANGED queueChoked
        ELSE queueChoked' = [queueChoked EXCEPT !["dec"] = to.choked] /\ UNCHANGED choked
    /\ plan' = Tail(plan)
    /\ scheduleLock' = IF Len(plan) = 1 THEN None ELSE t
    /\ UNCHANGED <<length, pc, hand, fifo, sendFinished, recvFinished, dstFinished, premuxing,
                   lastDts, sourceFinished, exited, muxing, stopping>>

-----------------------------------------------------------------------------
(* The thread queues. *)

(* A mistake: off by one. *)
HasRoomForOne(q) == Len(fifo[q]) <= QueueSize

HasRoom(q) == Len(fifo[q]) < QueueSize

Put(q, s, n) ==
    /\ fifo' = [fifo EXCEPT ![q] = Append(@, [stream |-> s, n |-> n])]
    /\ UNCHANGED <<sendFinished, recvFinished, queueChoked>>

(* tq_send says EOF: nobody receives the stream any more. *)
Refuse(q, s) ==
    /\ sendFinished' = [sendFinished EXCEPT ![q] = @ \union {s}]
    /\ UNCHANGED <<fifo, recvFinished, queueChoked>>

tq_send_finish(q, s) ==
    /\ sendFinished' = [sendFinished EXCEPT ![q] = @ \union {s}]
    /\ queueChoked' = [queueChoked EXCEPT ![q] = FALSE]
    /\ UNCHANGED <<fifo, recvFinished>>

tq_receive_finish(q, S) ==
    /\ recvFinished' = [recvFinished EXCEPT ![q] = @ \union S]
    /\ UNCHANGED <<fifo, sendFinished, queueChoked>>

(* tq_send: on to the label "sent", or "refused" when nobody receives any more. *)
SendTo(t, q, s, n, sent, refused) ==
    \/ s \in recvFinished[q] /\ Refuse(q, s) /\ Goto(t, refused)
    \/ s \notin recvFinished[q] /\ HasRoom(q) /\ Put(q, s, n) /\ Goto(t, sent)

-----------------------------------------------------------------------------
(* send_to_mux, called by the video demuxer and by the encoder: a packet at the
   label "send", the end of the stream at "close". *)

(* The muxer has not started: the packet waits in the pre-muxing queue. *)
Premux(t, s, n, next) ==
    /\ ~muxStarted /\ readyLock = None
    /\ premux' = [premux EXCEPT ![s] = Append(@, n)]
    /\ Goto(t, next)
    /\ UNCHANGED <<length, hand, queues, dstFinished, muxStarted, readyLock, initEof,
                   schedule, muxing, stopping>>

MuxSend(t, s) ==
    /\ At(t, "send")
    /\ \/ Premux(t, s, hand[t], "sent")
       \/ /\ muxStarted
          /\ IF s \in initEof THEN Goto(t, "close") /\ UNCHANGED queues
             ELSE SendTo(t, "mux", s, hand[t], "sent", "close")
          /\ UNCHANGED <<length, hand, dstFinished, premuxing, schedule, muxing, stopping>>

MuxSendEnd(t, s) ==
    /\ At(t, "close")
    /\ \/ Premux(t, s, 0, "closed")
       \/ /\ muxStarted
          /\ tq_send_finish("mux", s)
          /\ Goto(t, "closed")
          /\ UNCHANGED <<length, hand, dstFinished, premuxing, schedule, muxing, stopping>>

(* update_schedule *)
MuxSent(t, s, again, after) ==
    /\ scheduleLock # t
    /\ \/ /\ pc[t] = "sent" /\ Goto(t, again)
          /\ Update(t, [lastDts EXCEPT ![s] = DtsEnd(s, hand[t])], sourceFinished, exited)
       \/ /\ pc[t] = "closed" /\ Goto(t, after)
          /\ Update(t, lastDts, sourceFinished \union {s}, exited)
    /\ dstFinished' = IF pc[t] = "closed" /\ t \in Workers THEN dstFinished \union {t} ELSE dstFinished
    /\ hand' = IF t \in Workers THEN [hand EXCEPT ![t] = 0] ELSE hand
    /\ UNCHANGED <<length, queues, premuxing, muxing, stopping>>

-----------------------------------------------------------------------------
(* A demuxer: input_thread, sch_demux_send and demux_done. *)

DemuxRead(s) ==
    LET d == Demux[s] IN
    /\ At(d, "read")
    /\ IF hand[d] = length[s] THEN Goto(d, "close") /\ UNCHANGED hand
       ELSE /\ hand' = [hand EXCEPT ![d] = @ + 1]
            /\ Goto(d, IF choked[s] THEN "wait" ELSE "send")
    /\ UNCHANGED <<length, queues, dstFinished, premuxing, schedule, muxing, stopping>>

(* A mistake: terminate is looked at after the wait only. *)
DemuxWaitLong(s) ==
    LET d == Demux[s] IN
    /\ At(d, "wait")
    /\ ~choked[s]
    /\ Goto(d, IF terminate THEN "close" ELSE "send")
    /\ UNCHANGED <<length, hand, queues, dstFinished, premuxing, schedule, muxing, stopping>>

(* waiter_wait: terminate counts only for a demuxer that had to wait. *)
DemuxWait(s) ==
    LET d == Demux[s] IN
    /\ At(d, "wait")
    /\ ~choked[s] \/ terminate
    /\ Goto(d, IF terminate THEN "close" ELSE "send")
    /\ UNCHANGED <<length, hand, queues, dstFinished, premuxing, schedule, muxing, stopping>>

DecoderSend ==
    LET d == Demux[Coded] IN
    /\ \/ At(d, "send") /\ SendTo(d, "dec", Coded, hand[d], "read", "close")
       \/ At(d, "close") /\ tq_send_finish("dec", Coded) /\ Goto(d, "exit")
    /\ UNCHANGED <<length, hand, dstFinished, premuxing, schedule, muxing, stopping>>

DemuxExit(s) ==
    LET d == Demux[s] IN
    /\ At(d, "exit")
    /\ Update(d, lastDts, sourceFinished, exited \union {s})
    /\ Goto(d, "done")
    /\ UNCHANGED <<length, hand, queues, dstFinished, premuxing, muxing, stopping>>

Demuxer(s) ==
    LET d == Demux[s] IN
    \/ DemuxRead(s) \/ DemuxWait(s) \/ DemuxExit(s) \/ ApplyChange(d)
    \/ s = Coded /\ DecoderSend
    \/ s = Copied /\ (MuxSend(d, s) \/ MuxSendEnd(d, s) \/ MuxSent(d, s, "read", "exit"))

-----------------------------------------------------------------------------
(* A decoder, filter graph or encoder thread: from its queue on to the next. *)

WorkerReceive(w) ==
    /\ At(w, "receive") /\ ~queueChoked[w]
    /\ IF fifo[w] # <<>>
       THEN /\ hand' = [hand EXCEPT ![w] = Head(fifo[w]).n]
            /\ fifo' = [fifo EXCEPT ![w] = Tail(@)]
            /\ Goto(w, CASE w = "filter" /\ pc["mux"] = "not started" -> "open"
                         [] w = "enc" /\ w \in dstFinished -> "receive"
                         [] OTHER -> "send")
            /\ UNCHANGED recvFinished
       ELSE /\ Coded \in sendFinished[w]
            /\ recvFinished' = [recvFinished EXCEPT ![w] = {Coded}]
            /\ Goto(w, "finish")
            /\ UNCHANGED <<hand, fifo>>
    /\ UNCHANGED <<length, sendFinished, queueChoked, dstFinished, premuxing, schedule,
                   muxing, stopping>>

(* The decoder and the filter end when nobody wants their frames any more. *)
WorkerSend(w) ==
    /\ w # "enc"
    /\ At(w, "send")
    /\ SendTo(w, Feeds[w], Coded, hand[w], "receive", "close")
    /\ hand' = [hand EXCEPT ![w] = 0]
    /\ UNCHANGED <<length, dstFinished, premuxing, schedule, muxing, stopping>>

(* dec_done, filter_done and enc_done begin with tq_receive_finish. *)
WorkerFinish(w) ==
    /\ At(w, "finish")
    /\ tq_receive_finish(w, {Coded})
    /\ Goto(w, IF w \in dstFinished THEN "exit" ELSE "close")
    /\ UNCHANGED <<length, hand, dstFinished, premuxing, schedule, muxing, stopping>>

AfterClose(w) == IF Coded \in recvFinished[w] THEN "exit" ELSE "finish"

(* send_to_filter and send_to_enc of the end; the former is under schedule_lock. *)
WorkerClose(w) ==
    /\ w # "enc"
    /\ At(w, "close")
    /\ tq_send_finish(Feeds[w], Coded)
    /\ dstFinished' = dstFinished \union {w}
    /\ Goto(w, AfterClose(w))
    /\ IF w = "dec" THEN Update(w, lastDts, sourceFinished, exited) ELSE UNCHANGED schedule
    /\ UNCHANGED <<length, hand, premuxing, muxing, stopping>>

(* The end of the thread; the filter graph's task_exited updates the schedule. *)
WorkerExit(w) ==
    /\ At(w, "exit")
    /\ Goto(w, "done")
    /\ IF w = "filter" THEN Update(w, lastDts, sourceFinished, exited) ELSE UNCHANGED schedule
    /\ UNCHANGED <<length, hand, queues, dstFinished, premuxing, muxing, stopping>>

Worker(w) ==
    \/ WorkerReceive(w) \/ WorkerSend(w) \/ WorkerFinish(w) \/ WorkerClose(w)
    \/ WorkerExit(w) \/ ApplyChange(w)
    \/ w = "enc" /\ (MuxSend(w, Coded) \/ MuxSendEnd(w, Coded)
                       \/ MuxSent(w, Coded, "receive", AfterClose(w)))

(* A mistake: the muxer counts as started when its thread is. *)
OpenEncoderEarly ==
    /\ At("filter", "open") /\ readyLock = None
    /\ readyLock' = "filter" /\ muxStarted' = TRUE
    /\ pc' = [pc EXCEPT !["filter"] = "flush", !["mux"] = "receive"]
    /\ UNCHANGED <<length, hand, queues, dstFinished, premux, initEof, schedule, muxing, stopping>>

(* enc_open: the first frame makes the last stream of the muxer ready, and the
   thread that brings it starts the muxer (sch_mux_stream_ready, mux_init). *)
OpenEncoder ==
    /\ At("filter", "open") /\ readyLock = None
    /\ readyLock' = "filter"
    /\ pc' = [pc EXCEPT !["filter"] = "flush", !["mux"] = "receive"]
    /\ UNCHANGED <<length, hand, queues, dstFinished, premux, muxStarted, initEof,
                   schedule, muxing, stopping>>

Waiting == {s \in Streams : premux[s] # <<>>}
EndsFirst == {s \in Waiting : Head(premux[s]) = 0}

(* The stream with the earliest packet, or the end of one. *)
Earliest ==
    IF EndsFirst # {} THEN Min(EndsFirst)
    ELSE CHOOSE s \in Waiting :
            \A r \in Waiting \ {s} :
                LET ds == Dts(s, Head(premux[s]))  dr == Dts(r, Head(premux[r])) IN
                ds < dr \/ (ds = dr /\ s < r)

(* mux_task_start: the pre-muxing queues are emptied into the muxer's queue. *)
FlushPremux ==
    /\ At("filter", "flush")
    /\ Waiting # {}
    /\ LET s == Earliest
           n == Head(premux[s])
       IN  /\ premux' = [premux EXCEPT ![s] = Tail(@)]
           /\ \/ n = 0 /\ tq_send_finish("mux", s) /\ UNCHANGED initEof
              \/ n # 0 /\ s \in initEof /\ UNCHANGED <<queues, initEof>>
              \/ /\ n # 0 /\ s \notin initEof
                 /\ s \in recvFinished["mux"]
                 /\ Refuse("mux", s)
                 /\ initEof' = initEof \union {s}
              \/ /\ n # 0 /\ s \notin initEof
                 /\ s \notin recvFinished["mux"] /\ HasRoom("mux")
                 /\ Put("mux", s, n)
                 /\ UNCHANGED initEof
    /\ UNCHANGED <<length, pc, hand, dstFinished, muxStarted, readyLock, schedule, muxing, stopping>>

MuxStarted ==
    /\ At("filter", "flush")
    /\ Waiting = {}
    /\ muxStarted' = TRUE /\ readyLock' = None
    /\ Goto("filter", "send")
    /\ UNCHANGED <<length, hand, queues, dstFinished, premux, initEof, schedule, muxing, stopping>>

-----------------------------------------------------------------------------
(* The muxer: muxer_thread, sync_queue_process and mux_done. *)

(* sq_receive until there is nothing more: the packets of s but the first n are left. *)
Left(q, s, n) == SubSeq(q.fifo[s], n + 1, Len(q.fifo[s]))

Due(q, s) ==
    Min({n \in 0 .. Len(q.fifo[s]) : ~Releasable([q EXCEPT !.fifo[s] = Left(q, s, n)], s)})

Write(q) ==
    /\ sq' = [q EXCEPT !.fifo = [s \in Streams |-> Left(q, s, Due(q, s))]]
    /\ written' = [s \in Streams |-> written[s] + Due(q, s)]
    /\ Goto("mux", IF Eof(q) THEN "finish" ELSE "receive")

(* With two streams the sync queue ends as a whole when it cuts one of them, so the
   muxer never has to refuse a packet of a stream that is cut. *)
MuxPacket ==
    /\ At("mux", "receive")
    /\ fifo["mux"] # <<>>
    /\ LET item == Head(fifo["mux"]) IN
        /\ item.stream \notin sq.finished
        /\ Write(sq_send(sq, item.stream, End(item.stream, item.n)))
    /\ fifo' = [fifo EXCEPT !["mux"] = Tail(@)]
    /\ UNCHANGED <<length, hand, sendFinished, recvFinished, queueChoked, dstFinished,
                   premuxing, schedule, stopping>>

Ending == sendFinished["mux"] \ recvFinished["mux"]

(* No packet is left: the end of a stream. *)
MuxEnd ==
    /\ At("mux", "receive")
    /\ fifo["mux"] = <<>> /\ Ending # {}
    /\ tq_receive_finish("mux", {Min(Ending)})
    /\ Write(finish_stream(sq, Min(Ending)))
    /\ UNCHANGED <<length, hand, dstFinished, premuxing, schedule, stopping>>

(* mux_done, and the end of the thread. *)
MuxDone ==
    \/ /\ At("mux", "finish")
       /\ tq_receive_finish("mux", Streams)
       /\ Update("mux", lastDts, Streams, exited)
       /\ Goto("mux", "report")
       /\ UNCHANGED <<length, hand, dstFinished, premuxing, muxing, stopping>>
    \/ /\ At("mux", "report")
       /\ muxDone' = TRUE
       /\ Goto("mux", "done")
       /\ UNCHANGED <<length, hand, queues, dstFinished, premuxing, schedule, muxing,
                      terminate, failing>>

Muxer == MuxPacket \/ MuxEnd \/ MuxDone \/ ApplyChange("mux")

-----------------------------------------------------------------------------
(* A task returns an error, for a packet it has got: at most one task of the run.
   A demuxer has no queue to leave. *)
Fail(t) ==
    /\ failing = None
    /\ IF t = "mux" THEN At(t, "receive") /\ fifo[t] # <<>> ELSE At(t, "send")
    /\ failing' = t
    /\ Goto(t, IF t \in Queues THEN "finish" ELSE "close")
    /\ UNCHANGED <<length, hand, queues, dstFinished, premuxing, schedule, muxing,
                   terminate, muxDone>>

TaskFailed == failing # None /\ pc[failing] = "done"

(* The main thread: sch_start, sch_wait and sch_stop. *)
MainStart ==
    /\ At("main", "start")
    /\ Update("main", lastDts, sourceFinished, exited)
    /\ Goto("main", "wait")
    /\ UNCHANGED <<length, hand, queues, dstFinished, premuxing, muxing, stopping>>

MainTerminate ==
    /\ At("main", "wait")
    /\ muxDone \/ TaskFailed
    /\ terminate' = TRUE
    /\ Goto("main", "choke video")
    /\ UNCHANGED <<length, hand, queues, dstFinished, premuxing, schedule, muxing,
                   muxDone, failing>>

(* sch_stop chokes the demuxers, without schedule_lock. *)
MainChoke ==
    /\ \/ /\ At("main", "choke video") /\ Goto("main", "choke audio")
          /\ choked' = [choked EXCEPT ![Copied] = TRUE]
       \/ /\ At("main", "choke audio") /\ Goto("main", "drain")
          /\ choked' = [choked EXCEPT ![Coded] = TRUE]
    /\ UNCHANGED <<length, hand, queues, dstFinished, premuxing, lastDts, sourceFinished,
                   exited, scheduleLock, plan, muxing, stopping>>

(* ... "unfreeze to allow draining" *)
MainDrain ==
    /\ At("main", "drain")
    /\ queueChoked' = [queueChoked EXCEPT !["dec"] = FALSE]
    /\ Goto("main", "join")
    /\ UNCHANGED <<length, hand, fifo, sendFinished, recvFinished, dstFinished, premuxing,
                   schedule, muxing, stopping>>

MainJoin ==
    /\ At("main", "join")
    /\ \A t \in Threads \ {"main"} : pc[t] = "done" \/ (t = "mux" /\ pc[t] = "not started")
    /\ Goto("main", "done")
    /\ UNCHANGED <<length, hand, queues, dstFinished, premuxing, schedule, muxing, stopping>>

Main == MainStart \/ MainTerminate \/ MainChoke \/ MainDrain \/ MainJoin \/ ApplyChange("main")

-----------------------------------------------------------------------------
Filter == Worker("filter") \/ OpenEncoder \/ FlushPremux \/ MuxStarted

Next ==
    \/ \E s \in Streams : Demuxer(s)
    \/ Worker("dec") \/ Filter \/ Worker("enc")
    \/ Muxer \/ Main
    \/ \E t \in Failing : Fail(t)

Spec == Init /\ [][Next]_vars

(* Some thread that can go on does so: more is not needed, as every step brings the
   process nearer to its end. *)
FairSpec == Spec /\ WF_vars(Next)

-----------------------------------------------------------------------------
TypeOK ==
    /\ length \in [Streams -> 1 .. MaxPackets]
    /\ hand \in [Threads -> 0 .. MaxPackets]
    /\ \A q \in Queues : Len(fifo[q]) <= QueueSize
    /\ sq \in SyncQueueType
    /\ written \in [Streams -> 0 .. MaxPackets]
    /\ failing \in Failing \union {None}

(* A packet that ends after the whole other input, or not before it. *)
Passes(s, n) == \A r \in Streams \ {s} : \A m \in 1 .. length[r] : End(r, m) < End(s, n)
Reaches(s, n) == \A r \in Streams \ {s} : \A m \in 1 .. length[r] : End(r, m) <= End(s, n)

(* Without a failure the file has the packets of either stream up to the first one that
   ends after the other input, and none from there on; it may stop before that only after
   a packet that ends with the other input.  None is lost or doubled in the pre-muxing
   queue, in a thread queue or at the end, whatever order the threads run in. *)
WholeFile ==
    pc["main"] = "done" /\ failing = None =>
        \A s \in Streams :
            /\ written[s] <= length[s]
            /\ \A n \in 1 .. written[s] : ~Passes(s, n)
            /\ \A n \in 1 .. length[s] :
                  (\A k \in 1 .. n : ~Passes(s, k)) /\ (\A k \in 1 .. n - 1 : ~Reaches(s, k))
                      => n <= written[s]

(* What an unfinished stream may be ahead of the other one: the tolerance and what
   is under way between its demuxer and the muxer. *)
UnderWay == [s \in Streams |-> IF s = Copied THEN 1 ELSE 4 + 3 * QueueSize]

(* No stream runs away from the other one: what waits for the slower stream, and
   with it the memory of the process, does not grow with the length of the inputs. *)
Balanced ==
    ~terminate => \A s, r \in Streams \ sourceFinished :
        lastDts[s] - lastDts[r] <= Tolerance - 1 + UnderWay[s] * Duration[s]

(* Nobody will let the decoder go on: sch_stop has done so already, and a schedule
   that was computed before was applied after that. *)
HeldBack ==
    /\ pc["main"] = "join" /\ scheduleLock = None
    /\ queueChoked["dec"] /\ Coded \in exited

(* The process ends: no choked demuxer, full queue, pre-muxing queue or stream that
   has ended early leaves the threads waiting for each other, also after a task has
   failed; unless the decoder is held back when sch_stop joins it. *)
Ends == <>(pc["main"] = "done" \/ HeldBack)

(* sch_stop lets the decoder drain its queue: ffmpeg_sched.c, "unfreeze to allow
   draining", and "on termination request all waiters are choked, we are not to
   unchoke them".  It does not wait for a schedule that is being applied. *)
StopDrains == HeldBack => pc["dec"] = "done"
=============================================================================
