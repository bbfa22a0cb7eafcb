---------------------------- MODULE Transcode_proof ----------------------------
(* Proofs about Transcode, for queues of any size, inputs of any length and packets
   of any duration.

   Balanced: no stream runs away from the other one, although the demuxers are held
   back from far away and not at once.  Core joins the schedule to the packets on
   their way, as long as both streams go on.

   TypeOK and WholeFile: nothing is lost on the way.  Every thread has given on the
   packets 1 .. c[t] of its stream and has taken at most one more; so the queue of a
   worker, the pre-muxing queue, the muxer's queue and its sync queue hold the numbers
   in between, without a gap (Way), until the muxer has finished.  Then the sync queue
   has cut either stream at the end of the shorter one (CutWhole). *)
EXTENDS Transcode, FiniteSetTheorems, SequenceTheorems, TLAPS

-----------------------------------------------------------------------------
(* The schedule *)

Other(s) == 3 - s

(* A stream that has to wait for the other one. *)
Blocked(dts, s) ==
    dts[s] # NoDts /\ (dts[Other(s)] = NoDts \/ Tolerance <= dts[s] - dts[Other(s)])

(* As long as neither stream is finished these are the streams held back. *)
LEMMA UnchokedIs ==
    ASSUME NEW dts \in [Streams -> Nat], NEW gone
    PROVE  Unchoked(dts, {}, gone) = {s \in Streams : ~Blocked(dts, s)}
<1> USE BoundsAssumption DEF Streams, Copied, Coded, NoDts, Other
<1> DEFINE a == dts[1]
           b == dts[2]
           t == TrailingDts(dts, {})
<1>1. a \in Nat /\ b \in Nat
    OBVIOUS
<1>2. \/ (a = 0 \/ b = 0) /\ t = 0
      \/ a # 0 /\ b # 0 /\ t \in {a, b} /\ t <= a /\ t <= b
    <2>1. CASE a = 0 \/ b = 0
        BY <2>1 DEF TrailingDts
    <2>2. CASE a # 0 /\ b # 0
        <3>1. t = Min({dts[s] : s \in {1, 2}})
            BY <2>2 DEF TrailingDts
        <3>2. {dts[s] : s \in {1, 2}} = {a, b}
            OBVIOUS
        <3>3. \E m \in {a, b} : \A y \in {a, b} : m <= y
            BY <1>1
        <3>4. t \in {a, b} /\ \A y \in {a, b} : t <= y
            BY <3>1, <3>2, <3>3 DEF Min
        <3> QED
            BY <2>2, <3>4
    <2> QED
        BY <2>1, <2>2
<1> HIDE DEF t
<1>3. MayProceed(dts, {}) = {s \in Streams : IF t = 0 THEN dts[s] = 0 ELSE dts[s] - t < Tolerance}
    BY DEF MayProceed, t
<1>4. MayProceed(dts, {}) = {s \in Streams : ~Blocked(dts, s)}
    <2> SUFFICES ASSUME NEW s \in Streams
                 PROVE  (IF t = 0 THEN dts[s] = 0 ELSE dts[s] - t < Tolerance) <=> ~Blocked(dts, s)
        BY <1>3
    <2>1. CASE s = 1
        BY <2>1, <1>1, <1>2 DEF Blocked
    <2>2. CASE s = 2
        BY <2>2, <1>1, <1>2 DEF Blocked
    <2> QED
        BY <2>1, <2>2
<1>5. MayProceed(dts, {}) # {}
    <2>1. ~Blocked(dts, 1) \/ ~Blocked(dts, 2)
        BY <1>1 DEF Blocked
    <2> QED
        BY <1>4, <2>1
<1> QED
    BY <1>4, <1>5 DEF Unchoked

(* What may be in a plan. *)
Change == {"waiter", "queue"} \X [stream : Streams, choked : BOOLEAN]

Waiter(c, s) == c[1] = "waiter" /\ c[2].stream = s

LEMMA ChangesAre ==
    ASSUME NEW U, choked \in [Streams -> BOOLEAN]
    PROVE  /\ Changes(U) \in Seq(Change)
           /\ \A i \in 1 .. Len(Changes(U)) :
                Changes(U)[i][2].choked = (Changes(U)[i][2].stream \notin U)
           /\ \A s \in Streams :
                \/ choked[s] = (s \notin U)
                \/ \E i \in 1 .. Len(Changes(U)) : Waiter(Changes(U)[i], s)
           /\ (\A s \in Streams : choked[s] = (s \notin U)) => Changes(U) = <<>>
<1> DEFINE to(s) == [stream |-> s, choked |-> s \notin U]
           a == <<"waiter", to(1)>>
           b == <<"waiter", to(2)>>
           c == <<"queue", to(2)>>
           c1 == choked[1] # (1 \notin U)
           c2 == choked[2] # (2 \notin U)
<1> USE DEF Streams, Copied, Coded
<1>1. a \in Change /\ b \in Change /\ c \in Change
    BY DEF Change
<1>2. /\ a[2].choked = (a[2].stream \notin U) /\ Waiter(a, 1)
      /\ b[2].choked = (b[2].stream \notin U) /\ Waiter(b, 2)
      /\ c[2].choked = (c[2].stream \notin U)
    BY DEF Waiter
<1>3. Changes(U) = (IF c1 THEN <<a>> ELSE <<>>) \o (IF c2 THEN <<b, c>> ELSE <<>>)
    BY DEF Changes
<1> HIDE DEF a, b, c, to
<1>4. CASE c1 /\ c2
    <2>1. Changes(U) = <<a>> \o <<b, c>>
        BY <1>3, <1>4
    <2>2. <<a>> \in Seq(Change) /\ <<b, c>> \in Seq(Change)
        BY <1>1
    <2>3. /\ Changes(U) \in Seq(Change) /\ Len(Changes(U)) = 3
          /\ Changes(U)[1] = a /\ Changes(U)[2] = b /\ Changes(U)[3] = c
        BY <2>1, <2>2
    <2> QED
        BY <1>2, <1>4, <2>3
<1>5. CASE c1 /\ ~c2
    <2>1. Changes(U) = <<a>>
        BY <1>1, <1>3, <1>5
    <2> QED
        BY <1>1, <1>2, <1>5, <2>1
<1>6. CASE ~c1 /\ c2
    <2>1. Changes(U) = <<b, c>>
        BY <1>1, <1>3, <1>6
    <2> QED
        BY <1>1, <1>2, <1>6, <2>1
<1>7. CASE ~c1 /\ ~c2
    <2>1. Changes(U) = <<>>
        BY <1>3, <1>7
    <2> QED
        BY <1>7, <2>1
<1> QED
    BY <1>4, <1>5, <1>6, <1>7

-----------------------------------------------------------------------------
(* Types *)

Item == [stream : Streams, n : Nat]

Typed ==
    /\ DOMAIN pc = Threads
    /\ hand \in [Threads -> Nat]
    /\ DOMAIN fifo = Queues
    /\ \A w \in Workers : fifo[w] \in Seq(Item) /\ Len(fifo[w]) <= QueueSize
    /\ lastDts \in [Streams -> Nat]
    /\ sourceFinished \subseteq Streams

LEMMA DtsEndIsNat == ASSUME NEW s \in Streams, NEW n \in Nat PROVE DtsEnd(s, n) \in Nat
    BY BoundsAssumption DEF DtsEnd, Streams

LEMMA Names ==
    /\ Workers = {"dec", "filter", "enc"} /\ Workers \subseteq Queues /\ "mux" \notin Workers
    /\ Demux[1] = "video demuxer" /\ Demux[2] = "audio demuxer"
    /\ Threads = {"video demuxer", "audio demuxer", "dec", "filter", "enc", "mux", "main"}
    /\ Feeds["dec"] = "filter" /\ Feeds["filter"] = "enc"
    /\ Streams = {1, 2} /\ Copied = 1 /\ Coded = 2
    /\ None = "none" /\ NoDts = 0
<1>1. Workers = {"dec", "filter", "enc"} /\ Queues = {"dec", "filter", "enc", "mux"}
    BY DEF Workers, Queues
<1>2. Streams = {1, 2} /\ Copied = 1 /\ Coded = 2 /\ None = "none" /\ NoDts = 0
    BY DEF Streams, Copied, Coded, None, NoDts
<1>3. Demux[1] = "video demuxer" /\ Demux[2] = "audio demuxer"
    BY DEF Demux
<1>4. Threads = {"video demuxer", "audio demuxer", "dec", "filter", "enc", "mux", "main"}
    <2>1. {Demux[s] : s \in Streams} = {"video demuxer", "audio demuxer"}
        BY <1>2, <1>3, Zenon
    <2> QED
        BY <1>1, <2>1 DEF Threads
<1>5. Feeds["dec"] = "filter" /\ Feeds["filter"] = "enc"
    BY DEF Feeds
<1>6. "mux" \notin Workers /\ Workers \subseteq Queues
    BY <1>1
<1> QED
    BY <1>1, <1>2, <1>3, <1>4, <1>5, <1>6

LEMMA HeadTail ==
    ASSUME NEW S, NEW q \in Seq(S), q # <<>>
    PROVE  /\ Len(q) \in Nat \ {0} /\ Len(Tail(q)) = Len(q) - 1
           /\ Head(q) \in S /\ Head(q) = q[1] /\ Tail(q) \in Seq(S)
           /\ \A i \in 1 .. Len(Tail(q)) : Tail(q)[i] = q[i + 1]
OBVIOUS

(* What is put in a queue of the workers leaves the types. *)
LEMMA PutTyped ==
    ASSUME Typed, NEW q \in Queues, NEW s \in Streams, NEW n, q \in Workers => n \in Nat,
           HasRoom(q), Put(q, s, n)
    PROVE  /\ DOMAIN fifo' = Queues
           /\ \A w \in Workers : fifo'[w] \in Seq(Item) /\ Len(fifo'[w]) <= QueueSize
<1>1. fifo' = [fifo EXCEPT ![q] = Append(@, [stream |-> s, n |-> n])]
    BY DEF Put
<1>2. DOMAIN fifo' = Queues /\ \A w \in Queues \ {q} : fifo'[w] = fifo[w]
    BY <1>1 DEF Typed
<1>3. ASSUME q \in Workers
      PROVE  fifo'[q] \in Seq(Item) /\ Len(fifo'[q]) <= QueueSize
    <2>1. fifo[q] \in Seq(Item) /\ [stream |-> s, n |-> n] \in Item /\ Len(fifo[q]) < QueueSize
        BY <1>3 DEF Typed, Item, HasRoom
    <2>2. fifo'[q] = Append(fifo[q], [stream |-> s, n |-> n])
        BY <1>1 DEF Typed
    <2> QED
        BY <2>1, <2>2, BoundsAssumption
<1> QED
    BY <1>2, <1>3, Names DEF Typed

LEMMA SendTyped ==
    ASSUME Typed, NEW t \in Threads, NEW q \in Queues, NEW s \in Streams, NEW a, NEW b,
           SendTo(t, q, s, hand[t], a, b)
    PROVE  /\ DOMAIN fifo' = Queues /\ DOMAIN pc' = Threads
           /\ \A w \in Workers : fifo'[w] \in Seq(Item) /\ Len(fifo'[w]) <= QueueSize
BY PutTyped DEF SendTo, Refuse, Goto, Typed

LEMMA UpdateTyped ==
    ASSUME Typed, NEW t, NEW dts \in [Streams -> Nat], NEW fin \in SUBSET Streams, NEW gone,
           Update(t, dts, fin, gone)
    PROVE  lastDts' \in [Streams -> Nat] /\ sourceFinished' \subseteq Streams
BY DEF Update

LEMMA InitTyped == Init => Typed
<1> SUFFICES ASSUME Init PROVE Typed
    OBVIOUS
<1>1. DOMAIN pc = Threads /\ hand \in [Threads -> Nat] /\ lastDts \in [Streams -> Nat]
    BY DEF Init, NoDts
<1>2. DOMAIN fifo = Queues /\ \A w \in Workers : fifo[w] = <<>>
    BY Names DEF Init
<1>3. sourceFinished = {}
    BY DEF Init
<1>4. <<>> \in Seq(Item) /\ Len(<<>>) <= QueueSize
    BY BoundsAssumption
<1>5. \A w \in Workers : fifo[w] \in Seq(Item) /\ Len(fifo[w]) <= QueueSize
    BY <1>2, <1>4
<1> QED
    BY <1>1, <1>2, <1>3, <1>5 DEF Typed

(* A step of thread t that leaves the queues of the workers as they are. *)
Moved(t, labels) ==
    /\ DOMAIN pc' = Threads /\ pc'[t] \in labels
    /\ \A u \in Threads \ {t} : pc'[u] = pc[u]

SameQueues == DOMAIN fifo' = Queues /\ \A w \in Workers : fifo'[w] = fifo[w]

LEMMA GotoMoved ==
    ASSUME Typed, NEW t \in Threads, NEW l, Goto(t, l)
    PROVE  Moved(t, {l})
BY DEF Typed, Goto, Moved

LEMMA MuxSendDoes ==
    ASSUME Typed, NEW t \in Threads, NEW s \in Streams, MuxSend(t, s)
    PROVE  /\ At(t, "send") /\ Moved(t, {"sent", "close"}) /\ SameQueues
           /\ UNCHANGED <<hand, dstFinished, schedule, terminate>>
<1>1. At(t, "send") /\ UNCHANGED <<hand, dstFinished, schedule, terminate>>
    BY DEF MuxSend, Premux, stopping
<1>2. CASE Premux(t, s, hand[t], "sent")
    BY <1>1, <1>2, GotoMoved DEF Premux, queues, Moved, SameQueues, Typed
<1>3. CASE s \in initEof /\ Goto(t, "close") /\ UNCHANGED queues
    BY <1>1, <1>3, GotoMoved DEF queues, Moved, SameQueues, Typed
<1>4. CASE SendTo(t, "mux", s, hand[t], "sent", "close")
    <2>1. Goto(t, "sent") \/ Goto(t, "close")
        BY <1>4 DEF SendTo
    <2>2. fifo' = fifo \/ fifo' = [fifo EXCEPT !["mux"] = Append(@, [stream |-> s, n |-> hand[t]])]
        BY <1>4 DEF SendTo, Refuse, Put
    <2>3. SameQueues
        BY <2>2, Names DEF SameQueues, Typed
    <2> QED
        BY <1>1, <2>1, <2>3, GotoMoved DEF Moved
<1> QED
    BY <1>2, <1>3, <1>4 DEF MuxSend

LEMMA MuxSendEndDoes ==
    ASSUME Typed, NEW t \in Threads, NEW s \in Streams, MuxSendEnd(t, s)
    PROVE  /\ At(t, "close") /\ Moved(t, {"closed"}) /\ SameQueues
           /\ UNCHANGED <<hand, dstFinished, schedule, terminate>>
<1>1. At(t, "close") /\ UNCHANGED <<hand, fifo, dstFinished, schedule, terminate>>
    BY DEF MuxSendEnd, Premux, stopping, tq_send_finish, queues
<1>2. Goto(t, "closed")
    BY DEF MuxSendEnd, Premux
<1> QED
    BY <1>1, <1>2, GotoMoved DEF SameQueues, Typed

LEMMA TypedNext == Typed /\ [Next]_vars => Typed'
<1> SUFFICES ASSUME Typed, [Next]_vars PROVE Typed'
    OBVIOUS
<1>1. ASSUME NEW s \in Streams, Demuxer(s) PROVE Typed'
    <2>0. Demux[s] \in Threads /\ "dec" \in Queues /\ Coded \in Streams /\ Demux[Coded] \in Threads
        BY Names
    <2>1. CASE DemuxRead(s)
        BY <2>0, <2>1 DEF DemuxRead, Goto, Typed, queues, schedule
    <2>9. CASE DemuxWait(s)
        BY <2>9 DEF DemuxWait, Goto, Typed, queues, schedule
    <2>2. CASE DemuxExit(s)
        BY <2>2, UpdateTyped DEF DemuxExit, Goto, Typed, queues
    <2>3. CASE ApplyChange(Demux[s])
        BY <2>3 DEF ApplyChange, Typed
    <2>4. CASE DecoderSend
        BY <2>0, <2>4, SendTyped DEF DecoderSend, tq_send_finish, Goto, Typed, schedule
    <2>5. CASE s = Copied /\ MuxSend(Demux[s], s)
        BY <2>0, <2>5, MuxSendDoes DEF Typed, Moved, SameQueues, schedule
    <2>6. CASE s = Copied /\ MuxSendEnd(Demux[s], s)
        BY <2>0, <2>6, MuxSendEndDoes DEF Typed, Moved, SameQueues, schedule
    <2>7. CASE s = Copied /\ MuxSent(Demux[s], s, "read", "exit")
        <3>1. [lastDts EXCEPT ![s] = DtsEnd(s, hand[Demux[s]])] \in [Streams -> Nat]
            BY <2>0, DtsEndIsNat DEF Typed
        <3> QED
            BY <2>0, <2>7, <3>1, UpdateTyped DEF MuxSent, Goto, Typed, queues
    <2> QED
        BY <1>1, <2>1, <2>2, <2>3, <2>4, <2>5, <2>6, <2>7, <2>9 DEF Demuxer
<1>2. ASSUME NEW w \in Workers, Worker(w) PROVE Typed'
    <2>0. /\ w \in Threads /\ w \in Queues /\ Coded \in Streams
          /\ w # "enc" => Feeds[w] \in Queues
        BY Names
    <2>1. CASE WorkerReceive(w)
        <3>1. CASE fifo[w] # <<>>
            <4>1. fifo[w] \in Seq(Item) /\ Len(fifo[w]) <= QueueSize
                BY DEF Typed
            <4>2. Head(fifo[w]) \in Item /\ Tail(fifo[w]) \in Seq(Item) /\ Len(Tail(fifo[w])) <= QueueSize
                BY <3>1, <4>1, HeadTail, BoundsAssumption
            <4>3. hand' = [hand EXCEPT ![w] = Head(fifo[w]).n] /\ fifo' = [fifo EXCEPT ![w] = Tail(@)]
                BY <2>1, <3>1 DEF WorkerReceive
            <4>4. hand' \in [Threads -> Nat]
                BY <4>2, <4>3 DEF Typed, Item
            <4>5. DOMAIN fifo' = Queues
                  /\ \A v \in Workers : fifo'[v] \in Seq(Item) /\ Len(fifo'[v]) <= QueueSize
                BY <4>2, <4>3 DEF Typed
            <4> QED
                BY <2>1, <3>1, <4>4, <4>5 DEF WorkerReceive, Goto, Typed, schedule
        <3>2. CASE fifo[w] = <<>>
            BY <2>1, <3>2 DEF WorkerReceive, Goto, Typed, schedule
        <3> QED
            BY <3>1, <3>2
    <2>2. CASE WorkerSend(w)
        BY <2>0, <2>2, SendTyped DEF WorkerSend, Typed, schedule
    <2>3. CASE WorkerFinish(w)
        BY <2>3 DEF WorkerFinish, tq_receive_finish, Goto, Typed, schedule
    <2>4. CASE WorkerClose(w)
        BY <2>4, UpdateTyped DEF WorkerClose, tq_send_finish, Goto, Typed, schedule
    <2>5. CASE WorkerExit(w)
        BY <2>5, UpdateTyped DEF WorkerExit, Goto, Typed, schedule, queues
    <2>6. CASE ApplyChange(w)
        BY <2>6 DEF ApplyChange, Typed
    <2>7. CASE w = "enc" /\ MuxSend(w, Coded)
        BY <2>0, <2>7, MuxSendDoes DEF Typed, Moved, SameQueues, schedule
    <2>8. CASE w = "enc" /\ MuxSendEnd(w, Coded)
        BY <2>0, <2>8, MuxSendEndDoes DEF Typed, Moved, SameQueues, schedule
    <2>9. CASE w = "enc" /\ MuxSent(w, Coded, "receive", AfterClose(w))
        <3>1. [lastDts EXCEPT ![Coded] = DtsEnd(Coded, hand[w])] \in [Streams -> Nat]
            BY <2>0, DtsEndIsNat DEF Typed
        <3> QED
            BY <2>0, <2>9, <3>1, UpdateTyped DEF MuxSent, Goto, Typed, queues
    <2> QED
        BY <1>2, <2>1, <2>2, <2>3, <2>4, <2>5, <2>6, <2>7, <2>8, <2>9 DEF Worker
<1>3. CASE OpenEncoder \/ MuxStarted
    BY <1>3 DEF OpenEncoder, MuxStarted, Goto, Typed, queues, schedule
<1>4. CASE FlushPremux
    <2>1. /\ DOMAIN fifo' = Queues
          /\ \A w \in Workers : fifo'[w] = fifo[w]
        <3>1. \/ fifo' = fifo
              \/ \E x : fifo' = [fifo EXCEPT !["mux"] = Append(@, x)]
            BY <1>4 DEF FlushPremux, tq_send_finish, Refuse, Put, queues
        <3> QED
            BY <3>1, Names DEF Typed
    <2> QED
        BY <1>4, <2>1 DEF FlushPremux, Typed, schedule
<1>5. CASE Muxer
    <2>1. CASE MuxPacket
        BY <2>1, Names DEF MuxPacket, Write, Goto, Typed, schedule
    <2>4. CASE MuxEnd
        BY <2>4 DEF MuxEnd, Write, Goto, tq_receive_finish, Typed, schedule
    <2>2. CASE MuxDone
        BY <2>2, UpdateTyped DEF MuxDone, Goto, tq_receive_finish, Typed, schedule, queues
    <2>3. CASE ApplyChange("mux")
        BY <2>3 DEF ApplyChange, Typed
    <2> QED
        BY <1>5, <2>1, <2>2, <2>3, <2>4 DEF Muxer
<1>6. CASE Main
    <2>1. CASE MainStart
        BY <2>1, UpdateTyped DEF MainStart, Goto, Typed, queues
    <2>2. CASE MainTerminate \/ MainChoke \/ MainDrain \/ MainJoin
        BY <2>2 DEF MainTerminate, MainChoke, MainDrain, MainJoin, Goto, Typed, queues, schedule
    <2>3. CASE ApplyChange("main")
        BY <2>3 DEF ApplyChange, Typed
    <2> QED
        BY <1>6, <2>1, <2>2, <2>3 DEF Main
<1>7. ASSUME NEW t \in Failing, Fail(t) PROVE Typed'
    BY <1>7 DEF Fail, Goto, Typed, queues, schedule
<1>8. CASE UNCHANGED vars
    BY <1>8 DEF vars, Typed, queues, schedule
<1> QED
    BY <1>1, <1>2, <1>3, <1>4, <1>5, <1>6, <1>7, <1>8, Names DEF Next, Filter

-----------------------------------------------------------------------------
(* The schedule and what is held back *)

(* No stream has ended and nothing stops the process. *)
Open == sourceFinished = {} /\ ~terminate

(* Until then the main thread waits and the encoder is wanted. *)
Early == Open => pc["main"] \in {"start", "wait"} /\ "enc" \notin dstFinished

(* The plan under way is that of the time stamps there are: a demuxer is held back
   if its stream is blocked, or will be. *)
Sync ==
    /\ choked \in [Streams -> BOOLEAN]
    /\ plan \in Seq(Change)
    /\ plan = <<>> <=> scheduleLock = None
    /\ \A i \in 1 .. Len(plan) : plan[i][2].choked = Blocked(lastDts, plan[i][2].stream)
    /\ \A s \in Streams : \/ choked[s] = Blocked(lastDts, s)
                          \/ \E i \in 1 .. Len(plan) : Waiter(plan[i], s)

(* A schedule made anew: what changes is applied by the thread that made it. *)
LEMMA UpdateSync ==
    ASSUME Typed, Open, Sync, NEW t \in Threads, NEW dts \in [Streams -> Nat], NEW gone,
           Update(t, dts, sourceFinished, gone)
    PROVE  /\ Sync' /\ lastDts' = dts /\ choked' = choked
           /\ \A s \in Streams : choked[s] = Blocked(lastDts, s)
           /\ \A s \in Streams : choked[s] # Blocked(dts, s) => scheduleLock' = t
           /\ dts = lastDts => UNCHANGED <<plan, scheduleLock>>
<1> DEFINE U == {s \in Streams : ~Blocked(dts, s)}
<1>1. /\ scheduleLock = None /\ lastDts' = dts /\ choked' = choked
      /\ plan' = Changes(U)
      /\ scheduleLock' = IF plan' = <<>> THEN None ELSE t
    BY UnchokedIs DEF Update, Open
<1>2. plan = <<>> /\ \A s \in Streams : choked[s] = Blocked(lastDts, s)
    BY <1>1 DEF Sync
<1>3. choked \in [Streams -> BOOLEAN] /\ t # None
    BY Names DEF Sync
<1>4. \A s \in Streams : Blocked(dts, s) \in BOOLEAN /\ (s \notin U) = Blocked(dts, s)
    BY DEF Blocked
<1>5. /\ plan' \in Seq(Change)
      /\ \A i \in 1 .. Len(plan') : plan'[i][2].choked = (plan'[i][2].stream \notin U)
      /\ \A s \in Streams : \/ choked[s] = (s \notin U)
                            \/ \E i \in 1 .. Len(plan') : Waiter(plan'[i], s)
      /\ (\A s \in Streams : choked[s] = (s \notin U)) => plan' = <<>>
    BY <1>1, <1>3, ChangesAre
<1> HIDE DEF U
<1>6. \A i \in 1 .. Len(plan') : plan'[i][2].stream \in Streams
    BY <1>5 DEF Change
<1>7. \A i \in 1 .. Len(plan') : plan'[i][2].choked = Blocked(dts, plan'[i][2].stream)
    BY <1>4, <1>5, <1>6
<1>8. \A s \in Streams : \/ choked[s] = Blocked(dts, s)
                         \/ \E i \in 1 .. Len(plan') : Waiter(plan'[i], s)
    BY <1>4, <1>5
<1>9. Sync'
    BY <1>1, <1>3, <1>5, <1>7, <1>8 DEF Sync
<1>10. ASSUME NEW s \in Streams, choked[s] # Blocked(dts, s) PROVE scheduleLock' = t
    <2>1. \E i \in 1 .. Len(plan') : TRUE
        BY <1>8, <1>10
    <2>2. plan' # <<>>
        BY <2>1
    <2> QED
        BY <1>1, <2>2
<1>11. ASSUME dts = lastDts PROVE UNCHANGED <<plan, scheduleLock>>
    BY <1>1, <1>2, <1>4, <1>5, <1>11
<1> QED
    BY <1>1, <1>2, <1>9, <1>10, <1>11

(* A schedule being applied. *)
LEMMA ApplySync ==
    ASSUME Sync, NEW t \in Threads, ApplyChange(t)
    PROVE  /\ Sync' /\ lastDts' = lastDts /\ scheduleLock = t
           /\ \A s \in Streams : choked'[s] # choked[s] => choked'[s] = Blocked(lastDts, s)
           /\ \A s \in Streams : choked'[s] # Blocked(lastDts, s) => scheduleLock' = t
<1> DEFINE c == plan[1]
           to == c[2]
<1>1. t # None /\ scheduleLock = t /\ lastDts' = lastDts
    BY Names DEF ApplyChange
<1>2. plan # <<>> /\ plan \in Seq(Change)
    BY <1>1 DEF Sync
<1>3. /\ Len(plan) \in Nat \ {0} /\ Len(Tail(plan)) = Len(plan) - 1
      /\ Head(plan) = c /\ c \in Change /\ Tail(plan) \in Seq(Change)
      /\ \A i \in 1 .. Len(Tail(plan)) : Tail(plan)[i] = plan[i + 1]
    BY <1>2, HeadTail
<1>4. to.stream \in Streams /\ to.choked \in BOOLEAN /\ to.choked = Blocked(lastDts, to.stream)
    BY <1>3 DEF Change, Sync
<1>5. choked' = IF c[1] = "waiter" THEN [choked EXCEPT ![to.stream] = to.choked] ELSE choked
    BY <1>3 DEF ApplyChange
<1>6. plan' = Tail(plan) /\ scheduleLock' = IF Len(plan) = 1 THEN None ELSE t
    BY DEF ApplyChange
<1> HIDE DEF to
<1>7. /\ choked \in [Streams -> BOOLEAN] /\ choked' \in [Streams -> BOOLEAN]
      /\ \A s \in Streams : choked'[s] = choked[s] \/ choked'[s] = Blocked(lastDts, s)
      /\ \A s \in Streams : c[1] = "waiter" /\ to.stream = s => choked'[s] = Blocked(lastDts, s)
    BY <1>4, <1>5 DEF Sync
<1>8. ASSUME NEW s \in Streams
      PROVE  \/ choked'[s] = Blocked(lastDts, s)
             \/ \E i \in 1 .. Len(plan') : Waiter(plan'[i], s)
    <2>1. CASE choked[s] = Blocked(lastDts, s)
        BY <1>7, <2>1
    <2>2. ASSUME NEW i \in 1 .. Len(plan), Waiter(plan[i], s)
          PROVE  \/ choked'[s] = Blocked(lastDts, s)
                 \/ \E j \in 1 .. Len(plan') : Waiter(plan'[j], s)
        <3>1. CASE i = 1
            BY <1>7, <2>2, <3>1 DEF Waiter, to
        <3>2. CASE i # 1
            <4>1. i - 1 \in 1 .. Len(plan') /\ plan'[i - 1] = plan[i]
                BY <1>3, <1>6, <3>2
            <4> QED
                BY <2>2, <4>1
        <3> QED
            BY <3>1, <3>2
    <2> QED
        BY <2>1, <2>2 DEF Sync
<1>9. \A i \in 1 .. Len(plan') : plan'[i][2].choked = Blocked(lastDts, plan'[i][2].stream)
    BY <1>3, <1>6 DEF Sync
<1>10. plan' = <<>> <=> Len(plan) = 1
    BY <1>3, <1>6
<1>11. Sync'
    BY <1>1, <1>3, <1>6, <1>7, <1>8, <1>9, <1>10 DEF Sync
<1>12. ASSUME NEW s \in Streams, choked'[s] # Blocked(lastDts, s) PROVE scheduleLock' = t
    <2>1. \E i \in 1 .. Len(plan') : TRUE
        BY <1>8, <1>12
    <2> QED
        BY <1>6, <1>10, <2>1
<1> QED
    BY <1>1, <1>7, <1>11, <1>12

-----------------------------------------------------------------------------
(* The packets on their way *)

Idle == {"receive", "read", "wait"}
Busy == {"open", "flush", "send", "sent"}

(* A thread that has taken so many packets and given so many on: at most one is in
   its hand. *)
Stage(label, inHand, taken, given) ==
    /\ taken \in Nat
    /\ given <= taken /\ taken <= given + 1
    /\ label \in Idle => taken = given
    /\ label \in Busy => taken = given + 1 /\ inHand = taken

(* A queue of which so many packets have been taken. *)
Held(queue, taken) == \A i \in 1 .. Len(queue) : queue[i].n = taken + i

(* The packets a demuxer has been let through with. *)
Passed(s) == IF pc[Demux[s]] = "wait" THEN hand[Demux[s]] - 1 ELSE hand[Demux[s]]

(* The video's demuxer feeds the muxer. *)
VideoAt(p) ==
    /\ lastDts[1] = DtsEnd(1, p)
    /\ Stage(pc[Demux[1]], hand[Demux[1]], Passed(1), p)

(* The packets of the sound are numbered through from the muxer to the demuxer. *)
AudioAt(p, out) ==
    /\ lastDts[2] = DtsEnd(2, p)
    /\ Stage(pc["enc"], hand["enc"], out["enc"], p)
    /\ Stage(pc["filter"], hand["filter"], out["filter"], out["enc"] + Len(fifo["enc"]))
    /\ Stage(pc["dec"], hand["dec"], out["dec"], out["filter"] + Len(fifo["filter"]))
    /\ Stage(pc[Demux[2]], hand[Demux[2]], Passed(2), out["dec"] + Len(fifo["dec"]))
    /\ \A w \in Workers : Held(fifo[w], out[w])

Flow ==
    /\ \E p \in Nat : VideoAt(p)
    /\ \E p \in Nat, out \in [Workers -> Nat] : AudioAt(p, out)

-----------------------------------------------------------------------------
(* The streams in step *)

(* How far a stream is ahead when it is found to be blocked. *)
Slack(s) == Tolerance - 1 + Duration[s]

(* The packets of the sound that may be between its demuxer and the encoder. *)
Room == 3 + 3 * QueueSize

Gates ==
    \* A stream that is blocked and not held back yet is the stream of the thread
    \* that is about to do so, and which does nothing else.
    /\ Blocked(lastDts, 1) /\ ~choked[1] => scheduleLock = Demux[1]
    /\ Blocked(lastDts, 2) /\ ~choked[2] =>
           /\ scheduleLock = "enc" /\ pc["enc"] = "receive"
           /\ lastDts[2] - lastDts[1] <= Slack(2)
    \* The video goes no further, the sound as far as its demuxer has got.
    /\ Blocked(lastDts, 1) => pc[Demux[1]] \notin Busy
    /\ lastDts[1] - lastDts[2] <= Slack(1)
    /\ Blocked(lastDts, 2) /\ choked[2] =>
           DtsEnd(2, Passed(2)) - lastDts[1] <= Slack(2) + DtsEnd(2, Room)

Core == Sync /\ Flow /\ Gates

(* Durations add up. *)
LEMMA Times ==
    ASSUME NEW s \in Streams, NEW a \in Nat, NEW b \in Nat
    PROVE  /\ DtsEnd(s, a) \in Nat /\ DtsEnd(s, b) \in Nat
           /\ DtsEnd(s, a + b) = DtsEnd(s, a) + DtsEnd(s, b)
           /\ a <= b => DtsEnd(s, a) <= DtsEnd(s, b)
           /\ DtsEnd(s, a + 1) = DtsEnd(s, a) + Duration[s]
           /\ Duration[s] \in Nat \ {0} /\ Tolerance \in Nat \ {0} /\ QueueSize \in Nat \ {0}
<1>1. Duration[s] \in Nat \ {0} /\ Tolerance \in Nat \ {0} /\ QueueSize \in Nat \ {0}
    BY BoundsAssumption
<1>2. /\ a * Duration[s] \in Nat /\ b * Duration[s] \in Nat
      /\ (a + b) * Duration[s] = a * Duration[s] + b * Duration[s]
      /\ (a + 1) * Duration[s] = a * Duration[s] + Duration[s]
    BY <1>1
<1>3. ASSUME a <= b PROVE a * Duration[s] <= b * Duration[s]
    <2>1. PICK k \in Nat : b = a + k
        BY <1>3
    <2>2. b * Duration[s] = a * Duration[s] + k * Duration[s] /\ k * Duration[s] \in Nat
        BY <1>1, <2>1
    <2> QED
        BY <1>1, <1>2, <2>2
<1> QED
    BY <1>1, <1>2, <1>3 DEF DtsEnd

LEMMA Numbers ==
    /\ 1 \in Streams /\ 2 \in Streams
    /\ Duration[1] \in Nat \ {0} /\ Duration[2] \in Nat \ {0}
    /\ Tolerance \in Nat \ {0} /\ QueueSize \in Nat \ {0}
    /\ Slack(1) \in Nat /\ Slack(1) = Tolerance - 1 + Duration[1]
    /\ Slack(2) \in Nat /\ Slack(2) = Tolerance - 1 + Duration[2]
    /\ Room \in Nat /\ Room = 3 + 3 * QueueSize
<1>1. 1 \in Streams /\ 2 \in Streams
    BY Names
<1>2. /\ Duration[1] \in Nat \ {0} /\ Duration[2] \in Nat \ {0}
      /\ Tolerance \in Nat \ {0} /\ QueueSize \in Nat \ {0}
    BY <1>1, Times
<1> QED
    BY <1>1, <1>2 DEF Slack, Room

LEMMA Lengths ==
    ASSUME Typed, NEW w \in Workers
    PROVE  Len(fifo[w]) \in Nat /\ Len(fifo[w]) <= QueueSize
BY DEF Typed

LEMMA AreWorkers == "enc" \in Workers /\ "filter" \in Workers /\ "dec" \in Workers
BY DEF Workers

LEMMA Sums ==
    ASSUME NEW p \in Nat, NEW a \in Nat, NEW b \in Nat, NEW c \in Nat, NEW g \in Nat,
           NEW l \in Nat, NEW m \in Nat, NEW n \in Nat, NEW size \in Nat,
           l <= size, m <= size, n <= size,
           p <= a, a <= p + 1, a + l <= b, b <= a + l + 1, b + m <= c, c <= b + m + 1,
           c + n <= g, g <= c + n + 1
    PROVE  p <= g /\ g <= p + 4 + 3 * size /\ (a = p => g <= p + 3 + 3 * size)
OBVIOUS

(* What is between the demuxer and the muxer. *)
LEMMA Between ==
    ASSUME Typed, Flow
    PROVE  \E p \in Nat :
              /\ lastDts[2] = DtsEnd(2, p) /\ Passed(2) \in Nat
              /\ p <= Passed(2) /\ Passed(2) <= p + 1 + Room
              /\ pc["enc"] = "receive" => Passed(2) <= p + Room
<1>1. PICK p \in Nat, out \in [Workers -> Nat] : AudioAt(p, out)
    BY DEF Flow
<1>2. /\ Len(fifo["enc"]) \in Nat /\ Len(fifo["filter"]) \in Nat /\ Len(fifo["dec"]) \in Nat
      /\ Len(fifo["enc"]) <= QueueSize /\ Len(fifo["filter"]) <= QueueSize
      /\ Len(fifo["dec"]) <= QueueSize
      /\ out["enc"] \in Nat /\ out["filter"] \in Nat /\ out["dec"] \in Nat
    <2>1. QueueSize \in Nat
        BY Numbers
    <2> QED
        BY <2>1, AreWorkers, Lengths
<1>3. /\ Passed(2) \in Nat /\ p <= Passed(2) /\ Passed(2) <= p + 1 + Room
      /\ pc["enc"] = "receive" => Passed(2) <= p + Room
    <2>1. QueueSize \in Nat /\ Room = 3 + 3 * QueueSize
        BY Numbers
    <2>2. /\ out["enc"] <= p + 1 /\ p <= out["enc"]
          /\ pc["enc"] = "receive" => out["enc"] = p
          /\ out["enc"] + Len(fifo["enc"]) <= out["filter"]
          /\ out["filter"] <= out["enc"] + Len(fifo["enc"]) + 1
          /\ out["filter"] + Len(fifo["filter"]) <= out["dec"]
          /\ out["dec"] <= out["filter"] + Len(fifo["filter"]) + 1
          /\ out["dec"] + Len(fifo["dec"]) <= Passed(2)
          /\ Passed(2) <= out["dec"] + Len(fifo["dec"]) + 1
          /\ Passed(2) \in Nat
        BY <1>1 DEF AudioAt, Stage, Idle
    <2> QED
        <3> DEFINE a == out["enc"]
                   b == out["filter"]
                   c == out["dec"]
                   g == Passed(2)
                   l == Len(fifo["enc"])
                   m == Len(fifo["filter"])
                   n == Len(fifo["dec"])
        <3>1. /\ a \in Nat /\ b \in Nat /\ c \in Nat /\ g \in Nat /\ l \in Nat /\ m \in Nat /\ n \in Nat
              /\ l <= QueueSize /\ m <= QueueSize /\ n <= QueueSize
              /\ p <= a /\ a <= p + 1 /\ a + l <= b /\ b <= a + l + 1 /\ b + m <= c
              /\ c <= b + m + 1 /\ c + n <= g /\ g <= c + n + 1
              /\ pc["enc"] = "receive" => a = p
            BY <1>2, <2>2
        <3> HIDE DEF a, b, c, g, l, m, n
        <3>2. p <= g /\ g <= p + 4 + 3 * QueueSize /\ (a = p => g <= p + 3 + 3 * QueueSize)
            BY <2>1, <3>1, Sums
        <3>3. p <= g /\ g <= p + 1 + Room /\ (pc["enc"] = "receive" => g <= p + Room)
            BY <2>1, <3>1, <3>2
        <3> QED
            BY <3>1, <3>3 DEF g
<1> QED
    BY <1>1, <1>3 DEF AudioAt

(* As long as nothing ends no stream is more than this ahead. *)
LEMMA CoreBalanced ==
    ASSUME Typed, Core
    PROVE  /\ lastDts[1] - lastDts[2] <= Slack(1)
           /\ lastDts[2] - lastDts[1] <= Slack(2) + DtsEnd(2, Room)
<1>1. PICK p \in Nat : lastDts[2] = DtsEnd(2, p) /\ Passed(2) \in Nat /\ p <= Passed(2)
    BY Between DEF Core
<1>2. lastDts[1] \in Nat /\ lastDts[2] \in Nat /\ Room \in Nat
    BY Numbers DEF Typed
<1>3. DtsEnd(2, p) <= DtsEnd(2, Passed(2)) /\ DtsEnd(2, Room) \in Nat /\ DtsEnd(2, Passed(2)) \in Nat
    BY <1>1, <1>2, Times, Names
<1>4. Slack(2) \in Nat /\ Tolerance - 1 <= Slack(2)
    BY Numbers
<1>5. CASE ~Blocked(lastDts, 2)
    <2>1. lastDts[2] = 0 \/ lastDts[2] - lastDts[1] < Tolerance
        <3>1. Other(2) = 1
            BY DEF Other
        <3> QED
            BY <1>2, <1>5, <3>1, Numbers DEF Blocked, NoDts
    <2>2. lastDts[2] - lastDts[1] <= Slack(2) + DtsEnd(2, Room)
        BY <1>2, <1>3, <1>4, <2>1, Numbers
    <2> QED
        BY <2>2 DEF Core, Gates
<1>6. CASE Blocked(lastDts, 2) /\ choked[2]
    BY <1>1, <1>2, <1>3, <1>4, <1>6 DEF Core, Gates
<1>7. CASE Blocked(lastDts, 2) /\ ~choked[2]
    BY <1>2, <1>3, <1>4, <1>7 DEF Core, Gates
<1> QED
    BY <1>5, <1>6, <1>7 DEF Core, Gates

-----------------------------------------------------------------------------
(* Steps that do not bring a packet on *)

Calm == UNCHANGED <<lastDts, choked, plan, scheduleLock>>

Movers == Workers \union {Demux[1], Demux[2]}

Moves(t) ==
    \/ pc'[t] \notin Idle \union Busy
    \/ pc[t] \in Idle /\ pc'[t] \in Idle
    \/ hand'[t] = hand[t] /\ (pc'[t] = pc[t] \/ (pc[t] \in Busy /\ pc'[t] \in Busy))

LEMMA AreMovers ==
    /\ "enc" \in Movers /\ "filter" \in Movers /\ "dec" \in Movers
    /\ Demux[1] \in Movers /\ Demux[2] \in Movers /\ Movers \subseteq Threads
BY Names DEF Movers

(* A stage is between the same counts, whatever its thread does. *)
LEMMA StageStill ==
    ASSUME NEW t, Moves(t), NEW taken, NEW given, Stage(pc[t], hand[t], taken, given)
    PROVE  Stage(pc'[t], hand'[t], taken, given)
<1>1. Idle \cap Busy = {}
    BY DEF Idle, Busy
<1> QED
    BY <1>1 DEF Moves, Stage

LEMMA CalmSync == ASSUME Sync, Calm PROVE Sync'
BY DEF Sync, Calm, Blocked

LEMMA VideoStill ==
    ASSUME NEW p, VideoAt(p), lastDts' = lastDts, Moves(Demux[1]), Passed(1)' = Passed(1)
    PROVE  VideoAt(p)'
<1>1. Stage(pc[Demux[1]]', hand[Demux[1]]', Passed(1), p)
    BY StageStill DEF VideoAt
<1> QED
    BY <1>1 DEF VideoAt

LEMMA AudioStill ==
    ASSUME NEW p, NEW out, AudioAt(p, out), lastDts' = lastDts, SameQueues,
           \A t \in Movers : Moves(t), Passed(2)' = Passed(2)
    PROVE  AudioAt(p, out)'
<1>1. /\ Stage(pc'["enc"], hand'["enc"], out["enc"], p)
      /\ Stage(pc'["filter"], hand'["filter"], out["filter"], out["enc"] + Len(fifo["enc"]))
      /\ Stage(pc'["dec"], hand'["dec"], out["dec"], out["filter"] + Len(fifo["filter"]))
      /\ Stage(pc'[Demux[2]], hand'[Demux[2]], Passed(2), out["dec"] + Len(fifo["dec"]))
    BY StageStill, AreMovers DEF AudioAt
<1>2. /\ fifo'["enc"] = fifo["enc"] /\ fifo'["filter"] = fifo["filter"] /\ fifo'["dec"] = fifo["dec"]
      /\ \A w \in Workers : Held(fifo'[w], out[w])
    BY AreWorkers DEF SameQueues, AudioAt
<1> QED
    BY <1>1, <1>2 DEF AudioAt

LEMMA Still ==
    ASSUME Core, Calm, SameQueues, \A t \in Movers : Moves(t),
           Passed(1)' = Passed(1), Passed(2)' = Passed(2),
           pc'["enc"] = pc["enc"] \/ scheduleLock # "enc",
           Blocked(lastDts, 1) => pc'[Demux[1]] \notin Busy
    PROVE  Core'
<1>1. Sync'
    BY CalmSync DEF Core
<1>2. Flow'
    BY VideoStill, AudioStill, AreMovers DEF Core, Flow, Calm
<1>3. Gates'
    BY DEF Core, Gates, Calm, Blocked
<1> QED
    BY <1>1, <1>2, <1>3 DEF Core

(* A thread goes on without a packet. *)
LEMMA MovedStill ==
    ASSUME Typed, Core, Calm, SameQueues, NEW t \in Movers, NEW l,
           scheduleLock # t, Moved(t, l),
           hand' = hand, l \cap Idle = {},
           pc[t] \in Busy \/ l \cap Busy = {}, pc[t] # "wait"
    PROVE  Core'
<1>1. \A u \in Movers : Moves(u)
    BY AreMovers DEF Moved, Moves
<1>2. pc'[t] # "wait"
    BY DEF Moved, Idle
<1>3. Passed(1)' = Passed(1) /\ Passed(2)' = Passed(2)
    BY <1>2, AreMovers DEF Moved, Passed
<1>4. Blocked(lastDts, 1) => pc'[Demux[1]] \notin Busy
    BY AreMovers DEF Core, Gates, Moved
<1>5. pc'["enc"] = pc["enc"] \/ scheduleLock # "enc"
    BY AreMovers DEF Moved
<1> QED
    BY <1>1, <1>3, <1>4, <1>5, Still

(* Nor does any other thread disturb it. *)
LEMMA ElsewhereStill ==
    ASSUME Core, Calm, SameQueues, hand' = hand, \A t \in Movers : pc'[t] = pc[t]
    PROVE  Core'
<1>1. \A u \in Movers : Moves(u)
    BY DEF Moves
<1>2. Passed(1)' = Passed(1) /\ Passed(2)' = Passed(2)
    BY AreMovers DEF Passed
<1>3. Blocked(lastDts, 1) => pc'[Demux[1]] \notin Busy
    BY AreMovers DEF Core, Gates
<1> QED
    BY <1>1, <1>2, <1>3, AreMovers, Still

-----------------------------------------------------------------------------
(* The demuxers *)

(* Which threads are which. *)
LEMMA Apart ==
    /\ Demux[1] # Demux[2] /\ Demux[1] \notin Workers /\ Demux[2] \notin Workers
    /\ "main" \notin Movers /\ "mux" \notin Movers
    /\ \A s \in Streams : Demux[s] \in Movers
    /\ \A t \in Movers : t \in Threads
BY Names DEF Movers

(* A demuxer that is not held back goes on with a packet. *)
LEMMA LetThrough ==
    ASSUME Typed, Core, Calm, SameQueues, NEW s \in Streams, scheduleLock # Demux[s], ~choked[s],
           pc[Demux[s]] \in Idle, Moved(Demux[s], {"send"}),
           Passed(s)' = Passed(s) + 1, hand'[Demux[s]] = Passed(s) + 1,
           \A t \in Threads \ {Demux[s]} : hand'[t] = hand[t]
    PROVE  Core'
<1> DEFINE d == Demux[s]
<1>1. \A t \in Movers \ {d} : Moves(t)
    BY Apart DEF Moved, Moves
<1>2. s = 1 \/ s = 2
    BY Names
<1>3. ASSUME NEW taken, NEW given \in Nat, Stage(pc[d], hand[d], taken, given), hand'[d] = taken + 1
      PROVE  Stage(pc'[d], hand'[d], taken + 1, given)
    BY <1>3 DEF Stage, Idle, Busy, Moved
<1>4. Sync'
    BY CalmSync DEF Core
<1>5. CASE s = 1
    <2>1. ~Blocked(lastDts, 1)
        BY <1>5 DEF Core, Gates
    <2>2. Passed(2)' = Passed(2) /\ pc'["enc"] = pc["enc"]
        BY <1>5, Apart, AreWorkers, AreMovers DEF Moved, Passed
    <2>3. \E p \in Nat : VideoAt(p)'
        <3>1. PICK p \in Nat : VideoAt(p)
            BY DEF Core, Flow
        <3>2. Stage(pc'[Demux[1]], hand'[Demux[1]], Passed(1)', p)
            BY <1>3, <1>5, <3>1 DEF VideoAt
        <3> QED
            BY <3>1, <3>2 DEF VideoAt, Calm
    <2>4. \E p \in Nat, out \in [Workers -> Nat] : AudioAt(p, out)'
        <3>1. PICK p \in Nat, out \in [Workers -> Nat] : AudioAt(p, out)
            BY DEF Core, Flow
        <3>2. /\ Moves("enc") /\ Moves("filter") /\ Moves("dec") /\ Moves(Demux[2])
            BY <1>1, <1>5, Apart, AreMovers, AreWorkers
        <3>3. /\ Stage(pc'["enc"], hand'["enc"], out["enc"], p)
              /\ Stage(pc'["filter"], hand'["filter"], out["filter"], out["enc"] + Len(fifo["enc"]))
              /\ Stage(pc'["dec"], hand'["dec"], out["dec"], out["filter"] + Len(fifo["filter"]))
              /\ Stage(pc'[Demux[2]], hand'[Demux[2]], Passed(2), out["dec"] + Len(fifo["dec"]))
            BY <3>1, <3>2, StageStill DEF AudioAt
        <3> QED
            BY <2>2, <3>1, <3>3, AreWorkers DEF AudioAt, Calm, SameQueues
    <2>5. Gates'
        BY <2>1, <2>2 DEF Core, Gates, Calm, Blocked
    <2> QED
        BY <1>4, <2>3, <2>4, <2>5 DEF Core, Flow
<1>6. CASE s = 2
    <2>1. Passed(1)' = Passed(1) /\ pc'["enc"] = pc["enc"] /\ pc'[Demux[1]] = pc[Demux[1]]
        BY <1>6, Apart, AreWorkers, AreMovers DEF Moved, Passed
    <2>2. \E p \in Nat : VideoAt(p)'
        <3>1. Moves(Demux[1])
            BY <1>1, <1>6, Apart, AreMovers
        <3>2. PICK p \in Nat : VideoAt(p)
            BY DEF Core, Flow
        <3> QED
            BY <2>1, <3>1, <3>2, VideoStill DEF Calm
    <2>3. \E p \in Nat, out \in [Workers -> Nat] : AudioAt(p, out)'
        <3>1. PICK p \in Nat, out \in [Workers -> Nat] : AudioAt(p, out)
            BY DEF Core, Flow
        <3>2. /\ Moves("enc") /\ Moves("filter") /\ Moves("dec")
            BY <1>1, <1>6, Apart, AreMovers, AreWorkers
        <3>3. /\ Stage(pc'["enc"], hand'["enc"], out["enc"], p)
              /\ Stage(pc'["filter"], hand'["filter"], out["filter"], out["enc"] + Len(fifo["enc"]))
              /\ Stage(pc'["dec"], hand'["dec"], out["dec"], out["filter"] + Len(fifo["filter"]))
            BY <3>1, <3>2, StageStill DEF AudioAt
        <3>4. out["dec"] + Len(fifo["dec"]) \in Nat
            BY AreWorkers, Lengths
        <3>5. Stage(pc'[Demux[2]], hand'[Demux[2]], Passed(2)', out["dec"] + Len(fifo["dec"]))
            BY <1>3, <1>6, <3>1, <3>4 DEF AudioAt
        <3> QED
            BY <3>1, <3>3, <3>5, AreWorkers DEF AudioAt, Calm, SameQueues
    <2>4. Gates'
        BY <1>6, <2>1 DEF Core, Gates, Calm, Blocked
    <2> QED
        BY <1>4, <2>2, <2>3, <2>4 DEF Core, Flow
<1> QED
    BY <1>2, <1>5, <1>6

(* A demuxer reads the next packet, and waits if its stream is held back. *)
LEMMA ReadCore ==
    ASSUME Typed, Core, NEW s \in Streams, DemuxRead(s)
    PROVE  Core'
<1> DEFINE d == Demux[s]
<1>1. /\ pc[d] = "read" /\ scheduleLock # d /\ d \in Threads /\ d \in Movers
      /\ Calm /\ fifo' = fifo
    BY Apart DEF DemuxRead, At, schedule, queues, Calm
<1>2. SameQueues
    BY <1>1 DEF SameQueues, Typed
<1>3. CASE Goto(d, "close") /\ UNCHANGED hand
    <2>1. Moved(d, {"close"})
        BY <1>1, <1>3, GotoMoved
    <2> QED
        BY <1>1, <1>2, <1>3, <2>1, MovedStill DEF Idle, Busy
<1>4. CASE hand' = [hand EXCEPT ![d] = @ + 1] /\ Goto(d, IF choked[s] THEN "wait" ELSE "send")
    <2>1. /\ hand'[d] = hand[d] + 1 /\ hand[d] \in Nat
          /\ \A t \in Threads \ {d} : hand'[t] = hand[t]
        BY <1>1, <1>4 DEF Typed
    <2>2. Passed(s) = hand[d]
        BY <1>1 DEF Passed
    <2>3. CASE choked[s]
        <3>1. Moved(d, {"wait"})
            BY <1>1, <1>4, <2>3, GotoMoved
        <3>2. Passed(s)' = Passed(s)
            BY <2>1, <2>2, <3>1 DEF Passed, Moved
        <3>3. \A t \in Movers : Moves(t)
            BY <1>1, <2>1, <3>1, Apart DEF Moved, Moves, Idle
        <3>4. Passed(1)' = Passed(1) /\ Passed(2)' = Passed(2)
            BY <2>1, <3>1, <3>2, Apart, Names DEF Moved, Passed
        <3>5. Blocked(lastDts, 1) => pc'[Demux[1]] \notin Busy
            BY <1>1, <3>1, Apart, Names DEF Core, Gates, Moved, Busy
        <3>6. pc'["enc"] = pc["enc"]
            BY <1>1, <3>1, Names DEF Moved
        <3> QED
            BY <1>1, <1>2, <3>3, <3>4, <3>5, <3>6, Still
    <2>4. CASE ~choked[s]
        <3>1. Moved(d, {"send"})
            BY <1>1, <1>4, <2>4, GotoMoved
        <3>2. Passed(s)' = Passed(s) + 1
            BY <2>1, <2>2, <3>1 DEF Passed, Moved
        <3> QED
            BY <1>1, <1>2, <2>1, <2>2, <2>4, <3>1, <3>2, LetThrough DEF Idle
    <2> QED
        BY <2>3, <2>4
<1> QED
    BY <1>3, <1>4 DEF DemuxRead

(* A demuxer that had to wait goes on. *)
LEMMA WaitCore ==
    ASSUME Typed, Core, Open, NEW s \in Streams, DemuxWait(s)
    PROVE  Core'
<1> DEFINE d == Demux[s]
<1>1. /\ pc[d] = "wait" /\ scheduleLock # d /\ d \in Threads /\ d \in Movers
      /\ Calm /\ fifo' = fifo /\ hand' = hand /\ ~choked[s] /\ Goto(d, "send")
    BY Apart DEF DemuxWait, At, schedule, queues, Calm, Open
<1>2. SameQueues
    BY <1>1 DEF SameQueues, Typed
<1>3. Moved(d, {"send"})
    BY <1>1, GotoMoved
<1>4. Passed(s)' = Passed(s) + 1 /\ hand'[d] = Passed(s) + 1
    BY <1>1, <1>3 DEF Passed, Moved, Typed
<1> QED
    BY <1>1, <1>2, <1>3, <1>4, LetThrough DEF Idle

(* A packet more in a queue. *)
LEMMA Given ==
    ASSUME NEW q \in Seq(Item), NEW s, NEW n \in Nat, [stream |-> s, n |-> n] \in Item,
           NEW out \in Nat, Held(q, out), n = out + Len(q) + 1
    PROVE  LET r == Append(q, [stream |-> s, n |-> n]) IN
           Len(r) = Len(q) + 1 /\ Held(r, out)
BY DEF Held

(* A packet goes from the hand of thread t to the queue behind it. *)
LEMMA SendCore ==
    ASSUME Typed, Core, Calm, NEW t \in {Demux[2], "dec", "filter"}, NEW q \in Workers,
           (t = Demux[2] /\ q = "dec") \/ (t = "dec" /\ q = "filter") \/ (t = "filter" /\ q = "enc"),
           pc[t] = "send", scheduleLock # t, Put(q, Coded, hand[t]),
           Moved(t, {IF t = Demux[2] THEN "read" ELSE "receive"}),
           t = Demux[2] => hand'[t] = hand[t],
           \A u \in Threads \ {t} : hand'[u] = hand[u]
    PROVE  Core'
<1>1. PICK p \in Nat, out \in [Workers -> Nat] : AudioAt(p, out)
    BY DEF Core, Flow
<1>2. /\ t \in Movers /\ t # Demux[1] /\ t # "enc" /\ t \in Threads
    BY Apart, AreMovers, AreWorkers, Names
<1>3. Passed(1)' = Passed(1) /\ Passed(2)' = Passed(2)
    BY <1>2, Apart, AreMovers DEF Moved, Passed
<1>4. fifo' = [fifo EXCEPT ![q] = Append(@, [stream |-> Coded, n |-> hand[t]])]
    BY DEF Put
<1>5. /\ fifo'[q] = Append(fifo[q], [stream |-> Coded, n |-> hand[t]])
      /\ \A w \in Workers \ {q} : fifo'[w] = fifo[w]
    BY <1>4, Names DEF Typed
<1>6. hand[t] \in Nat /\ hand[t] = out[q] + Len(fifo[q]) + 1
    <2>1. "send" \in Busy
        BY DEF Busy
    <2> QED
        BY <1>1, <1>2, <2>1 DEF AudioAt, Stage, Typed
<1>7. Len(fifo'[q]) = Len(fifo[q]) + 1 /\ Held(fifo'[q], out[q])
    <2>1. fifo[q] \in Seq(Item) /\ [stream |-> Coded, n |-> hand[t]] \in Item /\ out[q] \in Nat
        BY <1>6, Names DEF Typed, Item
    <2> QED
        BY <1>1, <1>5, <1>6, <2>1, Given DEF AudioAt
<1>8. ASSUME NEW taken, Stage(pc[t], hand[t], taken, out[q] + Len(fifo[q]))
      PROVE  Stage(pc'[t], hand'[t], taken, out[q] + Len(fifo'[q]))
    <2>1. pc'[t] \in Idle /\ pc'[t] \notin Busy
        BY DEF Moved, Idle, Busy
    <2>2. taken = out[q] + Len(fifo[q]) + 1 /\ taken \in Nat
        BY <1>8 DEF Stage, Busy
    <2>3. out[q] \in Nat /\ Len(fifo[q]) \in Nat
        BY Lengths
    <2> QED
        BY <1>7, <2>1, <2>2, <2>3 DEF Stage
<1>9. \A u \in Movers \ {t} : Moves(u)
    BY Apart DEF Moved, Moves
<1>10. \A w \in Workers : Held(fifo'[w], out[w])
    BY <1>1, <1>5, <1>7 DEF AudioAt
<1>11. \A u \in Movers \ {t} : \A taken, given :
           Stage(pc[u], hand[u], taken, given) => Stage(pc'[u], hand'[u], taken, given)
    BY <1>9, StageStill
<1>12. AudioAt(p, out)'
    <2>1. CASE t = Demux[2]
        <3>1. q = "dec" /\ fifo'["enc"] = fifo["enc"] /\ fifo'["filter"] = fifo["filter"]
            BY <1>5, <2>1, Names
        <3>2. {"enc", "filter", "dec"} \subseteq Movers \ {t}
            BY <2>1, Apart, AreMovers, AreWorkers
        <3> QED
            BY <1>1, <1>3, <1>8, <1>10, <1>11, <2>1, <3>1, <3>2 DEF AudioAt, Calm
    <2>2. CASE t = "dec"
        <3>1. q = "filter" /\ fifo'["enc"] = fifo["enc"] /\ fifo'["dec"] = fifo["dec"]
            BY <1>5, <2>2, Names
        <3>2. {"enc", "filter", Demux[2]} \subseteq Movers \ {t}
            BY <2>2, Apart, AreMovers, AreWorkers
        <3> QED
            BY <1>1, <1>3, <1>8, <1>10, <1>11, <2>2, <3>1, <3>2 DEF AudioAt, Calm
    <2>3. CASE t = "filter"
        <3>1. q = "enc" /\ fifo'["filter"] = fifo["filter"] /\ fifo'["dec"] = fifo["dec"]
            BY <1>5, <2>3, Names
        <3>2. {"enc", "dec", Demux[2]} \subseteq Movers \ {t}
            BY <2>3, Apart, AreMovers, AreWorkers
        <3> QED
            BY <1>1, <1>3, <1>8, <1>10, <1>11, <2>3, <3>1, <3>2 DEF AudioAt, Calm
    <2> QED
        BY <2>1, <2>2, <2>3
<1>13. \E r \in Nat : VideoAt(r)'
    <2>1. Moves(Demux[1])
        BY <1>2, <1>9, AreMovers
    <2>2. PICK r \in Nat : VideoAt(r)
        BY DEF Core, Flow
    <2> QED
        BY <1>3, <2>1, <2>2, VideoStill DEF Calm
<1>14. pc'["enc"] = pc["enc"] /\ pc'[Demux[1]] = pc[Demux[1]]
    BY <1>2, AreMovers DEF Moved
<1>15. Gates'
    BY <1>3, <1>14 DEF Core, Gates, Calm, Blocked
<1> QED
    BY <1>12, <1>13, <1>15, CalmSync DEF Core, Flow

(* DecoderSend: the packet, the end, or a decoder that has failed. *)
LEMMA DecoderSendCore ==
    ASSUME Typed, Core, DecoderSend
    PROVE  Core'
<1> DEFINE d == Demux[Coded]
<1>1. /\ d = Demux[2] /\ d \in Threads /\ d \in Movers /\ "dec" \in Workers
      /\ scheduleLock # d /\ hand' = hand /\ Calm /\ pc[d] \in {"send", "close"}
    BY Names, AreMovers DEF DecoderSend, At, schedule, Calm
<1>2. CASE pc[d] = "send" /\ Put("dec", Coded, hand[d]) /\ Goto(d, "read")
    <2>1. Moved(d, {"read"})
        BY <1>1, <1>2, GotoMoved
    <2> QED
        BY <1>1, <1>2, <2>1, SendCore
<1>3. CASE pc[d] = "send" /\ Refuse("dec", Coded) /\ Goto(d, "close")
    <2>1. Moved(d, {"close"}) /\ SameQueues
        BY <1>1, <1>3, GotoMoved DEF Refuse, SameQueues, Typed
    <2> QED
        BY <1>1, <1>3, <2>1, MovedStill DEF Idle, Busy
<1>4. CASE tq_send_finish("dec", Coded) /\ Goto(d, "exit")
    <2>1. Moved(d, {"exit"}) /\ SameQueues
        BY <1>1, <1>4, GotoMoved DEF tq_send_finish, SameQueues, Typed
    <2> QED
        BY <1>1, <1>4, <2>1, MovedStill DEF Idle, Busy
<1> QED
    BY <1>2, <1>3, <1>4 DEF DecoderSend, SendTo, At

-----------------------------------------------------------------------------
(* The workers *)

(* A packet less. *)
LEMMA Taken ==
    ASSUME NEW q \in Seq(Item), q # <<>>, NEW out \in Nat, Held(q, out)
    PROVE  /\ Head(q).n = out + 1
           /\ Held(Tail(q), out + 1)
           /\ (out + 1) + Len(Tail(q)) = out + Len(q)
<1>1. /\ Len(q) \in Nat \ {0} /\ Len(Tail(q)) = Len(q) - 1
      /\ Head(q) = q[1]
      /\ \A i \in 1 .. Len(Tail(q)) : Tail(q)[i] = q[i + 1]
    BY HeadTail
<1>2. 1 \in 1 .. Len(q)
    BY <1>1
<1>3. ASSUME NEW i \in 1 .. Len(Tail(q)) PROVE Tail(q)[i].n = (out + 1) + i
    <2>1. i + 1 \in 1 .. Len(q) /\ Tail(q)[i] = q[i + 1]
        BY <1>1
    <2>2. q[i + 1].n = out + (i + 1)
        BY <2>1 DEF Held
    <2> QED
        BY <2>1, <2>2
<1> QED
    BY <1>1, <1>2, <1>3 DEF Held

(* A worker takes a packet from its queue. *)
LEMMA TakeCore ==
    ASSUME Typed, Core, Calm, NEW w \in Workers, pc[w] = "receive", scheduleLock # w,
           fifo[w] # <<>>, fifo' = [fifo EXCEPT ![w] = Tail(@)],
           hand' = [hand EXCEPT ![w] = Head(fifo[w]).n],
           Moved(w, {"open", "send"})
    PROVE  Core'
<1>1. PICK p \in Nat, out \in [Workers -> Nat] : AudioAt(p, out)
    BY DEF Core, Flow
<1> DEFINE now == [out EXCEPT ![w] = @ + 1]
<1>2. w \in Movers /\ w \in Threads /\ w # Demux[1] /\ w # Demux[2]
    BY Apart, AreMovers, AreWorkers, Names
<1>3. Passed(1)' = Passed(1) /\ Passed(2)' = Passed(2)
    BY <1>2, Apart, AreMovers DEF Moved, Passed, Typed
<1>4. /\ fifo'[w] = Tail(fifo[w]) /\ hand'[w] = Head(fifo[w]).n
      /\ \A v \in Workers \ {w} : fifo'[v] = fifo[v]
      /\ \A u \in Threads \ {w} : hand'[u] = hand[u]
    BY <1>2, Names DEF Typed
<1>5. fifo[w] \in Seq(Item)
    BY DEF Typed
<1>6. out[w] \in Nat /\ Held(fifo[w], out[w])
    BY <1>1 DEF AudioAt
<1>7. hand'[w] = out[w] + 1
    BY <1>4, <1>5, <1>6, Taken
<1>8. Held(fifo'[w], out[w] + 1) /\ (out[w] + 1) + Len(fifo'[w]) = out[w] + Len(fifo[w])
    BY <1>4, <1>5, <1>6, Taken
<1>9. now \in [Workers -> Nat] /\ now[w] = out[w] + 1 /\ \A v \in Workers \ {w} : now[v] = out[v]
    BY <1>6
<1> HIDE DEF now
<1>10. \A v \in Workers : Held(fifo'[v], now[v])
    BY <1>1, <1>4, <1>8, <1>9 DEF AudioAt
<1>11. \A u \in Movers \ {w} : Moves(u)
    BY <1>2, <1>4, Apart DEF Moved, Moves
<1>12. \A u \in Movers \ {w} : \A taken, given :
           Stage(pc[u], hand[u], taken, given) => Stage(pc'[u], hand'[u], taken, given)
    BY <1>11, StageStill
<1>13. ASSUME NEW given, Stage(pc[w], hand[w], out[w], given)
       PROVE  Stage(pc'[w], hand'[w], now[w], given)
    <2>1. pc'[w] \notin Idle
        BY DEF Moved, Idle
    <2>2. given = out[w]
        BY <1>13 DEF Stage, Idle
    <2> QED
        BY <1>6, <1>7, <1>9, <2>1, <2>2 DEF Stage
<1>14. now[w] + Len(fifo'[w]) = out[w] + Len(fifo[w])
    BY <1>8, <1>9
<1>15. AudioAt(p, now)'
    <2>1. CASE w = "enc"
        <3>1. /\ fifo'["filter"] = fifo["filter"] /\ fifo'["dec"] = fifo["dec"]
              /\ now["filter"] = out["filter"] /\ now["dec"] = out["dec"]
            BY <1>4, <1>9, <2>1, AreWorkers
        <3>2. {"filter", "dec", Demux[2]} \subseteq Movers \ {w}
            BY <2>1, Apart, AreMovers, AreWorkers
        <3> QED
            BY <1>1, <1>3, <1>10, <1>12, <1>13, <1>14, <2>1, <3>1, <3>2 DEF AudioAt, Calm
    <2>2. CASE w = "filter"
        <3>1. /\ fifo'["enc"] = fifo["enc"] /\ fifo'["dec"] = fifo["dec"]
              /\ now["enc"] = out["enc"] /\ now["dec"] = out["dec"]
            BY <1>4, <1>9, <2>2, AreWorkers
        <3>2. {"enc", "dec", Demux[2]} \subseteq Movers \ {w}
            BY <2>2, Apart, AreMovers, AreWorkers
        <3> QED
            BY <1>1, <1>3, <1>10, <1>12, <1>13, <1>14, <2>2, <3>1, <3>2 DEF AudioAt, Calm
    <2>3. CASE w = "dec"
        <3>1. /\ fifo'["enc"] = fifo["enc"] /\ fifo'["filter"] = fifo["filter"]
              /\ now["enc"] = out["enc"] /\ now["filter"] = out["filter"]
            BY <1>4, <1>9, <2>3, AreWorkers
        <3>2. {"enc", "filter", Demux[2]} \subseteq Movers \ {w}
            BY <2>3, Apart, AreMovers, AreWorkers
        <3> QED
            BY <1>1, <1>3, <1>10, <1>12, <1>13, <1>14, <2>3, <3>1, <3>2 DEF AudioAt, Calm
    <2> QED
        BY <2>1, <2>2, <2>3, Names
<1>16. \E r \in Nat : VideoAt(r)'
    <2>1. Moves(Demux[1])
        BY <1>2, <1>11, AreMovers
    <2>2. PICK r \in Nat : VideoAt(r)
        BY DEF Core, Flow
    <2> QED
        BY <1>3, <2>1, <2>2, VideoStill DEF Calm
<1>17. pc'[Demux[1]] = pc[Demux[1]] /\ (pc'["enc"] = pc["enc"] \/ scheduleLock # "enc")
    BY <1>2, AreMovers DEF Moved
<1>18. Gates'
    BY <1>3, <1>17 DEF Core, Gates, Calm, Blocked
<1> QED
    BY <1>9, <1>15, <1>16, <1>18, CalmSync DEF Core, Flow

(* A worker takes a packet, or learns that there are no more. *)
LEMMA ReceiveCore ==
    ASSUME Typed, Core, "enc" \notin dstFinished, NEW w \in Workers, WorkerReceive(w)
    PROVE  Core'
<1>1. w \in Movers /\ w \in Threads /\ Calm /\ pc[w] = "receive" /\ scheduleLock # w
    BY Names, AreMovers, Apart DEF WorkerReceive, At, schedule, Calm, Movers
<1>2. CASE fifo[w] # <<>>
    <2>1. PICK l \in {"open", "send"} : Goto(w, l)
        BY <1>2 DEF WorkerReceive
    <2>2. Moved(w, {"open", "send"})
        BY <1>1, <2>1, GotoMoved DEF Moved
    <2> QED
        BY <1>1, <1>2, <2>2, TakeCore DEF WorkerReceive
<1>3. CASE fifo[w] = <<>>
    <2>1. Moved(w, {"finish"}) /\ SameQueues /\ hand' = hand
        BY <1>1, <1>3, GotoMoved DEF WorkerReceive, SameQueues, Typed
    <2> QED
        BY <1>1, <2>1, MovedStill DEF Idle, Busy
<1> QED
    BY <1>2, <1>3

(* The decoder and the filter pass on what they have made. *)
LEMMA WorkerSendCore ==
    ASSUME Typed, Core, NEW w \in Workers, WorkerSend(w)
    PROVE  Core'
<1>1. /\ w \in {"dec", "filter"} /\ w \in Movers /\ w \in Threads /\ w # Demux[2] /\ w # Demux[1]
      /\ Feeds[w] \in Workers
      /\ (w = "dec" /\ Feeds[w] = "filter") \/ (w = "filter" /\ Feeds[w] = "enc")
    BY Names, AreMovers DEF WorkerSend
<1>2. /\ Calm /\ pc[w] = "send" /\ scheduleLock # w
      /\ \A u \in Threads \ {w} : hand'[u] = hand[u]
    BY <1>1 DEF WorkerSend, At, schedule, Calm, Typed
<1>3. CASE Put(Feeds[w], Coded, hand[w]) /\ Goto(w, "receive")
    <2>1. Moved(w, {"receive"})
        BY <1>1, <1>3, GotoMoved
    <2> QED
        BY <1>1, <1>2, <1>3, <2>1, SendCore
<1>4. CASE Refuse(Feeds[w], Coded) /\ Goto(w, "close")
    <2>1. Moved(w, {"close"}) /\ SameQueues
        BY <1>1, <1>4, GotoMoved DEF Refuse, SameQueues, Typed
    <2>2. \A u \in Movers : Moves(u)
        BY <1>1, <1>2, <2>1, Apart DEF Moved, Moves, Idle, Busy
    <2>3. Passed(1)' = Passed(1) /\ Passed(2)' = Passed(2)
        BY <1>1, <1>2, <2>1, AreMovers DEF Moved, Passed
    <2>4. pc'["enc"] = pc["enc"] /\ pc'[Demux[1]] = pc[Demux[1]]
        BY <1>1, <2>1, AreMovers DEF Moved
    <2> QED
        BY <1>2, <2>1, <2>2, <2>3, <2>4, Still DEF Core, Gates
<1> QED
    BY <1>3, <1>4 DEF WorkerSend, SendTo

-----------------------------------------------------------------------------
(* The time stamps *)

LEMMA Others ==
    /\ Other(1) = 2 /\ Other(2) = 1
    /\ \A s \in Streams : Other(s) \in Streams
<1>1. Other(1) = 2 /\ Other(2) = 1
    BY DEF Other
<1>2. Streams = {1, 2}
    BY Names
<1> QED
    BY <1>1, <1>2

(* One packet more. *)
LEMMA Comes ==
    ASSUME NEW s \in Streams, NEW n \in Nat
    PROVE  DtsEnd(s, n + 1) = DtsEnd(s, n) + Duration[s] /\ DtsEnd(s, n + 1) \in Nat
<1>1. /\ DtsEnd(s, n) \in Nat /\ DtsEnd(s, n + 1) = DtsEnd(s, n) + Duration[s]
      /\ Duration[s] \in Nat \ {0}
    BY Times
<1> QED
    BY <1>1

LEMMA NotBlocked ==
    ASSUME NEW dts \in [Streams -> Nat], NEW s \in Streams, ~Blocked(dts, s)
    PROVE  dts[s] - dts[Other(s)] <= Tolerance - 1
<1>1. Other(s) \in Streams
    BY Others
<1>2. dts[s] \in Nat /\ dts[Other(s)] \in Nat /\ Tolerance \in Nat \ {0}
    BY <1>1, Numbers
<1>3. dts[s] = 0 \/ (dts[Other(s)] # 0 /\ ~(Tolerance <= dts[s] - dts[Other(s)]))
    BY DEF Blocked, NoDts
<1> QED
    BY <1>2, <1>3

(* A stream does not get blocked by the other one coming on. *)
LEMMA OtherComesOn ==
    ASSUME NEW now \in [Streams -> Nat], NEW dts \in [Streams -> Nat], NEW s \in Streams,
           dts[s] = now[s], now[Other(s)] < dts[Other(s)], Blocked(dts, s)
    PROVE  Blocked(now, s)
<1>1. Other(s) \in Streams
    BY Others
<1>2. /\ dts[s] \in Nat /\ dts[Other(s)] \in Nat /\ now[Other(s)] \in Nat
      /\ Tolerance \in Nat
    BY <1>1, Numbers
<1>3. dts[s] # 0 /\ (dts[Other(s)] = 0 \/ Tolerance <= dts[s] - dts[Other(s)])
    BY DEF Blocked, NoDts
<1>4. Tolerance <= dts[s] - dts[Other(s)]
    BY <1>2, <1>3
<1>5. Tolerance <= now[s] - now[Other(s)]
    BY <1>2, <1>4
<1> QED
    BY <1>3, <1>5 DEF Blocked, NoDts

(* A packet of the video has been given to the muxer. *)
LEMMA VideoSentCore ==
    ASSUME Typed, Core, Open, pc[Demux[1]] = "sent", Moved(Demux[1], {"read"}), SameQueues,
           hand' = hand,
           Update(Demux[1], [lastDts EXCEPT ![1] = DtsEnd(1, hand[Demux[1]])], sourceFinished, exited)
    PROVE  Core'
<1> DEFINE d == Demux[1]
           dts == [lastDts EXCEPT ![1] = DtsEnd(1, hand[d])]
<1>1. PICK p \in Nat : VideoAt(p)
    BY DEF Core, Flow
<1>2. d \in Threads /\ d \in Movers /\ "sent" \in Busy
    BY AreMovers DEF Busy
<1>3. hand[d] = p + 1 /\ Passed(1) = p + 1 /\ lastDts[1] = DtsEnd(1, p)
    BY <1>1, <1>2 DEF VideoAt, Stage, Passed
<1>4. lastDts[1] \in Nat /\ lastDts[2] \in Nat /\ lastDts \in [Streams -> Nat]
    BY Numbers DEF Typed
<1>5. dts \in [Streams -> Nat] /\ dts[1] = lastDts[1] + Duration[1] /\ dts[2] = lastDts[2]
    <2>1. DtsEnd(1, p + 1) = DtsEnd(1, p) + Duration[1] /\ DtsEnd(1, p + 1) \in Nat
        BY Comes, Numbers
    <2> QED
        BY <1>3, <1>4, <2>1, Numbers
<1>6. dts[1] = DtsEnd(1, p + 1)
    BY <1>3, <1>4, Numbers
<1> HIDE DEF dts
<1>7. /\ Sync' /\ lastDts' = dts /\ choked' = choked
      /\ \A s \in Streams : choked[s] = Blocked(lastDts, s)
      /\ \A s \in Streams : choked[s] # Blocked(dts, s) => scheduleLock' = d
    BY <1>2, <1>5, UpdateSync DEF Core, dts
<1>8. Passed(1)' = p + 1 /\ Passed(2)' = Passed(2) /\ pc'[d] = "read" /\ pc'["enc"] = pc["enc"]
    BY <1>2, <1>3, Apart, AreWorkers, AreMovers DEF Moved, Passed
<1>9. VideoAt(p + 1)'
    BY <1>6, <1>7, <1>8 DEF VideoAt, Stage, Idle, Busy
<1>10. \E r \in Nat, out \in [Workers -> Nat] : AudioAt(r, out)'
    <2>1. PICK r \in Nat, out \in [Workers -> Nat] : AudioAt(r, out)
        BY DEF Core, Flow
    <2>2. \A u \in Movers \ {d} : \A taken, given :
              Stage(pc[u], hand[u], taken, given) => Stage(pc'[u], hand'[u], taken, given)
        BY Apart DEF Moved
    <2>3. {"enc", "filter", "dec", Demux[2]} \subseteq Movers \ {d}
        BY Apart, AreMovers, AreWorkers
    <2> QED
        BY <1>5, <1>7, <1>8, <2>1, <2>2, <2>3, AreWorkers DEF AudioAt, SameQueues
<1>11. ~Blocked(lastDts, 1) /\ lastDts[1] - lastDts[2] <= Tolerance - 1
    <2>1. ~Blocked(lastDts, 1)
        BY <1>2 DEF Core, Gates
    <2> QED
        BY <1>4, <2>1, NotBlocked, Others, Numbers
<1>12. Blocked(dts, 2) => Blocked(lastDts, 2)
    <2>1. lastDts[1] < dts[1]
        BY <1>4, <1>5, Numbers
    <2> QED
        BY <1>4, <1>5, <2>1, OtherComesOn, Others, Numbers
<1>13. dts[1] - dts[2] <= Slack(1)
    BY <1>4, <1>5, <1>11, Numbers
<1>14. Blocked(dts, 1) /\ ~choked[1] => scheduleLock' = d
    BY <1>7, Numbers
<1>15. ~(Blocked(dts, 2) /\ ~choked[2])
    BY <1>7, <1>12, Numbers
<1>16. Blocked(dts, 2) /\ choked[2] => DtsEnd(2, Passed(2)) - dts[1] <= Slack(2) + DtsEnd(2, Room)
    <2> SUFFICES ASSUME Blocked(dts, 2), choked[2]
                 PROVE  DtsEnd(2, Passed(2)) - dts[1] <= Slack(2) + DtsEnd(2, Room)
        OBVIOUS
    <2>1. DtsEnd(2, Passed(2)) - lastDts[1] <= Slack(2) + DtsEnd(2, Room)
        BY <1>12 DEF Core, Gates
    <2>2. Passed(2) \in Nat /\ DtsEnd(2, Passed(2)) \in Nat /\ DtsEnd(2, Room) \in Nat
        BY Between, Times, Numbers DEF Core
    <2> QED
        BY <1>4, <1>5, <2>1, <2>2, Numbers
<1>17. Gates'
    BY <1>7, <1>8, <1>13, <1>14, <1>15, <1>16 DEF Gates, Busy
<1> QED
    BY <1>7, <1>9, <1>10, <1>17 DEF Core, Flow

(* A packet of the sound has. *)
LEMMA AudioSentCore ==
    ASSUME Typed, Core, Open, pc["enc"] = "sent", Moved("enc", {"receive"}), SameQueues,
           hand' = [hand EXCEPT !["enc"] = 0],
           Update("enc", [lastDts EXCEPT ![2] = DtsEnd(2, hand["enc"])], sourceFinished, exited)
    PROVE  Core'
<1> DEFINE dts == [lastDts EXCEPT ![2] = DtsEnd(2, hand["enc"])]
<1>1. PICK p \in Nat, out \in [Workers -> Nat] : AudioAt(p, out)
    BY DEF Core, Flow
<1>2. "enc" \in Threads /\ "enc" \in Movers /\ "sent" \in Busy
    BY AreMovers DEF Busy
<1>3. hand["enc"] = p + 1 /\ out["enc"] = p + 1 /\ lastDts[2] = DtsEnd(2, p)
    BY <1>1, <1>2 DEF AudioAt, Stage
<1>4. lastDts[1] \in Nat /\ lastDts[2] \in Nat /\ lastDts \in [Streams -> Nat]
    BY Numbers DEF Typed
<1>5. dts \in [Streams -> Nat] /\ dts[2] = lastDts[2] + Duration[2] /\ dts[1] = lastDts[1]
    <2>1. DtsEnd(2, p + 1) = DtsEnd(2, p) + Duration[2] /\ DtsEnd(2, p + 1) \in Nat
        BY Comes, Numbers
    <2> QED
        BY <1>3, <1>4, <2>1, Numbers
<1>6. dts[2] = DtsEnd(2, p + 1)
    BY <1>3, <1>4, Numbers
<1> HIDE DEF dts
<1>7. /\ Sync' /\ lastDts' = dts /\ choked' = choked
      /\ \A s \in Streams : choked[s] = Blocked(lastDts, s)
      /\ \A s \in Streams : choked[s] # Blocked(dts, s) => scheduleLock' = "enc"
    BY <1>2, <1>5, UpdateSync DEF Core, dts
<1>8. \A u \in Movers \ {"enc"} : pc'[u] = pc[u] /\ hand'[u] = hand[u]
    BY Apart DEF Moved, Typed
<1>9. /\ Passed(1)' = Passed(1) /\ Passed(2)' = Passed(2) /\ pc'["enc"] = "receive"
      /\ pc'[Demux[1]] = pc[Demux[1]]
    BY <1>8, Apart, AreWorkers, AreMovers DEF Moved, Passed
<1>10. AudioAt(p + 1, out)'
    <2>1. {"filter", "dec", Demux[2]} \subseteq Movers \ {"enc"}
        BY Apart, AreMovers, AreWorkers
    <2>2. Stage(pc'["enc"], hand'["enc"], out["enc"], p + 1)
        BY <1>3, <1>9 DEF Stage, Idle, Busy
    <2> QED
        BY <1>1, <1>6, <1>7, <1>8, <1>9, <2>1, <2>2, AreWorkers DEF AudioAt, SameQueues
<1>11. \E r \in Nat : VideoAt(r)'
    <2>1. PICK r \in Nat : VideoAt(r)
        BY DEF Core, Flow
    <2>2. Demux[1] \in Movers \ {"enc"}
        BY Apart, AreMovers, AreWorkers
    <2> QED
        BY <1>5, <1>7, <1>8, <1>9, <2>1, <2>2 DEF VideoAt
<1>12. Blocked(dts, 1) => Blocked(lastDts, 1)
    <2>1. lastDts[2] < dts[2]
        BY <1>4, <1>5, Numbers
    <2> QED
        BY <1>4, <1>5, <2>1, OtherComesOn, Others, Numbers
<1>13. dts[1] - dts[2] <= Slack(1)
    <2>1. lastDts[1] - lastDts[2] <= Slack(1)
        BY DEF Core, Gates
    <2> QED
        BY <1>4, <1>5, <2>1, Numbers
<1>14. ~choked[2] => dts[2] - dts[1] <= Slack(2)
    <2> SUFFICES ASSUME ~choked[2] PROVE dts[2] - dts[1] <= Slack(2)
        OBVIOUS
    <2>1. lastDts[2] - lastDts[1] <= Tolerance - 1
        BY <1>4, <1>7, NotBlocked, Others, Numbers
    <2> QED
        BY <1>4, <1>5, <2>1, Numbers
<1>15. choked[2] => Blocked(lastDts, 2)
    BY <1>7, Numbers
<1>16. /\ ~(Blocked(dts, 1) /\ ~choked[1])
       /\ Blocked(dts, 2) /\ ~choked[2] => scheduleLock' = "enc"
    BY <1>7, <1>12, Numbers
<1>17. Gates'
    BY <1>5, <1>7, <1>9, <1>12, <1>13, <1>14, <1>15, <1>16 DEF Core, Gates
<1> QED
    BY <1>7, <1>10, <1>11, <1>17 DEF Core, Flow

(* A demuxer is held back or let go on. *)
LEMMA ApplyCore ==
    ASSUME Typed, Core, NEW t \in Threads, ApplyChange(t)
    PROVE  Core'
<1>1. /\ Sync' /\ lastDts' = lastDts /\ scheduleLock = t
      /\ \A s \in Streams : choked'[s] # choked[s] => choked'[s] = Blocked(lastDts, s)
      /\ \A s \in Streams : choked'[s] # Blocked(lastDts, s) => scheduleLock' = t
    BY ApplySync DEF Core
<1>2. pc' = pc /\ hand' = hand /\ fifo' = fifo
    BY DEF ApplyChange
<1>3. Flow'
    BY <1>1, <1>2 DEF Core, Flow, VideoAt, AudioAt, Passed
<1>4. \A s \in Streams : Blocked(lastDts, s) /\ ~choked'[s] => ~choked[s] /\ scheduleLock' = t
    BY <1>1 DEF Core, Sync, Blocked
<1>5. ASSUME Blocked(lastDts, 2), choked'[2], ~choked[2]
      PROVE  DtsEnd(2, Passed(2)) - lastDts[1] <= Slack(2) + DtsEnd(2, Room)
    <2>1. pc["enc"] = "receive" /\ lastDts[2] - lastDts[1] <= Slack(2)
        BY <1>5 DEF Core, Gates
    <2>2. PICK p \in Nat : lastDts[2] = DtsEnd(2, p) /\ Passed(2) \in Nat /\ Passed(2) <= p + Room
        BY <2>1, Between DEF Core
    <2>3. DtsEnd(2, p + Room) = DtsEnd(2, p) + DtsEnd(2, Room) /\ DtsEnd(2, Passed(2)) <= DtsEnd(2, p + Room)
        <3>1. p + Room \in Nat /\ 2 \in Streams
            BY Numbers
        <3>2. DtsEnd(2, p + Room) = DtsEnd(2, p) + DtsEnd(2, Room)
            BY <3>1, Times, Numbers
        <3> QED
            BY <2>2, <3>1, <3>2, Times
    <2>4. /\ DtsEnd(2, p) \in Nat /\ DtsEnd(2, Room) \in Nat /\ DtsEnd(2, Passed(2)) \in Nat
          /\ lastDts[1] \in Nat
        BY <2>2, Times, Numbers DEF Typed
    <2> QED
        BY <2>1, <2>2, <2>3, <2>4, Numbers
<1>6. Gates'
    BY <1>1, <1>2, <1>4, <1>5, Numbers DEF Core, Gates, Passed
<1> QED
    BY <1>1, <1>3, <1>6 DEF Core

-----------------------------------------------------------------------------
(* Every step *)

(* Where the threads begin. *)
LEMMA InitLabels ==
    ASSUME Init
    PROVE  /\ pc[Demux[1]] = "read" /\ pc[Demux[2]] = "read" /\ pc["main"] = "start"
           /\ pc["enc"] = "receive" /\ pc["filter"] = "receive" /\ pc["dec"] = "receive"
           /\ pc["mux"] = "not started"
<1>1. /\ Demux[1] = "video demuxer" /\ Demux[2] = "audio demuxer"
      /\ {Demux[s] : s \in Streams} = {"video demuxer", "audio demuxer"}
      /\ Workers = {"dec", "filter", "enc"}
    BY Names, Zenon
<1> DEFINE D == {Demux[s] : s \in Streams}
           P == [t \in Threads |-> CASE t \in D -> "read"
                                     [] t \in Workers -> "receive"
                                     [] t = "mux" -> "not started"
                                     [] t = "main" -> "start"]
<1>2. pc = P
    BY DEF Init
<1> HIDE DEF D
<1>3. D = {"video demuxer", "audio demuxer"}
    BY <1>1 DEF D
<1>4. /\ P["video demuxer"] = "read" /\ P["audio demuxer"] = "read" /\ P["main"] = "start"
      /\ P["enc"] = "receive" /\ P["filter"] = "receive" /\ P["dec"] = "receive"
      /\ P["mux"] = "not started"
    BY <1>1, <1>3, Names
<1> QED
    BY <1>1, <1>2, <1>4

LEMMA InitCore == Init => Core /\ Early
<1> SUFFICES ASSUME Init PROVE Core /\ Early
    OBVIOUS
<1>1. /\ lastDts[1] = 0 /\ lastDts[2] = 0 /\ plan = <<>> /\ scheduleLock = None
      /\ choked \in [Streams -> BOOLEAN] /\ choked[1] = FALSE /\ choked[2] = FALSE
    BY Numbers DEF Init, NoDts
<1>2. ~Blocked(lastDts, 1) /\ ~Blocked(lastDts, 2)
    BY <1>1 DEF Blocked, NoDts
<1>3. \A t \in Threads : hand[t] = 0
    BY DEF Init
<1>4. /\ pc[Demux[1]] = "read" /\ pc[Demux[2]] = "read" /\ pc["main"] = "start"
      /\ pc["enc"] = "receive" /\ pc["filter"] = "receive" /\ pc["dec"] = "receive"
    BY InitLabels
<1>5. \A w \in Workers : fifo[w] = <<>>
    BY Names DEF Init
<1>6. Sync
    <2>1. <<>> \in Seq(Change) /\ Len(<<>>) = 0
        OBVIOUS
    <2>2. \A s \in Streams : choked[s] = Blocked(lastDts, s)
        <3>1. \A s \in Streams : s = 1 \/ s = 2
            BY Names
        <3>2. Blocked(lastDts, 1) \in BOOLEAN /\ Blocked(lastDts, 2) \in BOOLEAN
            BY DEF Blocked
        <3> QED
            BY <1>1, <1>2, <3>1, <3>2
    <2> QED
        BY <1>1, <2>1, <2>2 DEF Sync
<1>7. DtsEnd(1, 0) = 0 /\ DtsEnd(2, 0) = 0
    BY Numbers DEF DtsEnd
<1>8. \A h : Stage("read", h, 0, 0) /\ Stage("receive", h, 0, 0)
    BY DEF Stage, Idle, Busy
<1>9. Passed(1) = 0 /\ Passed(2) = 0
    BY <1>3, <1>4, AreMovers DEF Passed
<1>10. VideoAt(0)
    BY <1>1, <1>4, <1>7, <1>8, <1>9 DEF VideoAt
<1> DEFINE none == [w \in Workers |-> 0]
<1>11. AudioAt(0, none)
    <2>1. none["enc"] = 0 /\ none["filter"] = 0 /\ none["dec"] = 0
        BY AreWorkers
    <2>2. Len(fifo["enc"]) = 0 /\ Len(fifo["filter"]) = 0 /\ Len(fifo["dec"]) = 0
        BY <1>5, AreWorkers
    <2>3. \A w \in Workers : Held(fifo[w], none[w])
        BY <1>5 DEF Held
    <2> QED
        BY <1>1, <1>4, <1>7, <1>8, <1>9, <2>1, <2>2, <2>3 DEF AudioAt
<1>12. Flow
    BY <1>10, <1>11 DEF Flow
<1>13. Gates
    BY <1>1, <1>2, Numbers DEF Gates
<1>14. Early
    BY <1>4 DEF Init, Early
<1> QED
    BY <1>6, <1>12, <1>13, <1>14 DEF Core

(* A schedule for the same time stamps changes nothing. *)
LEMMA CalmUpdate ==
    ASSUME Typed, Core, Open, NEW t \in Threads, NEW gone,
           Update(t, lastDts, sourceFinished, gone)
    PROVE  Calm
<1>1. lastDts \in [Streams -> Nat]
    BY DEF Typed
<1> QED
    BY <1>1, UpdateSync DEF Core, Calm

LEMMA DemuxerCore ==
    ASSUME Typed, Core, Open, Open', NEW s \in Streams, Demuxer(s)
    PROVE  Core'
<1> DEFINE d == Demux[s]
<1>1. d \in Movers /\ d \in Threads
    BY Apart
<1>2. CASE DemuxRead(s) \/ DemuxWait(s)
    BY <1>2, ReadCore, WaitCore
<1>3. CASE DemuxExit(s)
    <2>1. /\ pc[d] = "exit" /\ scheduleLock # d /\ hand' = hand /\ fifo' = fifo /\ Goto(d, "done")
          /\ Update(d, lastDts, sourceFinished, exited \union {s})
        BY <1>3 DEF DemuxExit, At, queues
    <2>2. Moved(d, {"done"}) /\ SameQueues /\ Calm
        BY <1>1, <2>1, GotoMoved, CalmUpdate DEF SameQueues, Typed
    <2> QED
        BY <1>1, <2>1, <2>2, MovedStill DEF Idle, Busy
<1>4. CASE ApplyChange(d)
    BY <1>1, <1>4, ApplyCore
<1>5. CASE DecoderSend
    BY <1>5, DecoderSendCore
<1>6. CASE MuxSend(d, s)
    BY <1>1, <1>6, MuxSendDoes, MovedStill DEF At, Calm, schedule, Idle, Busy
<1>7. CASE MuxSendEnd(d, s)
    BY <1>1, <1>7, MuxSendEndDoes, MovedStill DEF At, Calm, schedule, Idle, Busy
<1>8. CASE s = Copied /\ MuxSent(d, s, "read", "exit")
    <2>1. s = 1 /\ d \notin Workers
        BY <1>8, Names
    <2>2. pc[d] = "sent" /\ Goto(d, "read") /\ hand' = hand /\ fifo' = fifo
          /\ Update(d, [lastDts EXCEPT ![s] = DtsEnd(s, hand[d])], sourceFinished, exited)
        BY <1>8, <2>1 DEF MuxSent, Update, Open, queues
    <2>3. Moved(d, {"read"}) /\ SameQueues
        BY <1>1, <2>2, GotoMoved DEF SameQueues, Typed
    <2> QED
        BY <2>1, <2>2, <2>3, VideoSentCore
<1> QED
    BY <1>2, <1>3, <1>4, <1>5, <1>6, <1>7, <1>8 DEF Demuxer

LEMMA WorkerCore ==
    ASSUME Typed, Core, Early, Open, Open', NEW w \in Workers, Worker(w)
    PROVE  Core'
<1>1. w \in Movers /\ w \in Threads /\ Coded = 2 /\ Coded \in Streams
    BY Apart, Names DEF Movers
<1>2. CASE WorkerReceive(w) \/ WorkerSend(w)
    BY <1>2, ReceiveCore, WorkerSendCore DEF Early
<1>3. CASE WorkerFinish(w)
    <2>1. PICK l \in {"exit", "close"} : Goto(w, l)
        BY <1>3 DEF WorkerFinish
    <2>2. /\ pc[w] = "finish" /\ scheduleLock # w /\ hand' = hand /\ fifo' = fifo /\ Calm
        BY <1>3 DEF WorkerFinish, At, tq_receive_finish, schedule, Calm
    <2>3. Moved(w, {l}) /\ SameQueues
        BY <1>1, <2>1, <2>2, GotoMoved DEF SameQueues, Typed
    <2> QED
        BY <1>1, <2>2, <2>3, MovedStill DEF Idle, Busy
<1>4. CASE WorkerClose(w)
    <2>1. PICK l \in {"exit", "finish"} : Goto(w, l)
        BY <1>4 DEF WorkerClose, AfterClose
    <2>2. /\ pc[w] = "close" /\ scheduleLock # w /\ hand' = hand /\ fifo' = fifo
          /\ Update(w, lastDts, sourceFinished, exited) \/ UNCHANGED schedule
        BY <1>4 DEF WorkerClose, At, tq_send_finish
    <2>3. Moved(w, {l}) /\ SameQueues /\ Calm
        BY <1>1, <2>1, <2>2, GotoMoved, CalmUpdate DEF SameQueues, Typed, schedule, Calm
    <2> QED
        BY <1>1, <2>2, <2>3, MovedStill DEF Idle, Busy
<1>5. CASE WorkerExit(w)
    <2>1. /\ pc[w] = "exit" /\ scheduleLock # w /\ hand' = hand /\ fifo' = fifo /\ Goto(w, "done")
          /\ Update(w, lastDts, sourceFinished, exited) \/ UNCHANGED schedule
        BY <1>5 DEF WorkerExit, At, queues
    <2>2. Moved(w, {"done"}) /\ SameQueues /\ Calm
        BY <1>1, <2>1, GotoMoved, CalmUpdate DEF SameQueues, Typed, schedule, Calm
    <2> QED
        BY <1>1, <2>1, <2>2, MovedStill DEF Idle, Busy
<1>6. CASE ApplyChange(w)
    BY <1>1, <1>6, ApplyCore
<1>7. CASE MuxSend(w, Coded)
    BY <1>1, <1>7, MuxSendDoes, MovedStill DEF At, Calm, schedule, Idle, Busy
<1>8. CASE MuxSendEnd(w, Coded)
    BY <1>1, <1>8, MuxSendEndDoes, MovedStill DEF At, Calm, schedule, Idle, Busy
<1>9. CASE w = "enc" /\ MuxSent(w, Coded, "receive", AfterClose(w))
    <2>1. /\ pc[w] = "sent" /\ Goto(w, "receive") /\ hand' = [hand EXCEPT ![w] = 0] /\ fifo' = fifo
          /\ Update(w, [lastDts EXCEPT ![2] = DtsEnd(2, hand[w])], sourceFinished, exited)
        BY <1>1, <1>9 DEF MuxSent, Update, Open, queues
    <2>2. Moved(w, {"receive"}) /\ SameQueues
        BY <1>1, <2>1, GotoMoved DEF SameQueues, Typed
    <2> QED
        BY <1>9, <2>1, <2>2, AudioSentCore
<1> QED
    BY <1>2, <1>3, <1>4, <1>5, <1>6, <1>7, <1>8, <1>9 DEF Worker

(* The filter starts the muxer. *)
LEMMA StartCore ==
    ASSUME Typed, Core, OpenEncoder \/ FlushPremux \/ MuxStarted
    PROVE  Core'
<1>1. /\ "filter" \in Movers /\ "filter" \in Threads /\ "mux" \in Threads /\ "filter" # "mux"
      /\ Calm /\ hand' = hand /\ scheduleLock # "filter"
    BY Names, AreMovers DEF OpenEncoder, FlushPremux, MuxStarted, At, schedule, Calm
<1>2. CASE OpenEncoder
    <2>1. /\ pc["filter"] = "open" /\ fifo' = fifo
          /\ pc' = [pc EXCEPT !["filter"] = "flush", !["mux"] = "receive"]
        BY <1>2 DEF OpenEncoder, At, queues
    <2>2. \A t \in Movers \ {"filter"} : pc'[t] = pc[t]
        BY <2>1, Apart DEF Typed
    <2>3. pc'["filter"] = "flush" /\ SameQueues
        BY <1>1, <2>1 DEF Typed, SameQueues
    <2>4. \A t \in Movers : Moves(t)
        BY <1>1, <2>1, <2>2, <2>3 DEF Moves, Busy
    <2>5. Passed(1)' = Passed(1) /\ Passed(2)' = Passed(2)
        BY <1>1, <2>2, AreMovers, Apart, AreWorkers DEF Passed
    <2>6. pc'["enc"] = pc["enc"] /\ pc'[Demux[1]] = pc[Demux[1]]
        BY <2>2, AreMovers, Apart, AreWorkers
    <2> QED
        BY <1>1, <2>3, <2>4, <2>5, <2>6, Still DEF Core, Gates
<1>3. CASE FlushPremux
    <2>1. pc' = pc
        BY <1>3 DEF FlushPremux
    <2>2. \/ fifo' = fifo
          \/ \E x : fifo' = [fifo EXCEPT !["mux"] = Append(@, x)]
        BY <1>3 DEF FlushPremux, tq_send_finish, Refuse, Put, queues
    <2>3. SameQueues
        BY <2>2, Names DEF Typed, SameQueues
    <2> QED
        BY <1>1, <2>1, <2>3, ElsewhereStill
<1>4. CASE MuxStarted
    <2>1. pc["filter"] = "flush" /\ fifo' = fifo /\ Goto("filter", "send")
        BY <1>4 DEF MuxStarted, At, queues
    <2>2. Moved("filter", {"send"}) /\ SameQueues
        BY <1>1, <2>1, GotoMoved DEF SameQueues, Typed
    <2> QED
        BY <1>1, <2>1, <2>2, MovedStill DEF Idle, Busy
<1> QED
    BY <1>2, <1>3, <1>4

LEMMA MuxerCore ==
    ASSUME Typed, Core, Open, Open', Muxer
    PROVE  Core'
<1>1. "mux" \in Threads /\ "mux" \notin Movers /\ "mux" \notin Workers
    BY Names, Apart
<1>2. CASE ApplyChange("mux")
    BY <1>1, <1>2, ApplyCore
<1>3. CASE MuxPacket \/ MuxEnd \/ MuxDone
    <2>1. Calm /\ hand' = hand
        <3>1. CASE MuxPacket \/ MuxEnd
            BY <3>1 DEF MuxPacket, MuxEnd, schedule, Calm
        <3>2. CASE MuxDone
            <4>1. Streams # {}
                BY Names
            <4> QED
                BY <3>2, <4>1 DEF MuxDone, Update, Open, schedule, Calm
        <3> QED
            BY <1>3, <3>1, <3>2
    <2>2. \E l : Goto("mux", l)
        BY <1>3 DEF MuxPacket, MuxEnd, MuxDone, Write
    <2>3. \A t \in Movers : pc'[t] = pc[t]
        BY <1>1, <2>2, GotoMoved, Apart DEF Moved
    <2>4. fifo' = fifo \/ fifo' = [fifo EXCEPT !["mux"] = Tail(@)]
        BY <1>3 DEF MuxPacket, MuxEnd, MuxDone, tq_receive_finish, queues
    <2>5. SameQueues
        BY <1>1, <2>4, Names DEF SameQueues, Typed
    <2> QED
        BY <2>1, <2>3, <2>5, ElsewhereStill
<1> QED
    BY <1>2, <1>3 DEF Muxer

LEMMA MainCore ==
    ASSUME Typed, Core, Early, Open, Open', Main
    PROVE  Core' /\ pc'["main"] \in {"start", "wait"} /\ dstFinished' = dstFinished
<1>1. "main" \in Threads /\ "main" \notin Movers /\ pc["main"] \in {"start", "wait"}
    BY Names, Apart DEF Early
<1>2. CASE ApplyChange("main")
    BY <1>1, <1>2, ApplyCore DEF ApplyChange
<1>3. CASE MainStart
    <2>1. Goto("main", "wait") /\ hand' = hand /\ fifo' = fifo /\ dstFinished' = dstFinished
          /\ Update("main", lastDts, sourceFinished, exited)
        BY <1>3 DEF MainStart, queues
    <2>2. Moved("main", {"wait"}) /\ SameQueues /\ Calm
        BY <1>1, <2>1, GotoMoved, CalmUpdate DEF SameQueues, Typed
    <2>3. \A t \in Movers : pc'[t] = pc[t]
        BY <1>1, <2>2, Apart DEF Moved
    <2> QED
        BY <2>1, <2>2, <2>3, ElsewhereStill DEF Moved
<1>4. CASE MainTerminate
    BY <1>4 DEF MainTerminate, Open
<1>5. CASE MainChoke \/ MainDrain \/ MainJoin
    BY <1>1, <1>5 DEF MainChoke, MainDrain, MainJoin, At
<1> QED
    BY <1>2, <1>3, <1>4, <1>5 DEF Main

LEMMA FailCore ==
    ASSUME Typed, Core, NEW t \in Failing, Fail(t)
    PROVE  Core'
<1>1. t \in Threads /\ (t \in Movers \/ t = "mux")
    BY BoundsAssumption, Names DEF Movers
<1>2. /\ Goto(t, "finish") \/ Goto(t, "close")
      /\ hand' = hand /\ fifo' = fifo /\ Calm
      /\ t # "mux" => pc[t] = "send" /\ scheduleLock # t
    BY DEF Fail, At, queues, schedule, Calm
<1>3. Moved(t, {"finish", "close"}) /\ SameQueues
    BY <1>1, <1>2, GotoMoved DEF SameQueues, Typed, Moved
<1>4. CASE t = "mux"
    <2>1. \A u \in Movers : pc'[u] = pc[u]
        BY <1>3, <1>4, Apart DEF Moved
    <2> QED
        BY <1>2, <1>3, <2>1, ElsewhereStill
<1>5. CASE t # "mux"
    BY <1>1, <1>2, <1>3, <1>5, MovedStill DEF Idle, Busy
<1> QED
    BY <1>4, <1>5

LEMMA UpdateSource ==
    ASSUME NEW t, NEW dts, NEW fin, NEW gone, Update(t, dts, fin, gone)
    PROVE  sourceFinished' = fin
BY DEF Update

(* What has ended stays so. *)
LEMMA Onward ==
    ASSUME Typed, Next
    PROVE  Open' => Open
<1> SUFFICES ASSUME Open' PROVE sourceFinished = {} /\ ~terminate
    BY DEF Open
<1>1. /\ sourceFinished' = {} /\ ~terminate' /\ sourceFinished \subseteq Streams
    BY DEF Open, Typed
<1>2. ASSUME NEW s \in Streams, Demuxer(s) PROVE sourceFinished = {} /\ ~terminate
    BY <1>1, <1>2 DEF Demuxer, DemuxRead, DemuxWait, DemuxExit, ApplyChange, DecoderSend, MuxSend,
           MuxSendEnd, MuxSent, Premux, Update, schedule, stopping
<1>3. ASSUME NEW w \in Workers, Worker(w) PROVE sourceFinished = {} /\ ~terminate
    <2>1. CASE WorkerReceive(w) \/ WorkerSend(w) \/ WorkerFinish(w)
        <3>1. UNCHANGED <<schedule, stopping>>
            BY <2>1 DEF WorkerReceive, WorkerSend, WorkerFinish
        <3> QED
            BY <1>1, <3>1 DEF schedule, stopping
    <2>5. CASE ApplyChange(w)
        BY <1>1, <2>5 DEF ApplyChange, stopping
    <2>2. CASE WorkerClose(w) \/ WorkerExit(w)
        BY <1>1, <2>2, UpdateSource DEF WorkerClose, WorkerExit, schedule, stopping
    <2>3. CASE MuxSend(w, Coded) \/ MuxSendEnd(w, Coded)
        BY <1>1, <2>3 DEF MuxSend, MuxSendEnd, Premux, schedule, stopping
    <2>4. CASE MuxSent(w, Coded, "receive", AfterClose(w))
        BY <1>1, <2>4, UpdateSource DEF MuxSent, stopping
    <2> QED
        BY <1>3, <2>1, <2>2, <2>3, <2>4, <2>5 DEF Worker
<1>4. CASE OpenEncoder \/ FlushPremux \/ MuxStarted
    BY <1>1, <1>4 DEF OpenEncoder, FlushPremux, MuxStarted, schedule, stopping
<1>5. CASE Muxer
    <2>1. Streams # {}
        BY Names
    <2> QED
        BY <1>1, <1>5, <2>1 DEF Muxer, MuxPacket, MuxEnd, MuxDone, ApplyChange, Update, schedule, stopping
<1>6. CASE Main
    <2>1. CASE MainStart
        BY <1>1, <2>1, UpdateSource DEF MainStart, stopping
    <2>2. CASE MainTerminate
        BY <1>1, <2>2 DEF MainTerminate
    <2>3. CASE MainChoke
        BY <1>1, <2>3 DEF MainChoke, stopping
    <2>4. CASE MainDrain \/ MainJoin
        <3>1. UNCHANGED <<schedule, stopping>>
            BY <2>4 DEF MainDrain, MainJoin
        <3> QED
            BY <1>1, <3>1 DEF schedule, stopping
    <2>5. CASE ApplyChange("main")
        BY <1>1, <2>5 DEF ApplyChange, stopping
    <2> QED
        BY <1>6, <2>1, <2>2, <2>3, <2>4, <2>5 DEF Main
<1>7. ASSUME NEW t \in Failing, Fail(t) PROVE sourceFinished = {} /\ ~terminate
    BY <1>1, <1>7 DEF Fail, schedule
<1> QED
    BY <1>2, <1>3, <1>4, <1>5, <1>6, <1>7, AreWorkers DEF Next, Filter

LEMMA EarlyNext ==
    ASSUME Typed, Early, Open, Open', Next, ~Main
    PROVE  Early'
<1>1. pc["main"] \in {"start", "wait"} /\ "enc" \notin dstFinished
    BY DEF Early
<1>2. /\ "main" \notin Movers /\ "main" # "mux" /\ "main" \in Threads /\ "mux" \in Threads
      /\ "filter" \in Threads /\ "main" # "filter"
    BY Names, Apart
<1>3. \A t \in Movers \union {"mux"} : \A l : Goto(t, l) => pc'["main"] = pc["main"]
    BY <1>2 DEF Goto, Typed
<1>4. ASSUME NEW s \in Streams, Demuxer(s)
      PROVE  pc'["main"] = pc["main"] /\ dstFinished' = dstFinished
    <2> DEFINE d == Demux[s]
    <2>1. d \in Movers /\ d \notin Workers /\ Demux[Coded] \in Movers
        BY Names, Apart
    <2>2. dstFinished' = dstFinished
        BY <1>4, <2>1 DEF Demuxer, DemuxRead, DemuxWait, DemuxExit, ApplyChange, DecoderSend, MuxSend,
               MuxSendEnd, MuxSent, Premux
    <2>3. pc' = pc \/ \E l : Goto(d, l)
        BY <1>4 DEF Demuxer, DemuxRead, DemuxWait, DemuxExit, ApplyChange, DecoderSend, SendTo, MuxSend,
               MuxSendEnd, MuxSent, Premux
    <2> QED
        BY <1>3, <2>1, <2>2, <2>3
<1>5. ASSUME NEW w \in Workers, Worker(w)
      PROVE  pc'["main"] = pc["main"] /\ "enc" \notin dstFinished'
    <2>1. w \in Movers
        BY DEF Movers
    <2>2. CASE w = "enc" /\ MuxSent(w, Coded, "receive", AfterClose(w))
        <3>1. pc[w] = "sent" /\ Goto(w, "receive") /\ dstFinished' = dstFinished
            BY <2>2 DEF MuxSent, Update, Open
        <3> QED
            BY <1>1, <1>3, <2>1, <3>1
    <2>3. CASE ~(w = "enc" /\ MuxSent(w, Coded, "receive", AfterClose(w)))
        <3>1. dstFinished' = dstFinished \/ (w # "enc" /\ dstFinished' = dstFinished \union {w})
            BY <1>5, <2>3 DEF Worker, WorkerReceive, WorkerSend, WorkerFinish, WorkerClose, WorkerExit,
                   ApplyChange, MuxSend, MuxSendEnd, Premux
        <3>2. pc' = pc \/ \E l : Goto(w, l)
            BY <1>5, <2>3 DEF Worker, WorkerReceive, WorkerSend, WorkerFinish, WorkerClose, WorkerExit,
                   ApplyChange, SendTo, MuxSend, MuxSendEnd, Premux
        <3> QED
            BY <1>1, <1>3, <2>1, <3>1, <3>2
    <2> QED
        BY <2>2, <2>3
<1>6. CASE OpenEncoder \/ FlushPremux \/ MuxStarted
    BY <1>1, <1>2, <1>6 DEF OpenEncoder, FlushPremux, MuxStarted, Goto, Typed, Early
<1>7. CASE Muxer
    <2>1. dstFinished' = dstFinished
        BY <1>7 DEF Muxer, MuxPacket, MuxEnd, MuxDone, ApplyChange
    <2>2. pc' = pc \/ \E l : Goto("mux", l)
        BY <1>7 DEF Muxer, MuxPacket, MuxEnd, MuxDone, ApplyChange, Write
    <2> QED
        BY <1>1, <1>3, <2>1, <2>2 DEF Early
<1>8. ASSUME NEW t \in Failing, Fail(t)
      PROVE  pc'["main"] = pc["main"] /\ dstFinished' = dstFinished
    <2>1. t \in Movers \/ t = "mux"
        BY BoundsAssumption, Names DEF Movers
    <2> QED
        BY <1>3, <1>8, <2>1 DEF Fail
<1> QED
    BY <1>1, <1>4, <1>5, <1>6, <1>7, <1>8, AreWorkers DEF Next, Filter, Early

LEMMA CoreNext ==
    Typed /\ (Open => Core) /\ Early /\ [Next]_vars => (Open => Core)' /\ Early'
<1> SUFFICES ASSUME Typed, Open => Core, Early, [Next]_vars, Open'
             PROVE  Core' /\ Early'
    BY DEF Early
<1>1. CASE UNCHANGED vars
    <2>1. /\ Open /\ Calm /\ fifo' = fifo /\ hand' = hand /\ pc' = pc /\ dstFinished' = dstFinished
        BY <1>1 DEF vars, schedule, stopping, queues, Open, Calm
    <2>2. SameQueues
        BY <2>1 DEF SameQueues, Typed
    <2> QED
        BY <2>1, <2>2, ElsewhereStill DEF Early
<1>2. CASE Next
    <2>1. Open /\ Core
        BY <1>2, Onward
    <2>2. CASE Main
        BY <2>1, <2>2, MainCore DEF Early
    <2>3. CASE ~Main
        <3>1. Early'
            BY <1>2, <2>1, <2>3, EarlyNext
        <3>2. Core'
            BY <1>2, <2>1, <2>3, DemuxerCore, WorkerCore, StartCore, MuxerCore, FailCore, AreWorkers
               DEF Next, Filter
        <3> QED
            BY <3>1, <3>2
    <2> QED
        BY <2>2, <2>3
<1> QED
    BY <1>1, <1>2

(* The inductive invariant. *)
THEOREM Invariant == Spec => [](Typed /\ (Open => Core) /\ Early)
<1>1. Init => Typed /\ (Open => Core) /\ Early
    BY InitTyped, InitCore
<1>2. Typed /\ (Open => Core) /\ Early /\ [Next]_vars => (Typed /\ (Open => Core) /\ Early)'
    BY TypedNext, CoreNext
<1> QED
    BY <1>1, <1>2, PTL DEF Spec

(* For inputs, packets and queues of any size no stream runs away from the other: the
   demuxer of the one ahead is held back, from far away and late as it may be. *)
THEOREM BalancedAlways == Spec => []Balanced
<1>1. Typed /\ (Open => Core) => Balanced
    <2> SUFFICES ASSUME Typed, Open => Core, ~terminate,
                        NEW s \in Streams \ sourceFinished, NEW r \in Streams \ sourceFinished
                 PROVE  lastDts[s] - lastDts[r] <= Tolerance - 1 + UnderWay[s] * Duration[s]
        BY DEF Balanced
    <2>1. /\ UnderWay[1] = 1 /\ UnderWay[2] = 4 + 3 * QueueSize
          /\ (s = 1 \/ s = 2) /\ (r = 1 \/ r = 2)
        BY Names DEF UnderWay
    <2>2. /\ Slack(1) = Tolerance - 1 + UnderWay[1] * Duration[1]
          /\ Slack(2) + DtsEnd(2, Room) = Tolerance - 1 + UnderWay[2] * Duration[2]
          /\ DtsEnd(2, Room) \in Nat
        <3>1. UnderWay[2] * Duration[2] = Duration[2] + Room * Duration[2]
            BY <2>1, Numbers
        <3>2. DtsEnd(2, Room) = Room * Duration[2] /\ DtsEnd(2, Room) \in Nat
            BY Numbers, Times DEF DtsEnd
        <3>3. UnderWay[1] * Duration[1] = Duration[1]
            BY <2>1, Numbers
        <3> QED
            BY <3>1, <3>2, <3>3, Numbers
    <2>3. lastDts[1] \in Nat /\ lastDts[2] \in Nat
        BY Numbers DEF Typed
    <2>4. CASE s = r
        <3>1. lastDts[s] - lastDts[r] = 0
            BY <2>1, <2>3, <2>4
        <3>2. 0 <= Slack(1) /\ 0 <= Slack(2) + DtsEnd(2, Room)
            BY <2>2, Numbers
        <3> QED
            BY <2>1, <2>2, <3>1, <3>2
    <2>5. CASE s # r
        <3>1. sourceFinished = {}
            <4>1. 1 \notin sourceFinished /\ 2 \notin sourceFinished
                BY <2>1, <2>5
            <4> QED
                BY <4>1, Names DEF Typed
        <3>2. Core
            BY <3>1 DEF Open
        <3> QED
            BY <2>1, <2>2, <2>5, <3>2, CoreBalanced
    <2> QED
        BY <2>4, <2>5
<1> QED
    BY <1>1, Invariant, PTL

-----------------------------------------------------------------------------
(* The muxer's sync queue *)

LEMMA Least ==
    ASSUME NEW S, S \subseteq Nat, S # {}
    PROVE  Min(S) \in S /\ \A y \in S : Min(S) <= y
<1>1. PICK m \in S : \A y \in S : ~ (<<y, m>> \in OpToRel(<, Nat))
    BY NatLessThanWellFounded, WFMin
<1>2. \A y \in S : ~ (y < m)
    BY <1>1 DEF OpToRel
<1>3. \A y \in S : m <= y
    BY <1>2
<1> QED
    BY <1>3 DEF Min

(* The ends of packets, and of none. *)
Stamps == Nat \union {-1}

LEMMA TwoStreams == Stream = {1, 2} /\ Streams = {1, 2} /\ NoStream = 0 /\ NoPts = -1
BY DEF Stream, Streams, Copied, Coded, NoStream, NoPts

LEMMA QueueType ==
    ASSUME NEW x, x \in SyncQueueType
    PROVE  /\ x.fifo \in [Streams -> Seq(Nat)] /\ x.head \in [Streams -> Stamps]
           /\ x.tb \in [Streams -> {1}] /\ x.finished \subseteq Streams
           /\ x.headStream \in Streams \union {0} /\ x.headFinished \in Streams \union {0}
           /\ x.head[1] \in Stamps /\ x.head[2] \in Stamps
<1>1. /\ x.fifo \in [Stream -> Seq(Nat)] /\ x.head \in [Stream -> Nat \union {NoPts}]
      /\ x.tb \in [Stream -> 1 .. 1] /\ x.finished \subseteq Stream
      /\ x.headStream \in Streams \union {NoStream} /\ x.headFinished \in Streams \union {NoStream}
    BY DEF SyncQueueType
<1>2. 1 .. 1 = {1}
    OBVIOUS
<1> QED
    BY <1>1, <1>2, TwoStreams DEF Stamps

LEMMA QueueOf ==
    ASSUME NEW f \in [Streams -> Seq(Nat)], NEW h \in [Streams -> Stamps], NEW e \in SUBSET Streams,
           NEW a \in Streams \union {0}, NEW b \in Streams \union {0}
    PROVE  [fifo |-> f, head |-> h, tb |-> [s \in Streams |-> 1], finished |-> e,
            headStream |-> a, headFinished |-> b] \in SyncQueueType
<1>1. [s \in Streams |-> 1] \in [Streams -> 1 .. 1]
    OBVIOUS
<1> QED
    BY <1>1, TwoStreams DEF SyncQueueType, Stamps

(* The head of the queue is a stream that is not ahead of the other one, as soon as
   both have a time stamp. *)
HeadOK(x) ==
    IF x.headStream = 0 THEN \E s \in Streams : x.head[s] = -1
    ELSE \A s \in Streams : x.head[x.headStream] <= x.head[s]

(* Only streams that have ended, and those that have come as far, are finished. *)
EndedOK(x, e) ==
    /\ x.headFinished # 0 => x.headFinished \in e
    /\ \A s \in x.finished :
        s \in e \/ (x.headFinished # 0 /\ x.head[x.headFinished] <= x.head[s])

LEMMA FinishDoes ==
    ASSUME NEW x, x \in SyncQueueType, NEW s \in Streams
    PROVE  LET y == finish_stream(x, s)
           IN  /\ y \in SyncQueueType
               /\ y.fifo = x.fifo /\ y.head = x.head /\ y.headStream = x.headStream
               /\ \A e : EndedOK(x, e) => EndedOK(y, e \union {s})
               /\ \A e : EndedOK(x, e) /\ x.headFinished # 0 /\ s \notin e
                           /\ x.head[x.headFinished] <= x.head[s] => EndedOK(y, e)
<1> DEFINE y == finish_stream(x, s)
           limits == s \in Streams /\ x.head[s] # NoPts
           first == x.headFinished = NoStream \/ x.head[s] < x.head[x.headFinished]
           hf == IF limits /\ first THEN s ELSE x.headFinished
           past == {r \in Stream \ {hf} : x.head[r] # NoPts /\ x.head[hf] <= x.head[r]}
           fin == x.finished \union {s} \union (IF limits THEN past ELSE {})
<1>1. /\ x.fifo \in [Streams -> Seq(Nat)] /\ x.head \in [Streams -> Stamps]
      /\ x.finished \subseteq Streams
      /\ x.headStream \in Streams \union {0} /\ x.headFinished \in Streams \union {0}
    BY QueueType
<1>2. y = [x EXCEPT !.headFinished = hf, !.finished = fin]
    BY DEF finish_stream
<1>3. past \subseteq Streams
    BY TwoStreams
<1>4. fin \subseteq Streams /\ hf \in Streams \union {0}
    BY <1>1, <1>3
<1> HIDE DEF past, fin, hf
<1>5. /\ y.headFinished = hf /\ y.finished = fin
      /\ y.fifo = x.fifo /\ y.head = x.head /\ y.headStream = x.headStream
      /\ y \in SyncQueueType
    BY <1>2, <1>4, TwoStreams DEF SyncQueueType
<1> HIDE DEF y
<1> USE DEF hf
<1>6. ASSUME NEW r \in fin, r # s, r \notin x.finished
      PROVE  hf # 0 /\ x.head[hf] <= x.head[r]
    <2>1. limits /\ r \in past
        BY <1>6 DEF fin
    <2> QED
        BY <1>1, <2>1, TwoStreams DEF past
<1>0. \A r \in Streams : x.head[r] \in Int
    BY <1>1 DEF Stamps
<1>7. \A r \in Streams : x.headFinished # 0 /\ x.head[x.headFinished] <= x.head[r]
                            => hf # 0 /\ x.head[hf] <= x.head[r]
    BY <1>0, <1>1, TwoStreams
<1>8. ASSUME NEW e, EndedOK(x, e) PROVE EndedOK(y, e \union {s})
    <2>1. y.headFinished # 0 => y.headFinished \in e \union {s}
        BY <1>5, <1>8 DEF EndedOK
    <2>2. ASSUME NEW r \in y.finished
          PROVE  r \in e \union {s} \/ (hf # 0 /\ x.head[hf] <= x.head[r])
        <3>1. CASE r \in x.finished
            BY <1>1, <1>7, <1>8, <3>1 DEF EndedOK
        <3>2. CASE r \notin x.finished /\ r # s
            BY <1>5, <1>6, <3>2
        <3> QED
            BY <3>1, <3>2
    <2> QED
        BY <1>5, <2>1, <2>2 DEF EndedOK
<1>9. ASSUME NEW e, EndedOK(x, e), x.headFinished # 0, s \notin e,
             x.head[x.headFinished] <= x.head[s]
      PROVE  EndedOK(y, e)
    <2>1. hf = x.headFinished
        BY <1>0, <1>1, <1>9, TwoStreams
    <2>2. ASSUME NEW r \in y.finished
          PROVE  r \in e \/ (hf # 0 /\ x.head[hf] <= x.head[r])
        <3>1. CASE r \in x.finished
            BY <1>1, <1>7, <1>9, <3>1 DEF EndedOK
        <3>2. CASE r \notin x.finished /\ r # s
            BY <1>5, <1>6, <3>2
        <3>3. CASE r = s
            BY <1>9, <2>1, <3>3
        <3> QED
            BY <3>1, <3>2, <3>3
    <2> QED
        BY <1>5, <1>9, <2>1, <2>2 DEF EndedOK
<1> QED
    BY <1>5, <1>8, <1>9 DEF y

LEMMA TrailingIs ==
    ASSUME NEW x, x \in SyncQueueType
    PROVE  /\ Min(Trailing(x)) \in Streams
           /\ \A s \in Streams : x.head[Min(Trailing(x))] <= x.head[s]
<1>1. x.head[1] \in Int /\ x.head[2] \in Int
    BY QueueType DEF Stamps
<1>2. Trailing(x) = {s \in Streams : \A r \in Streams : x.head[s] <= x.head[r]}
    BY DEF Trailing
<1>3. Trailing(x) \subseteq Nat /\ Trailing(x) # {}
    <2>1. 1 \in Trailing(x) \/ 2 \in Trailing(x)
        BY <1>1, <1>2, TwoStreams
    <2> QED
        BY <1>2, <2>1, TwoStreams
<1> QED
    BY <1>2, <1>3, Least

LEMMA HeadUpdateDoes ==
    ASSUME NEW x, x \in SyncQueueType
    PROVE  LET y == queue_head_update(x)
           IN  /\ y \in SyncQueueType /\ HeadOK(y)
               /\ y.fifo = x.fifo /\ y.head = x.head
               /\ y.finished = x.finished /\ y.headFinished = x.headFinished
<1> DEFINE y == queue_head_update(x)
           m == Min(Trailing(x))
<1>1. m \in Streams /\ \A s \in Streams : x.head[m] <= x.head[s]
    BY TrailingIs
<1>2. x.headStream \in Trailing(x) =>
          x.headStream \in Streams /\ \A s \in Streams : x.head[x.headStream] <= x.head[s]
    BY DEF Trailing
<1> HIDE DEF m
<1>3. CASE x.headStream = 0 /\ \E s \in Streams : x.head[s] = -1
    BY <1>3, TwoStreams DEF queue_head_update, HeadOK
<1>4. CASE x.headStream \in Trailing(x)
    <2>1. y = x
        BY <1>4 DEF queue_head_update
    <2> QED
        BY <1>2, <1>4, <2>1, TwoStreams DEF HeadOK
<1>5. CASE ~(x.headStream = 0 /\ \E s \in Streams : x.head[s] = -1) /\ x.headStream \notin Trailing(x)
    <2>1. y = [x EXCEPT !.headStream = m]
        BY <1>5, TwoStreams DEF queue_head_update, m
    <2>2. /\ y \in SyncQueueType /\ y.headStream = m /\ y.head = x.head
          /\ y.fifo = x.fifo /\ y.finished = x.finished /\ y.headFinished = x.headFinished
        BY <1>1, <2>1, TwoStreams DEF SyncQueueType
    <2> QED
        BY <1>1, <2>2, TwoStreams DEF HeadOK
<1> QED
    BY <1>3, <1>4, <1>5

(* What a packet does to the queue. *)
LEMMA SendDoes ==
    ASSUME NEW x, x \in SyncQueueType, NEW s \in Streams, NEW ts \in Nat
    PROVE  LET y == sq_send(x, s, ts)
           IN  /\ y \in SyncQueueType
               /\ y.fifo = [x.fifo EXCEPT ![s] = Append(@, ts)]
               /\ y.head = [x.head EXCEPT ![s] = IF x.head[s] < ts THEN ts ELSE x.head[s]]
               /\ HeadOK(x) => HeadOK(y)
               /\ \A e : EndedOK(x, e) /\ s \notin e => EndedOK(y, e)
<1> DEFINE y == sq_send(x, s, ts)
           f == [x.fifo EXCEPT ![s] = Append(@, ts)]
           b == [x.tb EXCEPT ![s] = 1]
           z == [x EXCEPT !.tb = b, !.fifo = f]
           h == [x.head EXCEPT ![s] = ts]
           seen == [z EXCEPT !.head = h]
           cuts == z.headFinished # NoStream /\ z.head[z.headFinished] <= ts
           cut == IF cuts THEN finish_stream(seen, s) ELSE seen
<1>1. /\ x.fifo \in [Streams -> Seq(Nat)] /\ x.head \in [Streams -> Stamps]
      /\ x.tb \in [Streams -> {1}] /\ x.finished \subseteq Streams
      /\ x.headStream \in Streams \union {0} /\ x.headFinished \in Streams \union {0}
    BY QueueType
<1>2. /\ f \in [Streams -> Seq(Nat)] /\ h \in [Streams -> Stamps]
      /\ b \in [Streams -> 1 .. 1]
    BY <1>1 DEF Stamps
<1>3. /\ z \in SyncQueueType /\ z.fifo = f /\ z.head = x.head /\ z.finished = x.finished
      /\ z.headStream = x.headStream /\ z.headFinished = x.headFinished
    BY <1>2, TwoStreams DEF SyncQueueType
<1>4. y = stream_update_ts(z, s, ts)
    <2>1. [r \in Streams |-> 1][s] = 1
        OBVIOUS
    <2> QED
        BY <2>1, TwoStreams DEF sq_send
<1>5. /\ seen \in SyncQueueType /\ seen.fifo = f /\ seen.head = h /\ seen.finished = x.finished
      /\ seen.headStream = x.headStream /\ seen.headFinished = x.headFinished
    BY <1>2, <1>3, TwoStreams DEF SyncQueueType, Stamps
<1>6. y = IF ts <= z.head[s] THEN z
          ELSE IF s \in Streams /\ z.headStream \in {NoStream, s}
               THEN queue_head_update(cut) ELSE cut
    BY <1>4 DEF stream_update_ts
<1>0. x.head[s] \in Stamps /\ (ts <= x.head[s] <=> ~(x.head[s] < ts))
    BY <1>1 DEF Stamps
<1> HIDE DEF f, h, b, z, y, seen
<1>7. CASE ts <= x.head[s]
    <2>1. y = z
        BY <1>3, <1>6, <1>7
    <2>2. [x.head EXCEPT ![s] = IF x.head[s] < ts THEN ts ELSE x.head[s]] = x.head
        BY <1>0, <1>1, <1>7
    <2>3. HeadOK(x) => HeadOK(z)
        BY <1>3 DEF HeadOK
    <2>4. \A e : EndedOK(x, e) => EndedOK(z, e)
        BY <1>3 DEF EndedOK
    <2> QED
        BY <1>3, <2>1, <2>2, <2>3, <2>4 DEF f, y
<1>8. CASE x.head[s] < ts
    <2>0. [x.head EXCEPT ![s] = IF x.head[s] < ts THEN ts ELSE x.head[s]] = h
        BY <1>8 DEF h
    <2>1. /\ cut \in SyncQueueType /\ cut.fifo = f /\ cut.head = h /\ cut.headStream = x.headStream
          /\ \A e : EndedOK(x, e) /\ s \notin e => EndedOK(cut, e)
        <3>1. \A r \in Streams : h[r] = IF r = s THEN ts ELSE x.head[r]
            BY <1>1 DEF h
        <3>2. ASSUME NEW e, EndedOK(x, e), s \notin e PROVE EndedOK(seen, e)
            <4>1. x.headFinished # s
                BY <3>2, TwoStreams DEF EndedOK
            <4>2. \A r \in x.finished : r \in e \/ (x.headFinished # 0 /\ h[x.headFinished] <= h[r])
                <5> SUFFICES ASSUME NEW r \in x.finished, r \notin e
                             PROVE  x.headFinished # 0 /\ h[x.headFinished] <= h[r]
                    OBVIOUS
                <5>1. x.headFinished # 0 /\ x.head[x.headFinished] <= x.head[r]
                    BY <3>2 DEF EndedOK
                <5>2. x.headFinished \in Streams /\ r \in Streams
                    BY <1>1, <5>1
                <5>3. h[x.headFinished] = x.head[x.headFinished]
                    BY <3>1, <4>1, <5>2
                <5>4. x.head[r] <= h[r] /\ x.head[r] \in Stamps /\ x.head[x.headFinished] \in Stamps /\ h[r] \in Stamps
                    <6>1. x.head[r] \in Stamps /\ x.head[x.headFinished] \in Stamps /\ x.head[s] \in Stamps
                        BY <1>1, <5>2
                    <6>2. h[r] = IF r = s THEN ts ELSE x.head[r]
                        BY <3>1, <5>2
                    <6> QED
                        BY <1>8, <6>1, <6>2 DEF Stamps
                <5> QED
                    BY <5>1, <5>3, <5>4 DEF Stamps
            <4> QED
                BY <1>5, <3>2, <4>2 DEF EndedOK
        <3>3. CASE ~cuts
            BY <1>5, <3>2, <3>3
        <3>4. CASE cuts
            <4>1. x.headFinished # 0 /\ x.head[x.headFinished] <= ts
                BY <1>3, <3>4, TwoStreams
            <4>2. ASSUME NEW e, EndedOK(x, e), s \notin e PROVE seen.head[seen.headFinished] <= seen.head[s]
                <5>1. x.headFinished # s /\ x.headFinished \in Streams
                    BY <1>1, <4>1, <4>2 DEF EndedOK
                <5> QED
                    BY <1>5, <3>1, <4>1, <5>1
            <4>3. cut = finish_stream(seen, s)
                BY <3>4
            <4> QED
                BY <1>5, <3>2, <4>1, <4>2, <4>3, FinishDoes
        <3> QED
            BY <3>3, <3>4
    <2> HIDE DEF cut
    <2>2. CASE x.headStream \in {0, s}
        <3>1. y = queue_head_update(cut)
            BY <1>0, <1>1, <1>3, <1>6, <1>8, <2>2, TwoStreams
        <3>2. /\ y \in SyncQueueType /\ HeadOK(y) /\ y.fifo = cut.fifo /\ y.head = cut.head
              /\ y.finished = cut.finished /\ y.headFinished = cut.headFinished
            BY <2>1, <3>1, HeadUpdateDoes
        <3>3. \A e : EndedOK(cut, e) => EndedOK(y, e)
            BY <3>2 DEF EndedOK
        <3> QED
            BY <2>0, <2>1, <3>2, <3>3 DEF f, y
    <2>3. CASE x.headStream \notin {0, s}
        <3>1. y = cut
            BY <1>0, <1>1, <1>3, <1>6, <1>8, <2>3, TwoStreams
        <3>2. HeadOK(x) => HeadOK(y)
            <4>1. x.headStream # s /\ x.headStream # 0 /\ x.headStream \in Streams
                BY <1>1, <2>3
            <4>2. \A r \in Streams : x.head[r] \in Stamps /\ h[r] = IF r = s THEN ts ELSE x.head[r]
                BY <1>1 DEF h
            <4> QED
                BY <1>8, <2>1, <3>1, <4>1, <4>2 DEF HeadOK, Stamps
        <3> QED
            BY <2>0, <2>1, <3>1, <3>2 DEF f, y
    <2> QED
        BY <2>2, <2>3
<1> QED
    BY <1>0, <1>7, <1>8

(* How far packets are released. *)
Limit(x) == IF x.headStream = 0 THEN -1 ELSE x.head[x.headStream]

LEMMA DueIs ==
    ASSUME NEW x, x \in SyncQueueType, NEW s \in Streams
    PROVE  /\ Due(x, s) \in 0 .. Len(x.fifo[s])
           /\ Left(x, s, Due(x, s)) \in Seq(Nat)
           /\ Len(Left(x, s, Due(x, s))) = Len(x.fifo[s]) - Due(x, s)
           /\ \A i \in 1 .. Len(Left(x, s, Due(x, s))) : Left(x, s, Due(x, s))[i] = x.fifo[s][Due(x, s) + i]
           /\ \A i \in 1 .. Due(x, s) : x.headStream # 0 /\ x.fifo[s][i] <= Limit(x)
           /\ Due(x, s) < Len(x.fifo[s]) /\ x.headStream # 0 => Limit(x) < x.fifo[s][Due(x, s) + 1]
<1> DEFINE f == x.fifo[s]
           D == {n \in 0 .. Len(f) : ~Releasable([x EXCEPT !.fifo[s] = Left(x, s, n)], s)}
           d == Due(x, s)
<1>1. /\ x.fifo \in [Streams -> Seq(Nat)] /\ x.head \in [Streams -> Stamps]
      /\ x.headStream \in Streams \union {0} /\ f \in Seq(Nat) /\ Len(f) \in Nat
    BY QueueType
<1>2. ASSUME NEW n \in 0 .. Len(f)
      PROVE  /\ Left(x, s, n) \in Seq(Nat) /\ Len(Left(x, s, n)) = Len(f) - n
             /\ \A i \in 1 .. Len(f) - n : Left(x, s, n)[i] = f[n + i]
    <2>1. \A i \in n + 1 .. Len(f) : f[i] \in Nat
        BY <1>1
    <2>2. n + 1 \in Int /\ Len(f) \in Int
        BY <1>1
    <2>3. Left(x, s, n) = SubSeq(f, n + 1, Len(f))
        BY DEF Left
    <2>4. /\ Left(x, s, n) \in Seq(Nat)
          /\ Len(Left(x, s, n)) = IF n + 1 <= Len(f) THEN Len(f) - (n + 1) + 1 ELSE 0
          /\ \A i \in 1 .. Len(f) - (n + 1) + 1 : Left(x, s, n)[i] = f[(n + 1) + i - 1]
        BY <2>1, <2>2, <2>3, SubSeqProperties
    <2> QED
        BY <1>1, <2>4
<1>3. ASSUME NEW n \in 0 .. Len(f)
      PROVE  n \in D <=> ~(n < Len(f) /\ x.headStream # 0 /\ f[n + 1] <= Limit(x))
    <2> DEFINE z == [x EXCEPT !.fifo[s] = Left(x, s, n)]
    <2>1. z.fifo[s] = Left(x, s, n) /\ z.head = x.head /\ z.headStream = x.headStream
        BY <1>1 DEF SyncQueueType
    <2> HIDE DEF z
    <2>2. Left(x, s, n) # <<>> <=> n < Len(f)
        BY <1>1, <1>2
    <2>3. ASSUME n < Len(f) PROVE Head(Left(x, s, n)) = f[n + 1]
        <3>1. 1 \in 1 .. Len(f) - n
            BY <1>1, <2>3
        <3>2. Left(x, s, n)[1] = f[n + 1]
            BY <1>2, <3>1
        <3>3. Left(x, s, n) \in Seq(Nat) /\ Left(x, s, n) # <<>>
            BY <1>2, <2>2, <2>3
        <3> QED
            BY <3>2, <3>3, HeadTail
    <2>4. Releasable(z, s) <=> n < Len(f) /\ x.headStream # 0 /\ f[n + 1] <= Limit(x)
        <3>1. Streams # {}
            BY TwoStreams
        <3> QED
            BY <2>1, <2>2, <2>3, <3>1, TwoStreams DEF Releasable, Limit
    <2> QED
        BY <2>4 DEF z
<1> HIDE DEF D, f
<1>4. d = Min(D)
    BY DEF Due, D, f
<1>5. Len(f) \in D
    <2>1. Len(f) \in Nat
        BY <1>1
    <2>2. Len(f) \in 0 .. Len(f) /\ ~(Len(f) < Len(f))
        BY <2>1
    <2> QED
        BY <1>3, <2>2
<1>6. D \subseteq 0 .. Len(f)
    BY DEF D
<1>7. d \in D /\ (\A n \in D : d <= n)
    <2>1. D \subseteq Nat /\ D # {}
        BY <1>1, <1>5, <1>6
    <2>2. Min(D) \in D /\ \A n \in D : Min(D) <= n
        BY <2>1, Least
    <2> QED
        BY <1>4, <2>2
<1> HIDE DEF d
<1>8. d \in 0 .. Len(f)
    BY <1>6, <1>7
<1>9. ASSUME NEW i \in 1 .. d PROVE x.headStream # 0 /\ f[i] <= Limit(x)
    <2>1. i - 1 \in 0 .. Len(f) /\ i - 1 < d
        BY <1>1, <1>8
    <2>2. i - 1 \notin D
        BY <1>7, <1>8, <2>1
    <2> QED
        BY <1>3, <2>1, <2>2
<1>10. d < Len(f) /\ x.headStream # 0 => Limit(x) < f[d + 1]
    <2>1. Limit(x) \in Stamps
        BY <1>1 DEF Limit, Stamps
    <2>2. d < Len(f) => f[d + 1] \in Nat
        BY <1>1, <1>8
    <2> QED
        BY <1>3, <1>7, <1>8, <2>1, <2>2 DEF Stamps
<1> QED
    BY <1>1, <1>2, <1>8, <1>9, <1>10 DEF d, f

-----------------------------------------------------------------------------
(* Types of everything *)

Packet == [stream : Streams, n : 0 .. MaxPackets]

Handed ==
    /\ length \in [Streams -> 1 .. MaxPackets]
    /\ hand \in [Threads -> 0 .. MaxPackets]
    /\ \A s \in Streams : hand[Demux[s]] <= length[s]

Boxed ==
    /\ DOMAIN fifo = Queues
    /\ \A q \in Queues : fifo[q] \in Seq(Packet) /\ Len(fifo[q]) <= QueueSize
    /\ sendFinished \in [Queues -> SUBSET Streams]
    /\ recvFinished \in [Queues -> SUBSET Streams]

Parked == premux \in [Streams -> Seq(0 .. MaxPackets)]

Mixed == sq \in SyncQueueType /\ written \in [Streams -> Nat]

Shaped ==
    /\ DOMAIN pc = Threads
    /\ Handed /\ Boxed /\ Parked /\ Mixed
    /\ failing \in Failing \union {None}

LEMMA HandIs ==
    ASSUME Handed, NEW t \in Threads
    PROVE  hand[t] \in 0 .. MaxPackets /\ hand[t] \in Nat
BY BoundsAssumption DEF Handed

LEMMA InitShaped == Init => Shaped
<1> SUFFICES ASSUME Init PROVE Shaped
    OBVIOUS
<1>1. DOMAIN pc = Threads /\ failing = None
    BY DEF Init
<1>2. Handed
    <2>1. hand = [t \in Threads |-> 0] /\ length \in [Streams -> 1 .. MaxPackets]
        BY DEF Init
    <2>2. \A s \in Streams : Demux[s] \in Threads
        BY Names
    <2> QED
        BY <2>1, <2>2, BoundsAssumption DEF Handed
<1>3. Boxed
    <2>1. /\ fifo = [q \in Queues |-> <<>>]
          /\ sendFinished = [q \in Queues |-> {}] /\ recvFinished = [q \in Queues |-> {}]
        BY DEF Init
    <2>2. <<>> \in Seq(Packet) /\ Len(<<>>) <= QueueSize
        BY BoundsAssumption
    <2> QED
        BY <2>1, <2>2 DEF Boxed
<1>4. Parked
    <2>1. <<>> \in Seq(0 .. MaxPackets)
        OBVIOUS
    <2> QED
        BY <2>1 DEF Init, Parked
<1>5. Mixed
    <2>1. sq = sq_alloc /\ written = [s \in Streams |-> 0]
        BY DEF Init
    <2>2. <<>> \in Seq(Nat)
        OBVIOUS
    <2>3. [s \in Streams |-> <<>>] \in [Streams -> Seq(Nat)] /\ [s \in Streams |-> 0] \in [Streams -> Nat]
        BY <2>2
    <2>4. sq_alloc \in SyncQueueType
        <3>1. sq_alloc = [fifo |-> [s \in Streams |-> <<>>], head |-> [s \in Streams |-> -1],
                          tb |-> [s \in Streams |-> 1], finished |-> {}, headStream |-> 0,
                          headFinished |-> 0]
            BY TwoStreams DEF sq_alloc
        <3>2. [s \in Streams |-> -1] \in [Streams -> Stamps]
            BY DEF Stamps
        <3> QED
            BY <2>3, <3>1, <3>2, QueueOf
    <2> QED
        BY <2>1, <2>3, <2>4 DEF Mixed
<1> QED
    BY <1>1, <1>2, <1>3, <1>4, <1>5 DEF Shaped

LEMMA PutBoxed ==
    ASSUME Boxed, NEW q \in Queues, NEW s \in Streams, NEW n \in 0 .. MaxPackets,
           HasRoom(q), Put(q, s, n)
    PROVE  Boxed'
<1>1. /\ fifo' = [fifo EXCEPT ![q] = Append(@, [stream |-> s, n |-> n])]
      /\ sendFinished' = sendFinished /\ recvFinished' = recvFinished
    BY DEF Put
<1>2. DOMAIN fifo' = Queues /\ \A r \in Queues \ {q} : fifo'[r] = fifo[r]
    BY <1>1 DEF Boxed
<1>3. fifo'[q] \in Seq(Packet) /\ Len(fifo'[q]) <= QueueSize
    <2>1. fifo[q] \in Seq(Packet) /\ [stream |-> s, n |-> n] \in Packet /\ Len(fifo[q]) < QueueSize
        BY DEF Boxed, Packet, HasRoom
    <2>2. fifo'[q] = Append(fifo[q], [stream |-> s, n |-> n])
        BY <1>1 DEF Boxed
    <2> QED
        BY <2>1, <2>2, BoundsAssumption
<1> QED
    BY <1>1, <1>2, <1>3 DEF Boxed

LEMMA RefuseBoxed ==
    ASSUME Boxed, NEW q \in Queues, NEW s \in Streams, Refuse(q, s) \/ tq_send_finish(q, s)
    PROVE  Boxed'
BY DEF Refuse, tq_send_finish, Boxed

LEMMA ReceiveFinishBoxed ==
    ASSUME Boxed, NEW q \in Queues, NEW S \in SUBSET Streams, tq_receive_finish(q, S)
    PROVE  Boxed'
BY DEF tq_receive_finish, Boxed

LEMMA QueuesBoxed == ASSUME Boxed, UNCHANGED <<fifo, sendFinished, recvFinished>> PROVE Boxed'
BY DEF Boxed

LEMMA SendBoxed ==
    ASSUME Boxed, NEW t, NEW q \in Queues, NEW s \in Streams, NEW n \in 0 .. MaxPackets,
           NEW a, NEW b, SendTo(t, q, s, n, a, b)
    PROVE  Boxed'
BY PutBoxed, RefuseBoxed DEF SendTo

(* The first packet of a queue is taken out. *)
LEMMA TakeBoxed ==
    ASSUME Boxed, NEW q \in Queues, fifo[q] # <<>>, fifo' = [fifo EXCEPT ![q] = Tail(@)],
           UNCHANGED <<sendFinished, recvFinished>>
    PROVE  Boxed' /\ Head(fifo[q]) \in Packet
<1>1. fifo[q] \in Seq(Packet) /\ Len(fifo[q]) <= QueueSize
    BY DEF Boxed
<1>2. /\ Head(fifo[q]) \in Packet /\ Tail(fifo[q]) \in Seq(Packet)
      /\ Len(Tail(fifo[q])) <= QueueSize
    BY <1>1, HeadTail, BoundsAssumption
<1> QED
    BY <1>2 DEF Boxed

LEMMA PremuxParked ==
    ASSUME Parked, NEW s \in Streams, NEW n \in 0 .. MaxPackets,
           premux' = [premux EXCEPT ![s] = Append(@, n)]
    PROVE  Parked'
<1>1. Append(premux[s], n) \in Seq(0 .. MaxPackets)
    BY DEF Parked
<1> QED
    BY <1>1 DEF Parked

LEMMA GotoDomain == ASSUME Shaped, NEW t, NEW l, Goto(t, l) PROVE DOMAIN pc' = Threads
BY DEF Shaped, Goto

LEMMA MuxSendShaped ==
    ASSUME Shaped, NEW t \in Threads, NEW s \in Streams, MuxSend(t, s) \/ MuxSendEnd(t, s)
    PROVE  Shaped'
<1> USE DEF Shaped
<1>0. hand[t] \in 0 .. MaxPackets /\ 0 \in 0 .. MaxPackets /\ "mux" \in Queues
    BY HandIs, BoundsAssumption DEF Queues
<1>1. ASSUME NEW n \in 0 .. MaxPackets, NEW l, Premux(t, s, n, l) PROVE Shaped'
    <2>1. Parked' /\ DOMAIN pc' = Threads
        BY <1>1, PremuxParked, GotoDomain DEF Premux
    <2>2. Boxed'
        BY <1>1, QueuesBoxed DEF Premux, queues
    <2> QED
        BY <1>1, <2>1, <2>2 DEF Premux, Handed, Mixed, muxing, stopping
<1>2. ASSUME UNCHANGED <<length, hand, premuxing, muxing, stopping>>, Boxed', NEW l, Goto(t, l)
      PROVE  Shaped'
    BY <1>2, GotoDomain DEF Handed, Parked, Mixed, premuxing, muxing, stopping
<1>3. CASE MuxSend(t, s)
    <2>1. CASE Premux(t, s, hand[t], "sent")
        BY <1>0, <1>1, <2>1
    <2>2. CASE ~Premux(t, s, hand[t], "sent")
        <3>1. UNCHANGED <<length, hand, premuxing, muxing, stopping>>
            BY <1>3, <2>2 DEF MuxSend
        <3>2. \/ Goto(t, "close") /\ UNCHANGED queues
              \/ SendTo(t, "mux", s, hand[t], "sent", "close")
            BY <1>3, <2>2 DEF MuxSend
        <3>3. Boxed'
            BY <1>0, <3>2, SendBoxed, QueuesBoxed DEF queues
        <3>4. Goto(t, "close") \/ Goto(t, "sent")
            BY <3>2 DEF SendTo
        <3> QED
            BY <1>2, <3>1, <3>3, <3>4
    <2> QED
        BY <2>1, <2>2
<1>4. CASE MuxSendEnd(t, s)
    <2>1. CASE Premux(t, s, 0, "closed")
        BY <1>0, <1>1, <2>1
    <2>2. CASE ~Premux(t, s, 0, "closed")
        <3>1. /\ UNCHANGED <<length, hand, premuxing, muxing, stopping>>
              /\ tq_send_finish("mux", s) /\ Goto(t, "closed")
            BY <1>4, <2>2 DEF MuxSendEnd
        <3> QED
            BY <1>0, <1>2, <3>1, RefuseBoxed
    <2> QED
        BY <2>1, <2>2
<1> QED
    BY <1>3, <1>4

LEMMA MuxSentShaped ==
    ASSUME Shaped, NEW t \in Threads, NEW s \in Streams, NEW a, NEW b, MuxSent(t, s, a, b),
           t \in Workers \/ t = Demux[1]
    PROVE  Shaped'
<1> USE DEF Shaped
<1>1. /\ UNCHANGED <<length, queues, premuxing, muxing, stopping>>
      /\ Goto(t, a) \/ Goto(t, b)
      /\ hand' = IF t \in Workers THEN [hand EXCEPT ![t] = 0] ELSE hand
    BY DEF MuxSent
<1>2. Handed'
    <2>1. 0 \in 0 .. MaxPackets
        BY BoundsAssumption
    <2>2. \A r \in Streams : Demux[r] \notin Workers
        BY Names
    <2> QED
        BY <1>1, <2>1, <2>2 DEF Handed
<1>3. Boxed'
    BY <1>1, QueuesBoxed DEF queues
<1> QED
    BY <1>1, <1>2, <1>3, GotoDomain DEF Parked, Mixed, premuxing, muxing, stopping

(* A step that changes neither packets nor queues. *)
LEMMA StillShaped ==
    ASSUME Shaped, DOMAIN pc' = Threads, Boxed',
           UNCHANGED <<length, hand, premux, muxing, failing>>
    PROVE  Shaped'
BY DEF Shaped, Handed, Parked, Mixed, muxing

LEMMA DemuxerShaped ==
    ASSUME Shaped, NEW s \in Streams, Demuxer(s)
    PROVE  Shaped'
<1> DEFINE d == Demux[s]
<1>0. d \in Threads /\ "dec" \in Queues /\ 2 \in Streams /\ Coded = 2 /\ Demux[2] \in Threads
    BY Names
<1>1. CASE DemuxRead(s)
    <2>1. CASE hand[d] = length[s]
        <3>1. UNCHANGED <<length, hand, queues, premuxing, muxing, stopping>> /\ Goto(d, "close")
            BY <1>1, <2>1 DEF DemuxRead
        <3>2. Boxed'
            BY <3>1, QueuesBoxed DEF queues, Shaped
        <3> QED
            BY <3>1, <3>2, GotoDomain, StillShaped DEF premuxing, stopping
    <2>2. CASE hand[d] # length[s]
        <3>1. /\ UNCHANGED <<length, queues, premuxing, muxing, stopping>>
              /\ hand' = [hand EXCEPT ![d] = @ + 1]
              /\ Goto(d, "wait") \/ Goto(d, "send")
            BY <1>1, <2>2 DEF DemuxRead
        <3>2. hand[d] <= length[s] /\ hand[d] \in Nat /\ length[s] \in 1 .. MaxPackets
            BY <1>0, HandIs DEF Shaped, Handed
        <3>3. hand[d] + 1 \in 0 .. MaxPackets /\ hand[d] + 1 <= length[s]
            BY <2>2, <3>2, BoundsAssumption
        <3>4. \A r \in Streams : r # s => Demux[r] # d
            BY Names
        <3>5. Handed'
            BY <1>0, <3>1, <3>3, <3>4 DEF Shaped, Handed
        <3>6. Boxed'
            BY <3>1, QueuesBoxed DEF queues, Shaped
        <3> QED
            BY <3>1, <3>5, <3>6, GotoDomain DEF Shaped, Parked, Mixed, premuxing, muxing, stopping
    <2> QED
        BY <2>1, <2>2
<1>2. CASE DemuxWait(s) \/ DemuxExit(s) \/ ApplyChange(d)
    <2>1. UNCHANGED <<length, hand, fifo, sendFinished, recvFinished, premuxing, muxing, stopping>>
        BY <1>2 DEF DemuxWait, DemuxExit, ApplyChange, queues
    <2>2. DOMAIN pc' = Threads
        BY <1>2 DEF DemuxWait, DemuxExit, ApplyChange, Goto, Shaped
    <2>3. Boxed'
        BY <2>1, QueuesBoxed DEF Shaped
    <2> QED
        BY <2>1, <2>2, <2>3, StillShaped DEF premuxing, stopping
<1>3. CASE DecoderSend
    <2>1. /\ UNCHANGED <<length, hand, premuxing, muxing, stopping>>
          /\ \/ SendTo(Demux[2], "dec", 2, hand[Demux[2]], "read", "close")
             \/ tq_send_finish("dec", 2) /\ Goto(Demux[2], "exit")
        BY <1>0, <1>3 DEF DecoderSend
    <2>2. Boxed'
        BY <1>0, <2>1, HandIs, SendBoxed, RefuseBoxed DEF Shaped
    <2>3. DOMAIN pc' = Threads
        BY <2>1, GotoDomain DEF SendTo
    <2> QED
        BY <2>1, <2>2, <2>3, StillShaped DEF premuxing, stopping
<1>4. CASE MuxSend(d, s) \/ MuxSendEnd(d, s)
    BY <1>0, <1>4, MuxSendShaped
<1>5. CASE s = Copied /\ MuxSent(d, s, "read", "exit")
    BY <1>0, <1>5, MuxSentShaped, Names
<1> QED
    BY <1>1, <1>2, <1>3, <1>4, <1>5 DEF Demuxer

LEMMA WorkerShaped ==
    ASSUME Shaped, NEW w \in Workers, Worker(w)
    PROVE  Shaped'
<1>0. /\ w \in Threads /\ w \in Queues /\ Coded \in Streams /\ {Coded} \in SUBSET Streams
      /\ w # "enc" => Feeds[w] \in Queues
      /\ \A r \in Streams : Demux[r] # w
    BY Names
<1>1. CASE WorkerReceive(w) /\ fifo[w] # <<>>
    <2>1. /\ hand' = [hand EXCEPT ![w] = Head(fifo[w]).n]
          /\ fifo' = [fifo EXCEPT ![w] = Tail(@)]
          /\ UNCHANGED <<length, sendFinished, recvFinished, premuxing, muxing, stopping>>
          /\ \E l : Goto(w, l)
        BY <1>1 DEF WorkerReceive
    <2>2. Boxed' /\ Head(fifo[w]) \in Packet
        BY <1>0, <1>1, <2>1, TakeBoxed DEF Shaped
    <2>3. Head(fifo[w]).n \in 0 .. MaxPackets
        BY <2>2 DEF Packet
    <2>4. Handed'
        BY <1>0, <2>1, <2>3 DEF Shaped, Handed
    <2> QED
        BY <2>1, <2>2, <2>4, GotoDomain DEF Shaped, Parked, Mixed, premuxing, muxing, stopping
<1>2. CASE WorkerReceive(w) /\ fifo[w] = <<>>
    <2>1. /\ recvFinished' = [recvFinished EXCEPT ![w] = {Coded}]
          /\ UNCHANGED <<length, hand, fifo, sendFinished, premuxing, muxing, stopping>>
          /\ Goto(w, "finish")
        BY <1>2 DEF WorkerReceive
    <2>2. Boxed'
        BY <1>0, <2>1 DEF Shaped, Boxed
    <2> QED
        BY <2>1, <2>2, GotoDomain, StillShaped DEF premuxing, stopping
<1>3. CASE WorkerSend(w)
    <2>1. /\ SendTo(w, Feeds[w], Coded, hand[w], "receive", "close")
          /\ w # "enc"
          /\ hand' = [hand EXCEPT ![w] = 0]
          /\ UNCHANGED <<length, premuxing, muxing, stopping>>
        BY <1>3 DEF WorkerSend
    <2>2. Boxed'
        BY <1>0, <2>1, HandIs, SendBoxed DEF Shaped
    <2>3. DOMAIN pc' = Threads
        BY <2>1, GotoDomain DEF SendTo
    <2>4. Handed'
        <3>1. 0 \in 0 .. MaxPackets
            BY BoundsAssumption
        <3> QED
            BY <1>0, <2>1, <3>1 DEF Shaped, Handed
    <2> QED
        BY <2>1, <2>2, <2>3, <2>4 DEF Shaped, Parked, Mixed, premuxing, muxing, stopping
<1>4. CASE WorkerFinish(w)
    <2>1. /\ tq_receive_finish(w, {Coded})
          /\ UNCHANGED <<length, hand, premuxing, muxing, stopping>>
          /\ \E l : Goto(w, l)
        BY <1>4 DEF WorkerFinish
    <2>2. Boxed'
        BY <1>0, <2>1, ReceiveFinishBoxed DEF Shaped
    <2> QED
        BY <2>1, <2>2, GotoDomain, StillShaped DEF premuxing, stopping
<1>5. CASE WorkerClose(w)
    <2>1. /\ tq_send_finish(Feeds[w], Coded) /\ w # "enc"
          /\ UNCHANGED <<length, hand, premuxing, muxing, stopping>>
          /\ \E l : Goto(w, l)
        BY <1>5 DEF WorkerClose
    <2>2. Boxed'
        BY <1>0, <2>1, RefuseBoxed DEF Shaped
    <2> QED
        BY <2>1, <2>2, GotoDomain, StillShaped DEF premuxing, stopping
<1>6. CASE WorkerExit(w) \/ ApplyChange(w)
    <2>1. UNCHANGED <<length, hand, fifo, sendFinished, recvFinished, premuxing, muxing, stopping>>
        BY <1>6 DEF WorkerExit, ApplyChange, queues
    <2>2. DOMAIN pc' = Threads
        BY <1>6 DEF WorkerExit, ApplyChange, Goto, Shaped
    <2>3. Boxed'
        BY <2>1, QueuesBoxed DEF Shaped
    <2> QED
        BY <2>1, <2>2, <2>3, StillShaped DEF premuxing, stopping
<1>7. CASE MuxSend(w, Coded) \/ MuxSendEnd(w, Coded)
    BY <1>0, <1>7, MuxSendShaped
<1>8. CASE MuxSent(w, Coded, "receive", AfterClose(w))
    BY <1>0, <1>8, MuxSentShaped
<1> QED
    BY <1>1, <1>2, <1>3, <1>4, <1>5, <1>6, <1>7, <1>8 DEF Worker

LEMMA EarliestIs ==
    ASSUME Parked, Waiting # {}
    PROVE  /\ Earliest \in Streams /\ premux[Earliest] # <<>>
           /\ premux[Earliest] \in Seq(0 .. MaxPackets) /\ Head(premux[Earliest]) \in 0 .. MaxPackets
<1>1. Waiting \subseteq Streams /\ EndsFirst \subseteq Waiting
    BY DEF Waiting, EndsFirst
<1>2. Earliest \in Waiting
    <2>1. CASE EndsFirst # {}
        <3>1. EndsFirst \subseteq Nat
            BY <1>1, TwoStreams
        <3>2. Min(EndsFirst) \in EndsFirst
            BY <2>1, <3>1, Least
        <3> QED
            BY <1>1, <2>1, <3>2 DEF Earliest
    <2>2. CASE EndsFirst = {}
        <3> DEFINE e(s) == Dts(s, Head(premux[s]))
                   First(s) == \A r \in Waiting \ {s} : e(s) < e(r) \/ (e(s) = e(r) /\ s < r)
        <3>1. \A s \in Waiting : e(s) \in Int
            <4> SUFFICES ASSUME NEW s \in Waiting PROVE Dts(s, Head(premux[s])) \in Int
                OBVIOUS
            <4>1. s \in Streams /\ premux[s] \in Seq(0 .. MaxPackets) /\ premux[s] # <<>>
                BY DEF Waiting, Parked
            <4>2. Head(premux[s]) \in 0 .. MaxPackets
                BY <4>1, HeadTail
            <4>3. Head(premux[s]) \in Nat
                BY <4>2, BoundsAssumption
            <4> QED
                BY <4>1, <4>3, BoundsAssumption DEF Dts
        <3> HIDE DEF e
        <3>2. \E s \in Waiting : First(s)
            <4>1. CASE 1 \in Waiting /\ (2 \in Waiting => e(1) <= e(2))
                BY <1>1, <3>1, <4>1, TwoStreams
            <4>2. CASE 2 \in Waiting /\ (1 \in Waiting => e(2) < e(1))
                BY <1>1, <3>1, <4>2, TwoStreams
            <4>3. (1 \in Waiting => e(1) \in Int) /\ (2 \in Waiting => e(2) \in Int)
                BY <3>1
            <4>4. 1 \in Waiting \/ 2 \in Waiting
                BY <1>1, TwoStreams
            <4>5. 1 \in Waiting /\ 2 \in Waiting => e(1) <= e(2) \/ e(2) < e(1)
                BY <4>3
            <4> QED
                BY <4>1, <4>2, <4>4, <4>5
        <3>3. Earliest = CHOOSE s \in Waiting : First(s)
            BY <2>2 DEF Earliest, e
        <3> QED
            BY <3>2, <3>3
    <2> QED
        BY <2>1, <2>2
<1>3. Earliest \in Streams /\ premux[Earliest] # <<>> /\ premux[Earliest] \in Seq(0 .. MaxPackets)
    BY <1>2 DEF Waiting, Parked
<1> QED
    BY <1>3, HeadTail

LEMMA FilterShaped ==
    ASSUME Shaped, OpenEncoder \/ FlushPremux \/ MuxStarted
    PROVE  Shaped'
<1>1. CASE OpenEncoder \/ MuxStarted
    <2>1. UNCHANGED <<length, hand, fifo, sendFinished, recvFinished, premux, muxing, stopping>>
        BY <1>1 DEF OpenEncoder, MuxStarted, queues
    <2>2. DOMAIN pc' = Threads
        BY <1>1 DEF OpenEncoder, MuxStarted, Goto, Shaped
    <2>3. Boxed'
        BY <2>1, QueuesBoxed DEF Shaped
    <2> QED
        BY <2>1, <2>2, <2>3, StillShaped DEF stopping
<1>2. CASE FlushPremux
    <2> DEFINE s == Earliest
               n == Head(premux[s])
    <2>1. /\ Waiting # {} /\ premux' = [premux EXCEPT ![s] = Tail(@)]
          /\ UNCHANGED <<length, pc, hand, muxing, stopping>>
        BY <1>2 DEF FlushPremux
    <2>2. /\ s \in Streams /\ premux[s] # <<>> /\ premux[s] \in Seq(0 .. MaxPackets)
          /\ n \in 0 .. MaxPackets
        BY <2>1, EarliestIs DEF Shaped
    <2>3. \/ tq_send_finish("mux", s) \/ UNCHANGED queues \/ Refuse("mux", s)
          \/ HasRoom("mux") /\ Put("mux", s, n)
        BY <1>2 DEF FlushPremux
    <2> HIDE DEF s, n
    <2>4. "mux" \in Queues
        BY DEF Queues
    <2>5. Boxed'
        <3>1. CASE tq_send_finish("mux", s) \/ Refuse("mux", s)
            BY <2>2, <2>4, <3>1, RefuseBoxed DEF Shaped
        <3>2. CASE UNCHANGED queues
            BY <3>2, QueuesBoxed DEF Shaped, queues
        <3>3. CASE HasRoom("mux") /\ Put("mux", s, n)
            BY <2>2, <2>4, <3>3, PutBoxed DEF Shaped
        <3> QED
            BY <2>3, <3>1, <3>2, <3>3
    <2>6. Parked'
        <3>1. Tail(premux[s]) \in Seq(0 .. MaxPackets)
            BY <2>2, HeadTail
        <3> QED
            BY <2>1, <3>1 DEF Shaped, Parked
    <2> QED
        BY <2>1, <2>5, <2>6 DEF Shaped, Handed, Mixed, muxing, stopping
<1> QED
    BY <1>1, <1>2

LEMMA WriteMixed ==
    ASSUME Mixed, NEW x, x \in SyncQueueType, Write(x)
    PROVE  Mixed'
<1>1. \A s \in Streams : Due(x, s) \in Nat /\ Left(x, s, Due(x, s)) \in Seq(Nat)
    BY DueIs, QueueType
<1>2. [s \in Streams |-> Left(x, s, Due(x, s))] \in [Streams -> Seq(Nat)]
    BY <1>1
<1>3. sq' \in SyncQueueType
    <2> DEFINE f == [s \in Streams |-> Left(x, s, Due(x, s))]
    <2>1. sq' = [x EXCEPT !.fifo = f] /\ f \in [Stream -> Seq(Nat)]
        BY <1>2, TwoStreams DEF Write
    <2> HIDE DEF f
    <2> QED
        BY <2>1 DEF SyncQueueType
<1>4. written' \in [Streams -> Nat]
    <2>1. written' = [s \in Streams |-> written[s] + Due(x, s)]
        BY DEF Write
    <2> QED
        BY <1>1, <2>1 DEF Mixed
<1> QED
    BY <1>3, <1>4 DEF Mixed

LEMMA EndIsNat == ASSUME NEW s \in Streams, NEW n \in 1 .. MaxPackets PROVE End(s, n) \in Nat
BY BoundsAssumption DEF End

(* Which stream ends in the muxer. *)
LEMMA EndingIs ==
    ASSUME Boxed, Ending # {}
    PROVE  Min(Ending) \in Streams /\ Min(Ending) \in sendFinished["mux"]
<1>1. Ending \subseteq sendFinished["mux"] /\ sendFinished["mux"] \subseteq Streams
    BY DEF Ending, Boxed, Queues
<1>2. Ending \subseteq Nat
    BY <1>1, TwoStreams
<1>3. Min(Ending) \in Ending
    BY <1>2, Least
<1> QED
    BY <1>1, <1>3

(* The muxer takes packets only, not the ends of streams. *)
Numbered == MuxPacket => Head(fifo["mux"]).n \in 1 .. MaxPackets

LEMMA MuxerShaped == ASSUME Shaped, Muxer, Numbered PROVE Shaped'
<1>0. "mux" \in Queues
    BY DEF Queues
<1>1. CASE MuxPacket
    <2> DEFINE item == Head(fifo["mux"])
               x == sq_send(sq, item.stream, End(item.stream, item.n))
    <2>1. /\ fifo["mux"] # <<>> /\ fifo' = [fifo EXCEPT !["mux"] = Tail(@)] /\ Write(x)
          /\ UNCHANGED <<length, hand, sendFinished, recvFinished, premuxing, stopping>>
        BY <1>1 DEF MuxPacket
    <2>2. Boxed' /\ item \in Packet
        BY <1>0, <2>1, TakeBoxed DEF Shaped
    <2>3. item.stream \in Streams /\ item.n \in 1 .. MaxPackets
        BY <1>1, <2>2 DEF Packet, Numbered
    <2>4. x \in SyncQueueType
        BY <2>3, SendDoes, EndIsNat DEF Shaped, Mixed
    <2> HIDE DEF x
    <2>5. Mixed'
        BY <2>1, <2>4, WriteMixed DEF Shaped
    <2>6. DOMAIN pc' = Threads
        BY <2>1, GotoDomain DEF Write
    <2> QED
        BY <2>1, <2>2, <2>5, <2>6 DEF Shaped, Handed, Parked, premuxing, stopping
<1>2. CASE MuxEnd
    <2> DEFINE s == Min(Ending)
               x == finish_stream(sq, s)
    <2>1. /\ Ending # {} /\ tq_receive_finish("mux", {s}) /\ Write(x)
          /\ UNCHANGED <<length, hand, premuxing, stopping>>
        BY <1>2 DEF MuxEnd
    <2>2. s \in Streams
        BY <2>1, EndingIs DEF Shaped
    <2> HIDE DEF s
    <2>3. x \in SyncQueueType
        BY <2>2, FinishDoes DEF Shaped, Mixed
    <2> HIDE DEF x
    <2>4. Mixed'
        BY <2>1, <2>3, WriteMixed DEF Shaped
    <2>5. Boxed'
        <3>1. {s} \in SUBSET Streams
            BY <2>2
        <3> QED
            BY <1>0, <2>1, <3>1, ReceiveFinishBoxed DEF Shaped
    <2>6. DOMAIN pc' = Threads
        BY <2>1, GotoDomain DEF Write
    <2> QED
        BY <2>1, <2>4, <2>5, <2>6 DEF Shaped, Handed, Parked, premuxing, stopping
<1>3. CASE MuxDone
    <2>1. UNCHANGED <<length, hand, premuxing, muxing, failing>>
        BY <1>3 DEF MuxDone, stopping
    <2>2. DOMAIN pc' = Threads
        BY <1>3, GotoDomain DEF MuxDone
    <2>3. tq_receive_finish("mux", Streams) \/ UNCHANGED queues
        BY <1>3 DEF MuxDone
    <2>4. Boxed'
        <3>1. Streams \in SUBSET Streams
            OBVIOUS
        <3> QED
            BY <1>0, <2>3, <3>1, ReceiveFinishBoxed, QueuesBoxed DEF Shaped, queues
    <2> QED
        BY <2>1, <2>2, <2>4, StillShaped DEF premuxing
<1>4. CASE ApplyChange("mux")
    <2>1. UNCHANGED <<length, pc, hand, fifo, sendFinished, recvFinished, premuxing, muxing, stopping>>
        BY <1>4 DEF ApplyChange
    <2>2. Boxed'
        BY <2>1, QueuesBoxed DEF Shaped
    <2> QED
        BY <2>1, <2>2, StillShaped DEF Shaped, premuxing, stopping
<1> QED
    BY <1>1, <1>2, <1>3, <1>4 DEF Muxer

LEMMA RestShaped ==
    ASSUME Shaped, Main \/ \E t \in Failing : Fail(t)
    PROVE  Shaped'
<1>1. UNCHANGED <<length, hand, fifo, sendFinished, recvFinished, premuxing, muxing>>
    BY DEF Main, MainStart, MainTerminate, MainChoke, MainDrain, MainJoin, ApplyChange, Fail, queues
<1>2. DOMAIN pc' = Threads
    <2>1. CASE ApplyChange("main")
        BY <2>1 DEF ApplyChange, Shaped
    <2>2. CASE ~ApplyChange("main")
        <3>1. \E t, l : Goto(t, l)
            BY <2>2 DEF Main, MainStart, MainTerminate, MainChoke, MainDrain, MainJoin, Fail
        <3> QED
            BY <3>1, GotoDomain
    <2> QED
        BY <2>1, <2>2
<1>3. failing' \in Failing \union {None}
    BY DEF Main, MainStart, MainTerminate, MainChoke, MainDrain, MainJoin, ApplyChange, Fail,
           stopping, Shaped
<1>4. Boxed'
    BY <1>1, QueuesBoxed DEF Shaped
<1> QED
    BY <1>1, <1>2, <1>3, <1>4 DEF Shaped, Handed, Parked, Mixed, premuxing, muxing

LEMMA ShapedNext == Shaped /\ Numbered /\ [Next]_vars => Shaped'
<1> SUFFICES ASSUME Shaped, Numbered, [Next]_vars PROVE Shaped'
    OBVIOUS
<1>1. CASE UNCHANGED vars
    <2>1. Boxed'
        BY <1>1, QueuesBoxed DEF Shaped, vars, queues
    <2> QED
        BY <1>1, <2>1, StillShaped DEF Shaped, vars, premuxing, stopping
<1> QED
    BY <1>1, Names, DemuxerShaped, WorkerShaped, FilterShaped, MuxerShaped, RestShaped
    DEF Next, Filter

-----------------------------------------------------------------------------
(* Packets in a row *)

(* The packets of stream s in a queue are those numbered from low + 1 to high, in order. *)
Line(box, s, low, high) ==
    /\ \A i \in 1 .. Len(box) : box[i].stream = s => low < box[i].n /\ box[i].n <= high
    /\ \A i, j \in 1 .. Len(box) :
          i < j /\ box[i].stream = s /\ box[j].stream = s => box[i].n < box[j].n
    /\ \A n \in low + 1 .. high : \E i \in 1 .. Len(box) : box[i].stream = s /\ box[i].n = n

LEMMA PacketIs ==
    ASSUME NEW p \in Packet
    PROVE  p.n \in Nat /\ p.n \in 0 .. MaxPackets /\ p.stream \in Streams
BY BoundsAssumption DEF Packet

LEMMA LineAppend ==
    ASSUME NEW box \in Seq(Packet), NEW p \in Packet, NEW s \in Streams,
           NEW low \in Nat, NEW high \in Nat, Line(box, s, low, high), low <= high
    PROVE  /\ p.stream # s => Line(Append(box, p), s, low, high)
           /\ p.stream = s /\ p.n = high + 1 => Line(Append(box, p), s, low, high + 1)
<1> DEFINE b == Append(box, p)
<1>1. /\ Len(box) \in Nat /\ Len(b) = Len(box) + 1 /\ b[Len(box) + 1] = p
      /\ \A i \in 1 .. Len(box) : b[i] = box[i]
    OBVIOUS
<1>2. /\ \A i \in 1 .. Len(box) : box[i].n \in Nat
      /\ p.n \in Nat
    <2>1. \A i \in 1 .. Len(box) : box[i] \in Packet
        OBVIOUS
    <2> QED
        BY <2>1, PacketIs
<1> HIDE DEF b
<1>3. \A i \in 1 .. Len(b) : i \in 1 .. Len(box) \/ (i = Len(box) + 1 /\ i \notin 1 .. Len(box))
    BY <1>1
<1>4. \A i \in 1 .. Len(box) : i \in 1 .. Len(b)
    BY <1>1
<1>5. \A i, j \in 1 .. Len(b) : i < j => i \in 1 .. Len(box)
    BY <1>1
<1>6. ASSUME p.stream # s PROVE Line(b, s, low, high)
    <2>1. \A i \in 1 .. Len(b) : b[i].stream = s => i \in 1 .. Len(box)
        BY <1>1, <1>3, <1>6
    <2>2. \A i \in 1 .. Len(b) : b[i].stream = s => low < b[i].n /\ b[i].n <= high
        BY <1>1, <2>1 DEF Line
    <2>3. \A i, j \in 1 .. Len(b) : i < j /\ b[i].stream = s /\ b[j].stream = s => b[i].n < b[j].n
        BY <1>1, <2>1 DEF Line
    <2>4. \A n \in low + 1 .. high : \E i \in 1 .. Len(b) : b[i].stream = s /\ b[i].n = n
        <3> TAKE n \in low + 1 .. high
        <3>1. PICK i \in 1 .. Len(box) : box[i].stream = s /\ box[i].n = n
            BY DEF Line
        <3> QED
            BY <1>1, <1>4, <3>1
    <2> QED
        BY <2>2, <2>3, <2>4 DEF Line
<1>7. ASSUME p.stream = s, p.n = high + 1 PROVE Line(b, s, low, high + 1)
    <2>1. \A i \in 1 .. Len(box) : b[i].stream = s => low < b[i].n /\ b[i].n <= high /\ b[i].n \in Nat
        BY <1>1, <1>2 DEF Line
    <2>2. \A i \in 1 .. Len(b) : b[i].stream = s => low < b[i].n /\ b[i].n <= high + 1
        <3> SUFFICES ASSUME NEW i \in 1 .. Len(b), b[i].stream = s
                     PROVE  low < b[i].n /\ b[i].n <= high + 1
            OBVIOUS
        <3>1. CASE i \in 1 .. Len(box)
            BY <2>1, <3>1
        <3>2. CASE i = Len(box) + 1
            BY <1>1, <1>7, <3>2
        <3> QED
            BY <1>3, <3>1, <3>2
    <2>3. \A i, j \in 1 .. Len(b) : i < j /\ b[i].stream = s /\ b[j].stream = s => b[i].n < b[j].n
        <3> SUFFICES ASSUME NEW i \in 1 .. Len(b), NEW j \in 1 .. Len(b), i < j,
                            b[i].stream = s, b[j].stream = s
                     PROVE  b[i].n < b[j].n
            OBVIOUS
        <3>1. i \in 1 .. Len(box)
            BY <1>5
        <3>2. CASE j \in 1 .. Len(box)
            BY <1>1, <3>1, <3>2 DEF Line
        <3>3. CASE j = Len(box) + 1
            BY <1>1, <1>7, <2>1, <3>1, <3>3
        <3> QED
            BY <1>3, <3>2, <3>3
    <2>4. \A n \in low + 1 .. high + 1 : \E i \in 1 .. Len(b) : b[i].stream = s /\ b[i].n = n
        <3> TAKE n \in low + 1 .. high + 1
        <3>1. CASE n = high + 1
            <4>1. Len(box) + 1 \in 1 .. Len(b)
                BY <1>1
            <4> QED
                BY <1>1, <1>7, <3>1, <4>1
        <3>2. CASE n # high + 1
            <4>1. n \in low + 1 .. high
                BY <3>2
            <4>2. PICK i \in 1 .. Len(box) : box[i].stream = s /\ box[i].n = n
                BY <4>1 DEF Line
            <4> QED
                BY <1>1, <1>4, <4>2
        <3> QED
            BY <3>1, <3>2
    <2> QED
        BY <2>2, <2>3, <2>4 DEF Line
<1> QED
    BY <1>6, <1>7 DEF b

LEMMA LineTail ==
    ASSUME NEW box \in Seq(Packet), box # <<>>, NEW s \in Streams,
           NEW low \in Nat, NEW high \in Nat, Line(box, s, low, high), low <= high
    PROVE  /\ Head(box).stream # s => Line(Tail(box), s, low, high)
           /\ Head(box).stream = s =>
                Head(box).n = low + 1 /\ low + 1 <= high /\ Line(Tail(box), s, low + 1, high)
<1> DEFINE b == Tail(box)
           p == Head(box)
<1>1. /\ Len(box) \in Nat \ {0} /\ Len(b) = Len(box) - 1 /\ p \in Packet /\ p = box[1]
      /\ \A i \in 1 .. Len(b) : b[i] = box[i + 1]
    BY HeadTail
<1>2. /\ \A i \in 1 .. Len(box) : box[i].n \in Nat
      /\ p.n \in Nat
    <2>1. \A i \in 1 .. Len(box) : box[i] \in Packet
        OBVIOUS
    <2> QED
        BY <1>1, <2>1, PacketIs
<1> HIDE DEF b, p
<1>3. \A i \in 1 .. Len(b) : i + 1 \in 1 .. Len(box) /\ i + 1 # 1
    BY <1>1
<1>4. \A i \in 1 .. Len(box) : i = 1 \/ i - 1 \in 1 .. Len(b)
    BY <1>1
<1>5. 1 \in 1 .. Len(box)
    BY <1>1
<1>6. \A i, j \in 1 .. Len(b) : i < j => i + 1 < j + 1
    BY <1>1
<1>7. \A i, j \in 1 .. Len(b) : i < j /\ b[i].stream = s /\ b[j].stream = s => b[i].n < b[j].n
    BY <1>1, <1>3, <1>6 DEF Line
<1>8. \A i \in 1 .. Len(b) : b[i].stream = s => low < b[i].n /\ b[i].n <= high
    BY <1>1, <1>3 DEF Line
<1>9. ASSUME NEW n \in low + 1 .. high, n # p.n \/ p.stream # s
      PROVE  \E i \in 1 .. Len(b) : b[i].stream = s /\ b[i].n = n
    <2>1. PICK i \in 1 .. Len(box) : box[i].stream = s /\ box[i].n = n
        BY DEF Line
    <2>2. i # 1
        BY <1>1, <1>9, <2>1
    <2>3. i - 1 \in 1 .. Len(b) /\ b[i - 1] = box[i]
        BY <1>1, <1>4, <2>2
    <2> QED
        BY <2>1, <2>3
<1>10. ASSUME p.stream # s PROVE Line(b, s, low, high)
    BY <1>7, <1>8, <1>9, <1>10 DEF Line
<1>11. ASSUME p.stream = s
       PROVE  p.n = low + 1 /\ low + 1 <= high /\ Line(b, s, low + 1, high)
    <2>1. low < p.n /\ p.n <= high
        BY <1>1, <1>5, <1>11 DEF Line
    <2>2. \A i \in 1 .. Len(b) : b[i].stream = s => p.n < b[i].n
        <3> SUFFICES ASSUME NEW i \in 1 .. Len(b), b[i].stream = s PROVE p.n < b[i].n
            OBVIOUS
        <3>1. 1 < i + 1 /\ i + 1 \in 1 .. Len(box)
            BY <1>3
        <3> QED
            BY <1>1, <1>5, <1>11, <3>1 DEF Line
    <2>3. p.n = low + 1
        <3>1. low + 1 \in low + 1 .. high
            BY <1>2, <2>1
        <3>2. PICK i \in 1 .. Len(box) : box[i].stream = s /\ box[i].n = low + 1
            BY <3>1 DEF Line
        <3>3. CASE i = 1
            BY <1>1, <3>2, <3>3
        <3>4. CASE i # 1
            <4>1. i - 1 \in 1 .. Len(b) /\ b[i - 1] = box[i]
                BY <1>1, <1>4, <3>4
            <4>2. p.n < low + 1
                BY <2>2, <3>2, <4>1
            <4> QED
                BY <1>2, <2>1, <4>2
        <3> QED
            BY <3>3, <3>4
    <2>4. \A i \in 1 .. Len(b) : b[i].stream = s => low + 1 < b[i].n /\ b[i].n <= high
        BY <1>8, <2>2, <2>3
    <2>5. \A n \in (low + 1) + 1 .. high : \E i \in 1 .. Len(b) : b[i].stream = s /\ b[i].n = n
        <3> TAKE n \in (low + 1) + 1 .. high
        <3>1. n \in low + 1 .. high /\ n # p.n
            BY <2>3
        <3> QED
            BY <1>9, <3>1
    <2> QED
        BY <1>2, <1>7, <2>1, <2>3, <2>4, <2>5 DEF Line
<1> QED
    BY <1>10, <1>11 DEF b, p

LEMMA LineEmpty ==
    ASSUME NEW s, NEW low \in Nat, NEW high \in Nat, low <= high, Line(<<>>, s, low, high)
    PROVE  low = high
<1>1. ASSUME low # high PROVE FALSE
    <2>1. low + 1 \in low + 1 .. high
        BY <1>1
    <2>2. PICK i \in 1 .. Len(<<>>) : TRUE
        BY <2>1 DEF Line
    <2> QED
        BY <2>2
<1> QED
    BY <1>1

(* The packets in a pre-muxing queue are those from low + 1 to high; what comes after
   them says that the stream has ended. *)
Lot(box, low, high) ==
    /\ high - low <= Len(box)
    /\ \A i \in 1 .. Len(box) : box[i] = IF i <= high - low THEN low + i ELSE 0

LEMMA LotAppend ==
    ASSUME NEW box \in Seq(Nat), NEW low \in Nat, NEW high \in Nat, Lot(box, low, high), low <= high
    PROVE  /\ Lot(Append(box, 0), low, high)
           /\ Len(box) <= high - low => Lot(Append(box, high + 1), low, high + 1)
<1>1. Len(box) \in Nat /\ high - low <= Len(box)
    BY DEF Lot
<1>2. ASSUME NEW v \in Nat
      PROVE  /\ Len(Append(box, v)) = Len(box) + 1 /\ Append(box, v)[Len(box) + 1] = v
             /\ \A i \in 1 .. Len(box) : Append(box, v)[i] = box[i]
    OBVIOUS
<1>3. ASSUME NEW v \in Nat, NEW i \in 1 .. Len(Append(box, v))
      PROVE  i \in 1 .. Len(box) \/ i = Len(box) + 1
    BY <1>1, <1>2
<1>4. Lot(Append(box, 0), low, high)
    <2> DEFINE b == Append(box, 0)
    <2>1. /\ Len(b) = Len(box) + 1 /\ b[Len(box) + 1] = 0
          /\ \A i \in 1 .. Len(box) : b[i] = box[i]
        BY <1>2
    <2>2. \A i \in 1 .. Len(b) : i \in 1 .. Len(box) \/ i = Len(box) + 1
        BY <1>3
    <2> HIDE DEF b
    <2>3. ASSUME NEW i \in 1 .. Len(b)
          PROVE  b[i] = IF i <= high - low THEN low + i ELSE 0
        <3>1. CASE i \in 1 .. Len(box)
            BY <2>1, <3>1 DEF Lot
        <3>2. CASE i = Len(box) + 1
            BY <1>1, <2>1, <3>2
        <3> QED
            BY <2>2, <3>1, <3>2
    <2> QED
        BY <1>1, <2>1, <2>3 DEF Lot, b
<1>5. ASSUME Len(box) <= high - low PROVE Lot(Append(box, high + 1), low, high + 1)
    <2> DEFINE b == Append(box, high + 1)
    <2>1. /\ Len(b) = Len(box) + 1 /\ b[Len(box) + 1] = high + 1
          /\ \A i \in 1 .. Len(box) : b[i] = box[i]
        BY <1>2
    <2>2. \A i \in 1 .. Len(b) : i \in 1 .. Len(box) \/ i = Len(box) + 1
        BY <1>3
    <2> HIDE DEF b
    <2>3. Len(box) = high - low
        BY <1>1, <1>5
    <2>4. ASSUME NEW i \in 1 .. Len(b)
          PROVE  b[i] = IF i <= (high + 1) - low THEN low + i ELSE 0
        <3>1. CASE i \in 1 .. Len(box)
            BY <2>1, <2>3, <3>1 DEF Lot
        <3>2. CASE i = Len(box) + 1
            BY <2>1, <2>3, <3>2
        <3> QED
            BY <2>2, <3>1, <3>2
    <2> QED
        BY <2>1, <2>3, <2>4 DEF Lot, b
<1> QED
    BY <1>4, <1>5

LEMMA LotTail ==
    ASSUME NEW box \in Seq(Nat), box # <<>>, NEW low \in Nat, NEW high \in Nat,
           Lot(box, low, high), low <= high
    PROVE  /\ Head(box) = 0 => low = high /\ Lot(Tail(box), low, high)
           /\ Head(box) # 0 => /\ Head(box) = low + 1 /\ low < high
                               /\ Lot(Tail(box), low + 1, high)
<1> DEFINE b == Tail(box)
<1>1. /\ Len(box) \in Nat \ {0} /\ Len(b) = Len(box) - 1 /\ Head(box) = box[1]
      /\ \A i \in 1 .. Len(b) : b[i] = box[i + 1]
    BY HeadTail
<1>2. high - low <= Len(box) /\ Head(box) = IF 1 <= high - low THEN low + 1 ELSE 0
    BY <1>1 DEF Lot
<1>3. ASSUME NEW i \in 1 .. Len(b)
      PROVE  b[i] = IF i + 1 <= high - low THEN low + (i + 1) ELSE 0
    <2>1. i + 1 \in 1 .. Len(box)
        BY <1>1
    <2> QED
        BY <1>1, <2>1 DEF Lot
<1> HIDE DEF b
<1>4. ASSUME Head(box) = 0 PROVE low = high /\ Lot(b, low, high)
    <2>1. low = high
        BY <1>2, <1>4
    <2>2. \A i \in 1 .. Len(b) : b[i] = IF i <= high - low THEN low + i ELSE 0
        BY <1>1, <1>3, <2>1
    <2> QED
        BY <1>1, <2>1, <2>2 DEF Lot
<1>5. ASSUME Head(box) # 0
      PROVE  Head(box) = low + 1 /\ low < high /\ Lot(b, low + 1, high)
    <2>1. Head(box) = low + 1 /\ low < high
        BY <1>2, <1>5
    <2>2. \A i \in 1 .. Len(b) : b[i] = IF i <= high - (low + 1) THEN (low + 1) + i ELSE 0
        BY <1>1, <1>3, <2>1
    <2> QED
        BY <1>1, <1>2, <2>1, <2>2 DEF Lot
<1> QED
    BY <1>4, <1>5 DEF b

-----------------------------------------------------------------------------
(* What is written *)

(* The packets of a stream the muxer has got. *)
Count(x, wr, s) == wr[s] + Len(x.fifo[s])

(* The largest end of the first k packets of a stream, if there is one. *)
IsTop(s, k, top) ==
    /\ top = -1 \/ \E n \in 1 .. k : End(s, n) = top
    /\ \A n \in 1 .. k : End(s, n) <= top

(* A stream's time stamp is the largest end of its packets, and what waits in the queue
   comes right after what is written. *)
Queued(x, wr) ==
    \A s \in Streams :
        /\ Count(x, wr, s) <= MaxPackets
        /\ IsTop(s, Count(x, wr, s), x.head[s])
        /\ \A i \in 1 .. Len(x.fifo[s]) : x.fifo[s][i] = End(s, wr[s] + i)

(* What is written does not end after the limit, the first packet that waits does. *)
Below(x, wr) == \A s \in Streams : \A n \in 1 .. wr[s] : End(s, n) <= Limit(x)
Beyond(x, wr) == \A s \in Streams : x.fifo[s] # <<>> => Limit(x) < End(s, wr[s] + 1)

CutOK(x, wr, e) ==
    /\ HeadOK(x) /\ EndedOK(x, e) /\ Queued(x, wr)
    /\ Below(x, wr) /\ Beyond(x, wr)

LEMMA LimitIs ==
    ASSUME NEW x, x \in SyncQueueType, HeadOK(x)
    PROVE  /\ Limit(x) \in Stamps
           /\ \A s \in Streams : Limit(x) <= x.head[s] /\ x.head[s] \in Stamps
           /\ \E s \in Streams : Limit(x) = x.head[s]
<1>1. /\ x.head \in [Streams -> Stamps] /\ x.headStream \in Streams \union {0}
    BY QueueType
<1>2. \A s \in Streams : x.head[s] \in Stamps
    BY <1>1
<1>3. CASE x.headStream = 0
    <2>1. Limit(x) = -1 /\ \E s \in Streams : x.head[s] = -1
        BY <1>3 DEF Limit, HeadOK
    <2> QED
        BY <1>2, <2>1 DEF Stamps
<1>4. CASE x.headStream # 0
    BY <1>1, <1>2, <1>4 DEF Limit, HeadOK
<1> QED
    BY <1>3, <1>4

(* Time stamps that grow do not lower the limit. *)
LEMMA LimitGrows ==
    ASSUME NEW x, NEW y, x \in SyncQueueType, y \in SyncQueueType, HeadOK(x), HeadOK(y),
           \A s \in Streams : x.head[s] <= y.head[s]
    PROVE  Limit(x) <= Limit(y)
<1>1. PICK s \in Streams : Limit(y) = y.head[s]
    BY LimitIs
<1>2. Limit(x) <= x.head[s] /\ x.head[s] <= y.head[s] /\ Limit(x) \in Stamps
    BY LimitIs
<1>3. x.head[s] \in Stamps /\ y.head[s] \in Stamps
    BY LimitIs
<1> QED
    BY <1>1, <1>2, <1>3 DEF Stamps

LEMMA CountIs ==
    ASSUME NEW x, x \in SyncQueueType, NEW wr \in [Streams -> Nat], NEW s \in Streams
    PROVE  Count(x, wr, s) \in Nat /\ wr[s] \in Nat /\ Len(x.fifo[s]) \in Nat /\ wr[s] <= Count(x, wr, s)
<1>1. x.fifo[s] \in Seq(Nat) /\ wr[s] \in Nat
    BY QueueType
<1>2. Len(x.fifo[s]) \in Nat
    BY <1>1
<1> QED
    BY <1>1, <1>2 DEF Count

(* One packet more. *)
LEMMA TopGrows ==
    ASSUME NEW s \in Streams, NEW k \in Nat, k + 1 <= MaxPackets, NEW top \in Stamps, IsTop(s, k, top)
    PROVE  IsTop(s, k + 1, IF top < End(s, k + 1) THEN End(s, k + 1) ELSE top)
<1> DEFINE ts == End(s, k + 1)
           new == IF top < ts THEN ts ELSE top
<1>1. \A n \in 1 .. k + 1 : n \in 1 .. MaxPackets /\ End(s, n) \in Nat
    BY BoundsAssumption, EndIsNat
<1>2. ts \in Nat /\ k + 1 \in 1 .. k + 1
    BY <1>1
<1> HIDE DEF ts
<1>3. top <= new /\ ts <= new /\ new \in Stamps
    BY <1>2 DEF Stamps
<1>4. new = -1 \/ \E n \in 1 .. k + 1 : End(s, n) = new
    <2>1. CASE top < ts
        BY <1>2, <2>1 DEF ts
    <2>2. CASE ~(top < ts)
        <3>1. \A n \in 1 .. k : n \in 1 .. k + 1
            OBVIOUS
        <3> QED
            BY <2>2, <3>1 DEF IsTop
    <2> QED
        BY <2>1, <2>2
<1>5. \A n \in 1 .. k + 1 : End(s, n) <= new
    <2> TAKE n \in 1 .. k + 1
    <2>1. CASE n = k + 1
        BY <1>3, <2>1 DEF ts
    <2>2. CASE n # k + 1
        <3>1. n \in 1 .. k
            BY <2>2
        <3>2. End(s, n) <= top
            BY <3>1 DEF IsTop
        <3> HIDE DEF new
        <3> QED
            BY <1>1, <1>3, <3>2 DEF Stamps
    <2> QED
        BY <2>1, <2>2
<1> QED
    BY <1>4, <1>5 DEF IsTop, ts

(* What may be written is. *)
LEMMA WriteCut ==
    ASSUME Mixed, NEW x, x \in SyncQueueType, Write(x), NEW e,
           HeadOK(x), EndedOK(x, e), Queued(x, written), Below(x, written)
    PROVE  /\ CutOK(sq', written', e)
           /\ \A s \in Streams : Count(sq', written', s) = Count(x, written, s)
           /\ sq'.finished = x.finished
<1> DEFINE f == [s \in Streams |-> Left(x, s, Due(x, s))]
<1>1. sq' = [x EXCEPT !.fifo = f] /\ written' = [s \in Streams |-> written[s] + Due(x, s)]
    BY DEF Write
<1>2. Mixed'
    BY WriteMixed
<1>3. /\ sq'.head = x.head /\ sq'.headStream = x.headStream /\ sq'.finished = x.finished
      /\ sq'.headFinished = x.headFinished
      /\ \A s \in Streams : sq'.fifo[s] = Left(x, s, Due(x, s))
    BY <1>1 DEF SyncQueueType
<1> HIDE DEF f
<1>4. HeadOK(sq') /\ EndedOK(sq', e) /\ Limit(sq') = Limit(x)
    BY <1>3 DEF HeadOK, EndedOK, Limit
<1>5. ASSUME NEW s \in Streams
      PROVE  /\ Count(sq', written', s) = Count(x, written, s)
             /\ \A i \in 1 .. Len(sq'.fifo[s]) : sq'.fifo[s][i] = End(s, written'[s] + i)
             /\ \A n \in 1 .. written'[s] : End(s, n) <= Limit(sq')
             /\ sq'.fifo[s] # <<>> => Limit(sq') < End(s, written'[s] + 1)
    <2> DEFINE d == Due(x, s)
               g == sq'.fifo[s]
    <2>1. /\ d \in 0 .. Len(x.fifo[s])
          /\ g \in Seq(Nat) /\ Len(g) = Len(x.fifo[s]) - d
          /\ \A i \in 1 .. Len(g) : g[i] = x.fifo[s][d + i]
          /\ \A i \in 1 .. d : x.headStream # 0 /\ x.fifo[s][i] <= Limit(x)
          /\ d < Len(x.fifo[s]) /\ x.headStream # 0 => Limit(x) < x.fifo[s][d + 1]
        BY <1>3, DueIs
    <2>2. written'[s] = written[s] + d
        BY <1>1
    <2> HIDE DEF d, g
    <2>3. written[s] \in Nat /\ Len(x.fifo[s]) \in Nat /\ Len(g) \in Nat /\ d \in Nat
        BY <2>1, CountIs DEF Mixed
    <2>4. Count(sq', written', s) = Count(x, written, s)
        BY <2>1, <2>2, <2>3 DEF Count, g
    <2>5. \A i \in 1 .. Len(x.fifo[s]) : x.fifo[s][i] = End(s, written[s] + i)
        BY DEF Queued
    <2>6. \A i \in 1 .. Len(g) : g[i] = End(s, written'[s] + i)
        <3> TAKE i \in 1 .. Len(g)
        <3>1. d + i \in 1 .. Len(x.fifo[s])
            BY <2>1, <2>3
        <3>2. written[s] + (d + i) = written'[s] + i
            BY <2>2, <2>3
        <3> QED
            BY <2>1, <2>5, <3>1, <3>2
    <2>7. \A n \in 1 .. written'[s] : End(s, n) <= Limit(sq')
        <3> TAKE n \in 1 .. written'[s]
        <3>1. CASE n <= written[s]
            BY <1>4, <2>3, <3>1 DEF Below
        <3>2. CASE written[s] < n
            <4> DEFINE i == n - written[s]
            <4>1. i \in 1 .. d /\ i \in 1 .. Len(x.fifo[s]) /\ written[s] + i = n
                BY <2>1, <2>2, <2>3, <3>2
            <4> HIDE DEF i
            <4>2. x.fifo[s][i] = End(s, n)
                BY <2>5, <4>1
            <4> QED
                BY <1>4, <2>1, <4>1, <4>2
        <3> QED
            BY <2>3, <3>1, <3>2
    <2>8. ASSUME g # <<>> PROVE Limit(sq') < End(s, written'[s] + 1)
        <3>1. d < Len(x.fifo[s])
            BY <2>1, <2>3, <2>8
        <3>2. d + 1 \in 1 .. Len(x.fifo[s]) /\ written[s] + (d + 1) = written'[s] + 1
            BY <2>2, <2>3, <3>1
        <3>3. x.fifo[s][d + 1] = End(s, written'[s] + 1)
            BY <2>5, <3>2
        <3>4. CASE x.headStream # 0
            BY <1>4, <2>1, <3>1, <3>3, <3>4
        <3>5. CASE x.headStream = 0
            <4>1. Limit(sq') = -1
                BY <1>4, <3>5 DEF Limit
            <4>2. x.fifo[s][d + 1] \in Nat
                BY <3>2, QueueType
            <4> QED
                BY <3>3, <4>1, <4>2
        <3> QED
            BY <3>4, <3>5
    <2> QED
        BY <2>4, <2>6, <2>7, <2>8 DEF g
<1>6. Queued(sq', written')
    BY <1>3, <1>5 DEF Queued
<1>7. Below(sq', written') /\ Beyond(sq', written')
    BY <1>5 DEF Below, Beyond
<1> QED
    BY <1>3, <1>4, <1>5, <1>6, <1>7 DEF CutOK

(* The next packet of a stream. *)
LEMMA SendCut ==
    ASSUME NEW x, x \in SyncQueueType, NEW wr \in [Streams -> Nat], NEW e, CutOK(x, wr, e),
           NEW s \in Streams, s \notin e, Count(x, wr, s) + 1 <= MaxPackets
    PROVE  LET y == sq_send(x, s, End(s, Count(x, wr, s) + 1))
           IN  /\ y \in SyncQueueType
               /\ HeadOK(y) /\ EndedOK(y, e) /\ Queued(y, wr) /\ Below(y, wr)
               /\ \A r \in Streams : Count(y, wr, r) = IF r = s THEN Count(x, wr, r) + 1 ELSE Count(x, wr, r)
<1> DEFINE k == Count(x, wr, s)
           ts == End(s, k + 1)
           y == sq_send(x, s, ts)
           top == IF x.head[s] < ts THEN ts ELSE x.head[s]
<1>1. k \in Nat /\ wr[s] \in Nat /\ Len(x.fifo[s]) \in Nat /\ k = wr[s] + Len(x.fifo[s])
    BY CountIs DEF Count
<1>2. k + 1 \in 1 .. MaxPackets
    BY <1>1, BoundsAssumption
<1>3. ts \in Nat
    BY <1>2, EndIsNat
<1>4. /\ x.fifo \in [Streams -> Seq(Nat)] /\ x.head \in [Streams -> Stamps]
      /\ \A r \in Streams : x.head[r] \in Stamps
    BY QueueType
<1>5. x.head[s] <= top /\ top \in Stamps
    BY <1>3, <1>4 DEF Stamps
<1>6. IsTop(s, k + 1, top)
    BY <1>1, <1>2, <1>4, TopGrows DEF CutOK, Queued
<1> HIDE DEF k, ts, top
<1>7. /\ y \in SyncQueueType
      /\ y.fifo = [x.fifo EXCEPT ![s] = Append(@, ts)] /\ y.head = [x.head EXCEPT ![s] = top]
      /\ HeadOK(y) /\ EndedOK(y, e)
    <2>1. HeadOK(x) /\ EndedOK(x, e)
        BY DEF CutOK
    <2>2. /\ y \in SyncQueueType
          /\ y.fifo = [x.fifo EXCEPT ![s] = Append(@, ts)]
          /\ y.head = [x.head EXCEPT ![s] = IF x.head[s] < ts THEN ts ELSE x.head[s]]
          /\ HeadOK(x) => HeadOK(y)
          /\ \A d : EndedOK(x, d) /\ s \notin d => EndedOK(y, d)
        BY <1>3, SendDoes, Zenon
    <2> HIDE DEF y
    <2> QED
        BY <2>1, <2>2 DEF top
<1> HIDE DEF y
<1>8. /\ \A r \in Streams : y.fifo[r] = IF r = s THEN Append(x.fifo[s], ts) ELSE x.fifo[r]
      /\ \A r \in Streams : y.head[r] = IF r = s THEN top ELSE x.head[r]
    BY <1>4, <1>7
<1>9. /\ Len(y.fifo[s]) = Len(x.fifo[s]) + 1 /\ y.fifo[s][Len(x.fifo[s]) + 1] = ts
      /\ \A i \in 1 .. Len(x.fifo[s]) : y.fifo[s][i] = x.fifo[s][i]
    <2>1. x.fifo[s] \in Seq(Nat) /\ y.fifo[s] = Append(x.fifo[s], ts)
        BY <1>4, <1>8
    <2> QED
        BY <1>3, <2>1
<1>10. \A r \in Streams : Count(y, wr, r) = IF r = s THEN Count(x, wr, r) + 1 ELSE Count(x, wr, r)
    <2>1. Count(y, wr, s) = Count(x, wr, s) + 1
        <3>1. /\ Count(y, wr, s) = wr[s] + Len(y.fifo[s])
              /\ Count(x, wr, s) = wr[s] + Len(x.fifo[s])
            BY DEF Count
        <3> QED
            BY ONLY <1>1, <1>9, <3>1
    <2>2. ASSUME NEW r \in Streams, r # s
          PROVE  Count(y, wr, r) = Count(x, wr, r)
        <3>1. y.fifo[r] = x.fifo[r]
            BY <1>8, <2>2
        <3> QED
            BY <3>1 DEF Count
    <2> QED
        BY <2>1, <2>2
<1>11. Queued(y, wr)
    <2>1. ASSUME NEW r \in Streams, r # s
          PROVE  /\ Count(y, wr, r) <= MaxPackets
                 /\ IsTop(r, Count(y, wr, r), y.head[r])
                 /\ \A i \in 1 .. Len(y.fifo[r]) : y.fifo[r][i] = End(r, wr[r] + i)
        BY <1>8, <1>10, <2>1 DEF CutOK, Queued
    <2>2. IsTop(s, Count(y, wr, s), y.head[s]) /\ Count(y, wr, s) <= MaxPackets
        BY <1>2, <1>6, <1>8, <1>10 DEF k
    <2>3. \A i \in 1 .. Len(y.fifo[s]) : y.fifo[s][i] = End(s, wr[s] + i)
        <3> TAKE i \in 1 .. Len(y.fifo[s])
        <3>1. CASE i \in 1 .. Len(x.fifo[s])
            BY <1>9, <3>1 DEF CutOK, Queued
        <3>2. CASE i = Len(x.fifo[s]) + 1
            <4>1. wr[s] + i = k + 1
                BY <1>1, <3>2
            <4> QED
                BY <1>9, <3>2, <4>1 DEF ts
        <3>3. i \in 1 .. Len(x.fifo[s]) + 1
            BY <1>9
        <3>4. i \in 1 .. Len(x.fifo[s]) \/ i = Len(x.fifo[s]) + 1
            BY <1>1, <3>3
        <3> QED
            BY <3>1, <3>2, <3>4
    <2> QED
        BY <2>1, <2>2, <2>3 DEF Queued
<1>12. Below(y, wr)
    <2>1. \A r \in Streams : x.head[r] <= y.head[r]
        <3> TAKE r \in Streams
        <3>1. x.head[r] <= x.head[r]
            <4>1. x.head[r] \in Stamps
                BY <1>4
            <4> HIDE DEF y
            <4> QED
                BY <4>1 DEF Stamps
        <3> QED
            BY <1>5, <1>8, <3>1
    <2>2. Limit(x) <= Limit(y) /\ Limit(x) \in Stamps /\ Limit(y) \in Stamps
        BY <1>7, <2>1, LimitGrows, LimitIs DEF CutOK
    <2>3. ASSUME NEW r \in Streams, NEW n \in 1 .. wr[r] PROVE End(r, n) <= Limit(y)
        <3>1. End(r, n) <= Limit(x)
            BY DEF CutOK, Below
        <3>2. wr[r] \in Nat /\ wr[r] <= Count(x, wr, r) /\ Count(x, wr, r) \in Nat /\ Count(x, wr, r) <= MaxPackets
            BY CountIs DEF CutOK, Queued
        <3>3. n \in 1 .. MaxPackets
            BY <3>2, BoundsAssumption
        <3>4. End(r, n) \in Nat
            BY <3>3, EndIsNat
        <3> QED
            BY <2>2, <3>1, <3>4 DEF Stamps
    <2> QED
        BY <2>3 DEF Below
<1> QED
    BY <1>7, <1>10, <1>11, <1>12 DEF y, ts, k

(* The end of a stream. *)
LEMMA FinishCut ==
    ASSUME NEW x, x \in SyncQueueType, NEW wr \in [Streams -> Nat], NEW e, CutOK(x, wr, e),
           NEW s \in Streams
    PROVE  LET y == finish_stream(x, s)
           IN  /\ y \in SyncQueueType
               /\ HeadOK(y) /\ EndedOK(y, e \union {s}) /\ Queued(y, wr) /\ Below(y, wr)
               /\ \A r \in Streams : Count(y, wr, r) = Count(x, wr, r)
<1> DEFINE y == finish_stream(x, s)
<1>1. /\ y \in SyncQueueType
      /\ y.fifo = x.fifo /\ y.head = x.head /\ y.headStream = x.headStream
      /\ EndedOK(y, e \union {s})
    BY FinishDoes DEF CutOK
<1> HIDE DEF y
<1>2. HeadOK(y) /\ Limit(y) = Limit(x)
    BY <1>1 DEF CutOK, HeadOK, Limit
<1>3. \A r \in Streams : Count(y, wr, r) = Count(x, wr, r)
    BY <1>1 DEF Count
<1>4. Queued(y, wr) /\ Below(y, wr)
    BY <1>1, <1>2, <1>3 DEF CutOK, Queued, Below
<1> QED
    BY <1>1, <1>2, <1>3, <1>4 DEF y

(* All that belongs into the file is in it. *)
Whole == \A s \in Streams :
    /\ written[s] <= length[s]
    /\ \A n \in 1 .. written[s] : ~Passes(s, n)
    /\ \A n \in 1 .. length[s] :
          (\A k \in 1 .. n : ~Passes(s, k)) /\ (\A k \in 1 .. n - 1 : ~Reaches(s, k))
              => n <= written[s]

LEMMA LengthIs ==
    ASSUME Handed
    PROVE  \A s \in Streams : length[s] \in Nat \ {0} /\ length[s] <= MaxPackets
BY BoundsAssumption DEF Handed

(* The other one of the two streams. *)
LEMMA OtherIs ==
    ASSUME NEW s \in Streams
    PROVE  /\ Other(s) \in Streams \ {s} /\ \A r \in Streams \ {s} : r = Other(s)
           /\ \A r \in Streams : r = s \/ r = Other(s)
BY TwoStreams DEF Other

LEMMA CutWhole ==
    ASSUME Handed, Mixed, NEW e, CutOK(sq, written, e), sq.finished = Streams,
           \A s \in Streams : Count(sq, written, s) <= length[s],
           \A s \in Streams : s \in e => Count(sq, written, s) = length[s]
    PROVE  Whole
<1>1. /\ sq \in SyncQueueType /\ written \in [Streams -> Nat]
      /\ HeadOK(sq) /\ EndedOK(sq, e) /\ Queued(sq, written) /\ Below(sq, written) /\ Beyond(sq, written)
    BY DEF Mixed, CutOK
<1> SUFFICES ASSUME NEW s \in Streams
             PROVE  /\ written[s] <= length[s]
                    /\ \A n \in 1 .. written[s] : ~Passes(s, n)
                    /\ \A n \in 1 .. length[s] :
                          (\A k \in 1 .. n : ~Passes(s, k)) /\ (\A k \in 1 .. n - 1 : ~Reaches(s, k))
                              => n <= written[s]
    BY DEF Whole
<1> DEFINE k(t) == Count(sq, written, t)
           r == Other(s)
<1>2. r \in Streams /\ r # s /\ (\A t \in Streams \ {s} : t = r) /\ (\A t \in Streams : t = s \/ t = r)
    BY OtherIs
<1>3. \A t \in Streams : /\ k(t) \in Nat /\ written[t] \in Nat /\ written[t] <= k(t) /\ k(t) <= length[t]
                         /\ length[t] \in Nat \ {0} /\ length[t] <= MaxPackets
    BY <1>1, CountIs, LengthIs
<1>4. \A t \in Streams : \A n \in 1 .. length[t] : End(t, n) \in Nat
    <2> TAKE t \in Streams
    <2> TAKE n \in 1 .. length[t]
    <2>1. n \in 1 .. MaxPackets
        BY <1>3, BoundsAssumption
    <2> QED
        BY <2>1, EndIsNat
<1>5. \A t \in Streams : IsTop(t, k(t), sq.head[t])
    BY <1>1 DEF Queued
<1>6. \A t \in Streams : t \in e => k(t) = length[t]
    OBVIOUS
<1> HIDE DEF k, r
<1>7. /\ Limit(sq) \in Stamps /\ (\A t \in Streams : Limit(sq) <= sq.head[t] /\ sq.head[t] \in Stamps)
      /\ \E t \in Streams : Limit(sq) = sq.head[t]
    BY <1>1, LimitIs
<1>8. ASSUME NEW t \in Streams, t \notin e
      PROVE  \E u \in Streams : u # t /\ u \in e /\ sq.head[u] <= sq.head[t]
    <2>1. sq.headFinished # 0 /\ sq.headFinished \in e /\ sq.head[sq.headFinished] <= sq.head[t]
        BY <1>1, <1>8 DEF EndedOK
    <2>2. sq.headFinished \in Streams
        BY <1>1, <2>1, QueueType
    <2> QED
        BY <1>8, <2>1, <2>2
<1>9. ASSUME NEW n \in 1 .. written[s] PROVE ~Passes(s, n)
    <2>1. n \in 1 .. length[s] /\ End(s, n) <= Limit(sq)
        BY <1>1, <1>3 DEF Below
    <2>2. End(s, n) <= sq.head[r] /\ sq.head[r] # -1
        BY <1>2, <1>4, <1>7, <2>1 DEF Stamps
    <2>3. PICK m \in 1 .. k(r) : End(r, m) = sq.head[r]
        BY <1>2, <1>5, <2>2 DEF IsTop
    <2>4. m \in 1 .. length[r]
        BY <1>2, <1>3
    <2>5. ~(End(r, m) < End(s, n))
        BY <1>2, <1>4, <2>1, <2>2, <2>3, <2>4
    <2> QED
        BY <1>2, <2>4, <2>5 DEF Passes
<1>10. ASSUME NEW n \in 1 .. length[s], written[s] < n,
              \A i \in 1 .. n : ~Passes(s, i), \A i \in 1 .. n - 1 : ~Reaches(s, i)
       PROVE  FALSE
    <2>1. CASE n <= k(s)
        <3> DEFINE w == written[s] + 1
        <3>1. w \in 1 .. n /\ w \in 1 .. length[s] /\ w \in 1 .. k(s)
            BY <1>3, <1>10, <2>1
        <3> HIDE DEF w
        <3>2. sq.fifo[s] # <<>>
            <4>1. written[s] < k(s)
                BY <1>3, <1>10, <2>1
            <4>2. Len(<<>>) = 0
                OBVIOUS
            <4> QED
                BY <1>3, <4>1, <4>2 DEF k, Count
        <3>3. Limit(sq) < End(s, w) /\ End(s, w) <= sq.head[s] /\ End(s, w) \in Nat
            BY <1>1, <1>4, <1>5, <3>1, <3>2 DEF Beyond, IsTop, w
        <3>4. Limit(sq) = sq.head[r]
            BY <1>2, <1>7, <3>3 DEF Stamps
        <3>5. PICK m \in 1 .. length[r] : ~(End(r, m) < End(s, w))
            BY <1>2, <1>10, <3>1 DEF Passes
        <3>6. End(s, w) <= End(r, m) /\ End(r, m) \in Nat
            BY <1>2, <1>4, <3>3, <3>5
        <3>7. r \notin e
            <4> SUFFICES ASSUME r \in e PROVE FALSE
                OBVIOUS
            <4>1. m \in 1 .. k(r)
                BY <1>2, <1>6
            <4>2. End(r, m) <= sq.head[r]
                BY <1>2, <1>5, <4>1 DEF IsTop
            <4> QED
                BY <1>2, <1>7, <3>3, <3>4, <3>6, <4>2 DEF Stamps
        <3>8. sq.head[s] <= sq.head[r]
            BY <1>2, <1>8, <3>7
        <3> QED
            BY <1>2, <1>7, <3>3, <3>4, <3>8 DEF Stamps
    <2>2. CASE k(s) < n
        <3>1. s \notin e
            BY <1>3, <1>6, <2>2
        <3>2. r \in e /\ sq.head[r] <= sq.head[s]
            BY <1>2, <1>8, <3>1
        <3>3. \A m \in 1 .. length[r] : End(r, m) <= sq.head[r] /\ End(r, m) \in Nat
            BY <1>2, <1>4, <1>5, <1>6, <3>2 DEF IsTop
        <3>4. 1 \in 1 .. length[r]
            BY <1>2, <1>3
        <3>5. sq.head[s] # -1
            BY <1>2, <1>7, <3>2, <3>3, <3>4 DEF Stamps
        <3>6. PICK i \in 1 .. k(s) : End(s, i) = sq.head[s]
            BY <1>5, <3>5 DEF IsTop
        <3>7. i \in 1 .. n - 1
            BY <1>3, <2>2
        <3>8. \A m \in 1 .. length[r] : End(r, m) <= End(s, i)
            BY <1>2, <1>7, <3>2, <3>3, <3>6 DEF Stamps
        <3>9. Reaches(s, i)
            BY <1>2, <3>8 DEF Reaches
        <3> QED
            BY <1>10, <3>7, <3>9
    <2> QED
        BY <1>3, <2>1, <2>2
<1>11. \A n \in 1 .. length[s] : n <= written[s] \/ written[s] < n
    BY <1>3
<1> QED
    BY <1>3, <1>9, <1>10, <1>11

-----------------------------------------------------------------------------
(* The way of the packets *)

(* A thread without a packet in hand, with one, and at its end. *)
Empty == {"read", "receive", "sent"}
Full == {"wait", "send", "open", "flush"}
Leaving == {"finish", "close", "closed", "exit", "done"}

(* Who fills the queue of a worker, and who sends a stream to the muxer. *)
Up == [dec |-> Demux[2], filter |-> "dec", enc |-> "filter"]
Sender == <<Demux[1], "enc">>
Path(t) == IF t = Demux[1] THEN 1 ELSE 2

(* When thread t has given c[t] packets on, it has taken so many. *)
Took(c, t) == IF t \in Workers THEN c[Up[t]] - Len(fifo[t]) ELSE hand[t]

Link(c, t) ==
    /\ c[t] <= Took(c, t) /\ Took(c, t) <= c[t] + 1
    /\ pc[t] \in Empty => Took(c, t) = c[t]
    /\ pc[t] \in Full => Took(c, t) = c[t] + 1 /\ hand[t] = Took(c, t)

InTurn(c, w) == \A i \in 1 .. Len(fifo[w]) : fifo[w][i].n = Took(c, w) + i

Chain(c) == (\A t \in Movers : Link(c, t)) /\ (\A w \in Workers : InTurn(c, w))

(* The packets of a stream: written or in the sync queue up to Muxed, in the muxer's
   queue up to m, in the pre-muxing queue up to what its sender has given. *)
Muxed(s) == Count(sq, written, s)

Arrived(c, m, s) ==
    /\ Muxed(s) <= m[s] /\ m[s] <= c[Sender[s]]
    /\ Line(fifo["mux"], s, Muxed(s), m[s])
    /\ Lot(premux[s], m[s], c[Sender[s]])

(* What has been told to be the end of a stream is. *)
Closed(c, m, s) ==
    /\ c[Sender[s]] - m[s] < Len(premux[s]) => pc[Sender[s]] \in Leaving
    /\ s \in sendFinished["mux"] => pc[Sender[s]] \in Leaving /\ m[s] = c[Sender[s]]
    /\ s \in recvFinished["mux"] => s \in sendFinished["mux"] /\ Muxed(s) = m[s]

(* Without a failure a thread ends when its input has. *)
Drained(c) == failing = None => \A t \in Movers : pc[t] \in Leaving => c[t] = length[Path(t)]

Way(c, m) ==
    /\ c \in [Movers -> Nat] /\ m \in [Streams -> Nat]
    /\ Chain(c)
    /\ \A s \in Streams : Arrived(c, m, s) /\ Closed(c, m, s)
    /\ Drained(c)

Gone ==
    /\ \A w \in Workers : /\ 2 \in sendFinished[w] => pc[Up[w]] \in Leaving
                          /\ 2 \in recvFinished[w] => pc[w] \in Leaving
                          /\ w \in dstFinished => pc[w] \in Leaving
    /\ initEof = {}
    /\ muxStarted => /\ \A s \in Streams : premux[s] = <<>>
                     /\ pc["filter"] \notin {"open", "flush"} /\ pc["mux"] # "not started"
    /\ pc["filter"] = "open" => pc["mux"] = "not started"
    /\ pc["filter"] = "flush" => pc["mux"] # "not started"

Under ==
    /\ Gone
    /\ CutOK(sq, written, recvFinished["mux"])
    /\ \E c, m : Way(c, m)

(* The muxer takes packets, or will. *)
Muxing == pc["mux"] \in {"not started", "receive"}

LEMMA Ways ==
    /\ Up["dec"] = Demux[2] /\ Up["filter"] = "dec" /\ Up["enc"] = "filter"
    /\ \A w \in Workers : /\ Up[w] \in Movers /\ Up[w] # w /\ Up[w] # Sender[1] /\ Up[w] # Sender[2]
                          /\ w # "mux" /\ Path(w) = 2 /\ w \in Movers /\ w # Demux[1] /\ w # Demux[2]
                          /\ w \in Queues /\ w \in Threads
    /\ \A v, w \in Workers : Up[v] = Up[w] => v = w
    /\ \A w \in Workers \ {"enc"} : Feeds[w] \in Workers /\ Up[Feeds[w]] = w
    /\ Sender[1] = Demux[1] /\ Sender[2] = "enc" /\ Sender[1] # Sender[2]
    /\ \A s \in Streams : /\ Sender[s] \in Movers /\ Path(Sender[s]) = s
                          /\ Demux[s] \in Movers /\ Path(Demux[s]) = s /\ Demux[s] \in Threads
    /\ "mux" \in Queues /\ "mux" \notin Movers /\ "main" \notin Movers
    /\ \A t \in Movers : t \in Threads /\ (t \in Workers \/ t = Demux[1] \/ t = Demux[2])
    /\ 1 \in Streams /\ 2 \in Streams /\ Coded = 2 /\ Copied = 1
<1>1. Up["dec"] = Demux[2] /\ Up["filter"] = "dec" /\ Up["enc"] = "filter"
    BY DEF Up
<1>2. Sender[1] = Demux[1] /\ Sender[2] = "enc"
    BY DEF Sender
<1>3. Movers = {"dec", "filter", "enc", Demux[1], Demux[2]}
    BY Names DEF Movers
<1>4. "mux" \in Queues
    BY DEF Queues
<1> QED
    BY <1>1, <1>2, <1>3, <1>4, Names DEF Path

LEMMA Labels ==
    /\ Empty \cap Full = {} /\ Empty \cap Leaving = {} /\ Full \cap Leaving = {}
BY DEF Empty, Full, Leaving

(* The parts of a way. *)
LEMMA WayIs ==
    ASSUME Shaped, NEW c, NEW m, Way(c, m)
    PROVE  /\ \A t \in Movers : c[t] \in Nat /\ Link(c, t)
           /\ \A s \in Streams : m[s] \in Nat /\ Arrived(c, m, s) /\ Closed(c, m, s)
           /\ \A w \in Workers : InTurn(c, w) /\ fifo[w] \in Seq(Packet) /\ Len(fifo[w]) \in Nat
           /\ \A s \in Streams : Muxed(s) \in Nat
<1>1. \A q \in Queues : fifo[q] \in Seq(Packet)
    BY DEF Shaped, Boxed
<1>2. \A w \in Workers : fifo[w] \in Seq(Packet) /\ Len(fifo[w]) \in Nat
    BY <1>1, Ways
<1>3. \A s \in Streams : Muxed(s) \in Nat
    BY CountIs DEF Muxed, Shaped, Mixed
<1> QED
    BY <1>2, <1>3 DEF Way, Chain

(* Nobody has taken more than the input has. *)
LEMMA TookAtMost ==
    ASSUME Shaped, NEW c, NEW m, Way(c, m)
    PROVE  \A t \in Movers : Took(c, t) \in Int /\ Took(c, t) <= length[Path(t)] /\ length[Path(t)] \in Nat
<1>1. \A t \in Movers : c[t] \in Nat /\ c[t] <= Took(c, t)
    BY WayIs DEF Link
<1>2. \A w \in Workers : Len(fifo[w]) \in Nat /\ Took(c, w) = c[Up[w]] - Len(fifo[w])
    BY WayIs DEF Took
<1>3. \A s \in Streams : /\ hand[Demux[s]] \in Nat /\ length[s] \in Nat /\ hand[Demux[s]] <= length[s]
                         /\ Took(c, Demux[s]) = hand[Demux[s]]
    BY Ways, HandIs, LengthIs DEF Shaped, Handed, Took
<1>4. ASSUME NEW w \in Workers, Took(c, Up[w]) \in Int, Took(c, Up[w]) <= length[2]
      PROVE  Took(c, w) \in Int /\ Took(c, w) <= length[2]
    <2>1. c[Up[w]] \in Nat /\ c[Up[w]] <= Took(c, Up[w])
        BY <1>1, Ways
    <2> QED
        BY <1>2, <1>3, <1>4, <2>1, Ways
<1>5. Took(c, "dec") \in Int /\ Took(c, "dec") <= length[2]
    BY <1>3, <1>4, Ways, AreWorkers
<1>6. Took(c, "filter") \in Int /\ Took(c, "filter") <= length[2]
    BY <1>4, <1>5, Ways, AreWorkers
<1>7. Took(c, "enc") \in Int /\ Took(c, "enc") <= length[2]
    BY <1>4, <1>6, Ways, AreWorkers
<1>8. \A w \in Workers : w \in {"dec", "filter", "enc"}
    BY DEF Workers
<1> QED
    BY <1>3, <1>5, <1>6, <1>7, <1>8, Ways

(* A thread goes on without giving or taking a packet. *)
Quiet(u) ==
    /\ pc'[u] \in Full => pc[u] \in Full /\ hand'[u] = hand[u]
    /\ pc'[u] \in Empty => pc[u] \in Empty
    /\ pc[u] \in Leaving => pc'[u] \in Leaving
    /\ u \notin Workers => hand'[u] = hand[u]

LEMMA Keep ==
    ASSUME Shaped, NEW c, NEW m, Way(c, m),
           UNCHANGED <<length, fifo, premux, sq, written>>,
           \A u \in Movers : Quiet(u),
           sendFinished["mux"] \subseteq sendFinished'["mux"],
           \A s \in Streams : s \in sendFinished'["mux"] /\ s \notin sendFinished["mux"] =>
               pc'[Sender[s]] \in Leaving /\ premux[s] = <<>>,
           recvFinished'["mux"] = recvFinished["mux"],
           failing' = None => failing = None /\ \A u \in Movers :
               pc'[u] \in Leaving => pc[u] \in Leaving \/ c[u] = length[Path(u)]
    PROVE  Way(c, m)'
<1>1. /\ c \in [Movers -> Nat] /\ m \in [Streams -> Nat]
      /\ \A t \in Movers : Link(c, t) /\ Quiet(t)
      /\ \A w \in Workers : InTurn(c, w)
      /\ \A s \in Streams : Arrived(c, m, s) /\ Closed(c, m, s)
    BY DEF Way, Chain
<1>2. \A t \in Movers : Took(c, t)' = Took(c, t)
    BY DEF Took, Quiet
<1>3. \A t \in Movers : Link(c, t)'
    BY <1>1, <1>2 DEF Link, Quiet
<1>4. \A w \in Workers : InTurn(c, w)'
    BY <1>1, <1>2, Ways DEF InTurn
<1>5. \A s \in Streams : Muxed(s)' = Muxed(s)
    BY DEF Muxed, Count
<1>6. \A s \in Streams : Arrived(c, m, s)'
    BY <1>1, <1>5 DEF Arrived
<1>7. ASSUME NEW s \in Streams PROVE Closed(c, m, s)'
    <2>1. Closed(c, m, s) /\ Quiet(Sender[s]) /\ Sender[s] \in Movers
        BY <1>1, Ways
    <2>2. (c[Sender[s]] - m[s] < Len(premux[s]))' => pc'[Sender[s]] \in Leaving
        BY <2>1 DEF Closed, Quiet
    <2>3. s \in sendFinished'["mux"] => pc'[Sender[s]] \in Leaving /\ m[s] = c[Sender[s]]
        <3>1. CASE s \in sendFinished["mux"]
            BY <2>1, <3>1 DEF Closed, Quiet
        <3>2. CASE s \in sendFinished'["mux"] /\ s \notin sendFinished["mux"]
            <4>1. premux[s] = <<>> /\ Len(premux[s]) = 0
                BY <3>2
            <4>2. c[Sender[s]] - m[s] <= 0 /\ m[s] <= c[Sender[s]]
                BY <1>1, <4>1 DEF Arrived, Lot
            <4>3. c[Sender[s]] \in Nat /\ m[s] \in Nat
                BY <1>1, <2>1
            <4> QED
                BY <3>2, <4>2, <4>3
        <3> QED
            BY <3>1, <3>2
    <2>4. s \in recvFinished'["mux"] => s \in sendFinished'["mux"] /\ Muxed(s)' = m[s]
        BY <1>5, <2>1 DEF Closed
    <2> QED
        BY <2>2, <2>3, <2>4 DEF Closed
<1>8. Drained(c)'
    BY <1>1 DEF Way, Drained
<1> QED
    BY <1>1, <1>3, <1>4, <1>6, <1>7, <1>8 DEF Way, Chain

-----------------------------------------------------------------------------
(* Steps that give or take a packet *)

LEMMA GotoDoes ==
    ASSUME Shaped, NEW t \in Threads, NEW l, Goto(t, l)
    PROVE  Moved(t, {l})
BY DEF Shaped, Goto, Moved

LEMMA LinkStays ==
    ASSUME NEW c, NEW d, NEW t, Link(c, t), d[t] = c[t], Took(d, t)' = Took(c, t),
           pc'[t] = pc[t], hand'[t] = hand[t]
    PROVE  Link(d, t)'
BY DEF Link

(* A stream whose sender and whose packets beyond the sender stay as they are. *)
LEMMA StreamStays ==
    ASSUME NEW c, NEW d, NEW m, NEW k, NEW s \in Streams, Arrived(c, m, s), Closed(c, m, s),
           d[Sender[s]] = c[Sender[s]], k[s] = m[s], premux'[s] = premux[s],
           fifo'["mux"] = fifo["mux"] \/ Line(fifo'["mux"], s, Muxed(s), m[s]),
           UNCHANGED <<sq, written>>,
           s \in sendFinished'["mux"] <=> s \in sendFinished["mux"],
           s \in recvFinished'["mux"] <=> s \in recvFinished["mux"],
           pc[Sender[s]] \in Leaving => pc'[Sender[s]] \in Leaving
    PROVE  Arrived(d, k, s)' /\ Closed(d, k, s)'
<1>1. Muxed(s)' = Muxed(s)
    BY DEF Muxed, Count
<1>2. Arrived(d, k, s)'
    BY <1>1 DEF Arrived
<1>3. Closed(d, k, s)'
    BY <1>1 DEF Closed
<1> QED
    BY <1>2, <1>3

(* A demuxer has read a packet. *)
LEMMA ReadWay ==
    ASSUME Shaped, NEW c, NEW m, Way(c, m), NEW s \in Streams,
           pc[Demux[s]] = "read", Moved(Demux[s], {"wait", "send"}),
           hand' = [hand EXCEPT ![Demux[s]] = @ + 1],
           UNCHANGED <<length, queues, premux, muxing, failing>>
    PROVE  Way(c, m)'
<1> DEFINE d == Demux[s]
<1>0. d \in Movers /\ d \in Threads /\ d \notin Workers
    BY Ways, Names
<1>1. UNCHANGED <<length, fifo, premux, sq, written, sendFinished, recvFinished, failing>>
    BY DEF queues, muxing
<1>2. /\ hand'[d] = hand[d] + 1 /\ \A t \in Threads \ {d} : hand'[t] = hand[t]
      /\ pc'[d] \in Full /\ \A t \in Threads \ {d} : pc'[t] = pc[t]
      /\ pc[d] \in Empty
    BY <1>0 DEF Moved, Full, Empty, Shaped, Handed
<1>3. /\ Link(c, d) /\ c[d] \in Nat /\ Took(c, d) = hand[d] /\ Took(c, d)' = hand'[d]
    BY <1>0, WayIs DEF Took
<1>4. Link(c, d)'
    <2>1. hand'[d] = c[d] + 1
        BY <1>2, <1>3 DEF Link
    <2> QED
        BY <1>2, <1>3, <2>1, Labels DEF Link
<1>5. \A t \in Movers \ {d} : Link(c, t)'
    <2> TAKE t \in Movers \ {d}
    <2>1. t \in Threads /\ Link(c, t)
        BY Ways, WayIs
    <2>2. Took(c, t)' = Took(c, t) /\ hand'[t] = hand[t] /\ pc'[t] = pc[t]
        BY <1>1, <1>2, <2>1 DEF Took
    <2> QED
        BY <2>1, <2>2, LinkStays
<1>6. \A w \in Workers : InTurn(c, w)'
    BY <1>1, WayIs DEF InTurn, Took
<1>7. \A r \in Streams : Arrived(c, m, r)' /\ Closed(c, m, r)'
    <2> TAKE r \in Streams
    <2>1. Sender[r] \in Threads /\ Arrived(c, m, r) /\ Closed(c, m, r)
        BY Ways, WayIs
    <2>2. pc[Sender[r]] \in Leaving => pc'[Sender[r]] \in Leaving
        BY <1>2, <2>1, Labels
    <2> QED
        BY <1>1, <2>1, <2>2, StreamStays
<1>8. Drained(c)'
    <2>1. \A t \in Movers : pc'[t] \in Leaving => pc[t] \in Leaving
        BY <1>2, Ways, Labels
    <2> QED
        BY <1>1, <2>1 DEF Way, Drained
<1> QED
    BY <1>4, <1>5, <1>6, <1>7, <1>8 DEF Way, Chain

(* A thread gives its packet to the worker v behind it. *)
LEMMA PassWay ==
    ASSUME Shaped, NEW c, NEW m, Way(c, m), NEW v \in Workers, NEW t, t = Up[v],
           pc[t] = "send", Moved(t, {"read", "receive"}),
           Put(v, 2, hand[t]),
           hand' = hand \/ (t \in Workers /\ hand' = [hand EXCEPT ![t] = 0]),
           UNCHANGED <<length, premux, muxing, failing>>
    PROVE  \E d : Way(d, m)'
<1> DEFINE d == [c EXCEPT ![t] = @ + 1]
           p == [stream |-> 2, n |-> hand[t]]
<1>0. /\ t \in Movers /\ t \in Threads /\ t # v /\ v \in Queues /\ v # "mux" /\ "mux" \in Queues
      /\ \A w \in Workers : w # v => Up[w] # t
      /\ \A s \in Streams : Sender[s] # t
    <2>1. /\ t \in Movers /\ t \in Threads /\ t # v /\ v \in Queues /\ v # "mux" /\ "mux" \in Queues
          /\ t # Sender[1] /\ t # Sender[2]
        BY Ways
    <2>2. \A w \in Workers : w # v => Up[w] # t
        BY Ways
    <2> QED
        BY <2>1, <2>2, TwoStreams
<1>1. /\ UNCHANGED <<length, premux, sq, written, sendFinished, recvFinished, failing>>
      /\ fifo' = [fifo EXCEPT ![v] = Append(@, p)]
    BY DEF Put, muxing
<1>2. /\ fifo'[v] = Append(fifo[v], p) /\ \A q \in Queues \ {v} : fifo'[q] = fifo[q]
      /\ fifo[v] \in Seq(Packet)
    BY <1>0, <1>1 DEF Shaped, Boxed
<1>3. /\ pc[t] \in Full /\ pc'[t] \in Empty /\ \A u \in Threads \ {t} : pc'[u] = pc[u]
      /\ \A u \in Threads \ {t} : hand'[u] = hand[u]
      /\ t \notin Workers => hand' = hand
    BY <1>0 DEF Moved, Full, Empty, Shaped, Handed
<1>4. /\ \A u \in Movers : c[u] \in Nat /\ Link(c, u)
      /\ c \in [Movers -> Nat] /\ m \in [Streams -> Nat]
    BY WayIs DEF Way
<1>5. d \in [Movers -> Nat] /\ d[t] = c[t] + 1 /\ \A u \in Movers \ {t} : d[u] = c[u]
    BY <1>0, <1>4
<1> HIDE DEF d, p
<1>6. Took(c, t) = c[t] + 1 /\ hand[t] = c[t] + 1
    BY <1>0, <1>3, <1>4 DEF Link
<1>7. Took(d, t)' = Took(c, t)
    <2>1. CASE t \in Workers
        <3>1. Up[t] \in Movers /\ Up[t] # t /\ fifo'[t] = fifo[t]
            BY <1>0, <1>2, <2>1, Ways
        <3> QED
            BY <1>5, <2>1, <3>1 DEF Took
    <2>2. CASE t \notin Workers
        BY <1>3, <2>2 DEF Took
    <2> QED
        BY <2>1, <2>2
<1>8. Link(d, t)'
    BY <1>3, <1>4, <1>5, <1>6, <1>7, <1>0, Labels DEF Link
<1>9. Len(fifo[v]) \in Nat /\ Len(fifo'[v]) = Len(fifo[v]) + 1 /\ fifo'[v][Len(fifo[v]) + 1] = p
      /\ \A i \in 1 .. Len(fifo[v]) : fifo'[v][i] = fifo[v][i]
    BY <1>2
<1>10. Took(c, v) = c[t] - Len(fifo[v]) /\ Took(d, v)' = Took(c, v)
    <2>1. Took(d, v)' = (c[t] + 1) - (Len(fifo[v]) + 1) /\ Took(c, v) = c[t] - Len(fifo[v])
        BY <1>5, <1>9 DEF Took
    <2>2. c[t] \in Nat
        BY <1>0, <1>4
    <2>3. Len(fifo[v]) \in Nat
        BY <1>9
    <2>4. (c[t] + 1) - (Len(fifo[v]) + 1) = c[t] - Len(fifo[v])
        BY ONLY <2>2, <2>3
    <2> QED
        BY ONLY <2>1, <2>4
<1>11. \A w \in Workers \ {v} : w # t => Took(d, w)' = Took(c, w) /\ fifo'[w] = fifo[w]
    <2> TAKE w \in Workers \ {v}
    <2>1. Up[w] \in Movers /\ Up[w] # t /\ fifo'[w] = fifo[w]
        BY <1>0, <1>2, Ways
    <2> QED
        BY <1>5, <2>1 DEF Took
<1>12. \A u \in Movers \ {t} : Link(d, u)'
    <2> TAKE u \in Movers \ {t}
    <2>1. /\ u \in Threads /\ Link(c, u) /\ d[u] = c[u] /\ hand'[u] = hand[u] /\ pc'[u] = pc[u]
        BY <1>3, <1>4, <1>5, Ways
    <2>2. Took(d, u)' = Took(c, u)
        <3>1. CASE u \in Workers
            BY <1>10, <1>11, <3>1
        <3>2. CASE u \notin Workers
            BY <2>1, <3>2 DEF Took
        <3> QED
            BY <3>1, <3>2
    <2> QED
        BY <2>1, <2>2, LinkStays
<1>13. \A w \in Workers \ {v} : InTurn(d, w)'
    <2> TAKE w \in Workers \ {v}
    <2>1. InTurn(c, w) /\ fifo'[w] = fifo[w]
        BY <1>2, WayIs, Ways
    <2>2. Took(d, w)' = Took(c, w)
        BY <1>7, <1>11
    <2> QED
        BY <2>1, <2>2 DEF InTurn
<1>14. InTurn(d, v)'
    <2> SUFFICES ASSUME NEW i \in 1 .. Len(fifo'[v]) PROVE fifo'[v][i].n = Took(c, v) + i
        BY <1>10 DEF InTurn
    <2>1. CASE i \in 1 .. Len(fifo[v])
        BY <1>9, <2>1, WayIs DEF InTurn
    <2>2. CASE i = Len(fifo[v]) + 1
        <3>1. fifo'[v][i].n = c[t] + 1 /\ c[t] \in Nat
            BY <1>0, <1>4, <1>6, <1>9, <2>2 DEF p
        <3> QED
            BY <1>9, <1>10, <2>2, <3>1
    <2>3. i \in 1 .. Len(fifo[v]) \/ i = Len(fifo[v]) + 1
        BY <1>9
    <2> QED
        BY <2>1, <2>2, <2>3
<1>15. \A s \in Streams : Arrived(d, m, s)' /\ Closed(d, m, s)'
    <2> TAKE s \in Streams
    <2>1. /\ Sender[s] \in Movers /\ Sender[s] \in Threads /\ Sender[s] # t
          /\ Arrived(c, m, s) /\ Closed(c, m, s)
        BY <1>0, Ways, WayIs
    <2>2. d[Sender[s]] = c[Sender[s]] /\ pc'[Sender[s]] = pc[Sender[s]] /\ fifo'["mux"] = fifo["mux"]
        BY <1>0, <1>2, <1>3, <1>5, <2>1
    <2> QED
        BY <1>1, <2>1, <2>2, StreamStays
<1>16. Drained(d)'
    <2>1. pc'[t] \notin Leaving
        BY <1>3, Labels
    <2>2. \A u \in Movers \ {t} : pc'[u] = pc[u] /\ d[u] = c[u]
        BY <1>3, <1>5, Ways
    <2> QED
        BY <1>1, <2>1, <2>2 DEF Way, Drained
<1>17. Way(d, m)'
    BY <1>4, <1>5, <1>8, <1>12, <1>13, <1>14, <1>15, <1>16 DEF Way, Chain
<1> QED
    BY <1>17

(* A worker takes the first packet of its queue. *)
LEMMA TakeWay ==
    ASSUME Shaped, NEW c, NEW m, Way(c, m), NEW w \in Workers,
           pc[w] = "receive", Moved(w, {"open", "send"}), fifo[w] # <<>>,
           hand' = [hand EXCEPT ![w] = Head(fifo[w]).n],
           fifo' = [fifo EXCEPT ![w] = Tail(@)],
           UNCHANGED <<length, sendFinished, recvFinished, premux, muxing, failing>>
    PROVE  Way(c, m)'
<1>0. /\ w \in Movers /\ w \in Threads /\ w \in Queues /\ w # "mux" /\ "mux" \in Queues
    BY Ways, Names
<1>1. UNCHANGED <<length, premux, sq, written, sendFinished, recvFinished, failing>>
    BY DEF muxing
<1>2. /\ fifo'[w] = Tail(fifo[w]) /\ \A q \in Queues \ {w} : fifo'[q] = fifo[q]
      /\ fifo[w] \in Seq(Packet)
    BY <1>0 DEF Shaped, Boxed
<1>3. /\ pc[w] \in Empty /\ pc'[w] \in Full /\ \A u \in Threads \ {w} : pc'[u] = pc[u]
      /\ hand'[w] = Head(fifo[w]).n /\ \A u \in Threads \ {w} : hand'[u] = hand[u]
    BY <1>0 DEF Moved, Full, Empty, Shaped, Handed
<1>4. /\ Len(fifo[w]) \in Nat \ {0} /\ Len(fifo'[w]) = Len(fifo[w]) - 1
      /\ Head(fifo[w]) = fifo[w][1] /\ \A i \in 1 .. Len(fifo'[w]) : fifo'[w][i] = fifo[w][i + 1]
    <2> DEFINE q == fifo[w]
    <2>1. q \in Seq(Packet) /\ q # <<>> /\ fifo'[w] = Tail(q)
        BY <1>2
    <2> HIDE DEF q
    <2>2. /\ Len(q) \in Nat \ {0} /\ Len(Tail(q)) = Len(q) - 1 /\ Head(q) = q[1]
          /\ \A i \in 1 .. Len(Tail(q)) : Tail(q)[i] = q[i + 1]
        BY <2>1, HeadTail
    <2> QED
        BY <2>1, <2>2 DEF q
<1>5. /\ \A u \in Movers : c[u] \in Nat /\ Link(c, u)
      /\ Up[w] \in Movers /\ InTurn(c, w)
    BY WayIs, Ways
<1>6. Took(c, w) = c[w] /\ Took(c, w)' = c[w] + 1
    <2>1. Took(c, w) = c[w]
        BY <1>0, <1>3, <1>5 DEF Link
    <2>2. Took(c, w) = c[Up[w]] - Len(fifo[w]) /\ Took(c, w)' = c[Up[w]] - Len(fifo'[w])
        BY DEF Took
    <2>3. c[Up[w]] \in Nat
        BY <1>5
    <2> QED
        BY <1>4, <2>1, <2>2, <2>3
<1>7. hand'[w] = c[w] + 1
    <2>1. 1 \in 1 .. Len(fifo[w])
        BY <1>4
    <2> QED
        BY <1>3, <1>4, <1>5, <1>6, <2>1 DEF InTurn
<1>8. Link(c, w)'
    <2>1. c[w] \in Nat
        BY <1>0, <1>5
    <2> QED
        BY <1>3, <1>6, <1>7, <2>1, Labels DEF Link
<1>9. \A u \in Movers \ {w} : Took(c, u)' = Took(c, u) /\ Link(c, u)'
    <2> TAKE u \in Movers \ {w}
    <2>1. u \in Threads /\ Link(c, u) /\ hand'[u] = hand[u] /\ pc'[u] = pc[u]
        BY <1>3, <1>5, Ways
    <2>2. Took(c, u)' = Took(c, u)
        <3>1. CASE u \in Workers
            <4>1. fifo'[u] = fifo[u]
                BY <1>2, <3>1, Ways
            <4> QED
                BY <4>1 DEF Took
        <3>2. CASE u \notin Workers
            BY <2>1, <3>2 DEF Took
        <3> QED
            BY <3>1, <3>2
    <2> QED
        BY <2>1, <2>2, LinkStays
<1>10. \A v \in Workers \ {w} : InTurn(c, v)'
    <2> TAKE v \in Workers \ {w}
    <2>1. InTurn(c, v) /\ fifo'[v] = fifo[v] /\ Took(c, v)' = Took(c, v)
        BY <1>2, <1>9, WayIs, Ways
    <2> QED
        BY <2>1 DEF InTurn
<1>11. InTurn(c, w)'
    <2> SUFFICES ASSUME NEW i \in 1 .. Len(fifo'[w]) PROVE fifo'[w][i].n = (c[w] + 1) + i
        BY <1>6 DEF InTurn
    <2>1. i + 1 \in 1 .. Len(fifo[w])
        BY <1>4
    <2>2. fifo[w][i + 1].n = c[w] + (i + 1)
        BY <1>5, <1>6, <2>1 DEF InTurn
    <2>3. c[w] \in Nat
        BY <1>0, <1>5
    <2> QED
        BY <1>4, <2>2, <2>3
<1>12. \A s \in Streams : Arrived(c, m, s)' /\ Closed(c, m, s)'
    <2> TAKE s \in Streams
    <2>1. Sender[s] \in Threads /\ Arrived(c, m, s) /\ Closed(c, m, s)
        BY Ways, WayIs
    <2>2. pc[Sender[s]] \in Leaving => pc'[Sender[s]] \in Leaving
        BY <1>3, <2>1, Labels
    <2>3. fifo'["mux"] = fifo["mux"]
        BY <1>0, <1>2
    <2> QED
        BY <1>1, <2>1, <2>2, <2>3, StreamStays
<1>13. Drained(c)'
    <2>1. \A u \in Movers : pc'[u] \in Leaving => pc[u] \in Leaving
        BY <1>3, Ways, Labels
    <2> QED
        BY <1>1, <2>1 DEF Way, Drained
<1> QED
    BY <1>8, <1>9, <1>10, <1>11, <1>12, <1>13 DEF Way, Chain

-----------------------------------------------------------------------------
(* The muxer's queue and the pre-muxing queue *)

(* The threads whose packets have left the worker queues alone. *)
LEMMA ThreadsStay ==
    ASSUME Shaped, NEW c, NEW d, NEW m, Way(c, m), NEW t \in Movers,
           \A u \in Movers \ {t} : pc'[u] = pc[u] /\ d[u] = c[u],
           \A w \in Workers : fifo'[w] = fifo[w] /\ d[Up[w]] = c[Up[w]],
           hand' = hand
    PROVE  /\ \A u \in Movers \ {t} : Link(d, u)'
           /\ \A u \in Movers : Took(d, u)' = Took(c, u)
           /\ \A w \in Workers : InTurn(d, w)'
<1>1. \A u \in Movers : Took(d, u)' = Took(c, u)
    BY DEF Took
<1>2. \A u \in Movers \ {t} : Link(d, u)'
    <2> TAKE u \in Movers \ {t}
    <2>1. Link(c, u) /\ Took(d, u)' = Took(c, u)
        BY <1>1, WayIs
    <2> QED
        BY <2>1, LinkStays
<1>3. \A w \in Workers : InTurn(d, w)'
    BY <1>1, WayIs, Ways DEF InTurn
<1> QED
    BY <1>1, <1>2, <1>3

(* A thread that feeds no worker gives its packet away. *)
LEMMA GiveWay ==
    ASSUME Shaped, NEW c, NEW m, Way(c, m), NEW t \in Movers, \A w \in Workers : Up[w] # t,
           pc[t] = "send", Moved(t, {"sent"}),
           \A w \in Workers : fifo'[w] = fifo[w], hand' = hand,
           NEW d \in [Movers -> Nat], d[t] = c[t] + 1, \A u \in Movers \ {t} : d[u] = c[u]
    PROVE  /\ \A u \in Movers : Link(d, u)'
           /\ \A w \in Workers : InTurn(d, w)'
           /\ hand[t] = c[t] + 1
           /\ \A u \in Movers : pc'[u] \in Leaving => pc[u] \in Leaving /\ d[u] = c[u]
           /\ pc[t] \notin Leaving /\ pc'[t] \notin Leaving
           /\ \A u \in Movers \ {t} : pc'[u] = pc[u]
<1>1. /\ pc[t] \in Full /\ pc'[t] \in Empty /\ \A u \in Movers \ {t} : pc'[u] = pc[u]
    BY Ways DEF Moved, Full, Empty
<1>2. c[t] \in Nat /\ Link(c, t)
    BY WayIs
<1>3. /\ \A u \in Movers \ {t} : Link(d, u)'
      /\ Took(d, t)' = Took(c, t)
      /\ \A w \in Workers : InTurn(d, w)'
    <2>1. \A w \in Workers : fifo'[w] = fifo[w] /\ d[Up[w]] = c[Up[w]]
        BY Ways
    <2>2. \A u \in Movers \ {t} : pc'[u] = pc[u] /\ d[u] = c[u]
        BY <1>1
    <2> QED
        BY <2>1, <2>2, ThreadsStay
<1>4. Took(c, t) = c[t] + 1 /\ hand[t] = c[t] + 1
    BY <1>1, <1>2 DEF Link
<1>5. Link(d, t)'
    BY <1>1, <1>2, <1>3, <1>4, Labels DEF Link
<1>6. \A u \in Movers : pc'[u] \in Leaving => pc[u] \in Leaving /\ d[u] = c[u]
    BY <1>1, Labels
<1>7. pc[t] \notin Leaving /\ pc'[t] \notin Leaving
    BY <1>1, Labels
<1> QED
    BY <1>1, <1>3, <1>4, <1>5, <1>6, <1>7

LEMMA SenderIs ==
    ASSUME NEW s \in Streams
    PROVE  /\ Sender[s] \in Movers /\ Sender[s] \in Threads
           /\ Sender[s] # "mux" /\ Sender[s] # "filter" /\ Sender[s] # "dec"
           /\ \A w \in Workers : Up[w] \in Movers /\ Up[w] # Sender[s]
           /\ \A r \in Streams \ {s} : Sender[r] \in Movers /\ Sender[r] # Sender[s]
<1>1. s = 1 \/ s = 2
    BY TwoStreams
<1>2. \A w \in Workers : Up[w] \in Movers /\ Up[w] # Sender[s]
    BY <1>1, Ways
<1>3. \A r \in Streams \ {s} : Sender[r] \in Movers /\ Sender[r] # Sender[s]
    BY <1>1, Ways, TwoStreams
<1>4. Sender[s] # "mux" /\ Sender[s] # "filter" /\ Sender[s] # "dec"
    <2>1. Sender[1] = "video demuxer" /\ Sender[2] = "enc"
        BY Ways, Names
    <2> QED
        BY <1>1, <2>1
<1> QED
    BY <1>2, <1>3, <1>4, Ways

(* A packet waits until the muxer has started. *)
LEMMA PremuxWay ==
    ASSUME Shaped, NEW c, NEW m, Way(c, m), NEW s \in Streams, NEW t, t = Sender[s],
           pc[t] = "send", Moved(t, {"sent"}),
           premux' = [premux EXCEPT ![s] = Append(@, hand[t])],
           UNCHANGED <<length, hand, queues, muxing, failing>>
    PROVE  \E d : Way(d, m)'
<1> DEFINE d == [c EXCEPT ![t] = @ + 1]
<1>0. /\ t \in Movers /\ t \in Threads /\ (\A w \in Workers : Up[w] \in Movers /\ Up[w] # t)
      /\ \A r \in Streams \ {s} : Sender[r] \in Movers /\ Sender[r] # t
    BY SenderIs
<1>1. UNCHANGED <<length, hand, fifo, sendFinished, recvFinished, sq, written, failing>>
    BY DEF queues, muxing
<1>2. /\ d \in [Movers -> Nat] /\ m \in [Streams -> Nat]
      /\ d[t] = c[t] + 1 /\ \A u \in Movers \ {t} : d[u] = c[u]
    BY <1>0 DEF Way
<1> HIDE DEF d
<1>3. /\ \A u \in Movers : Link(d, u)'
      /\ \A w \in Workers : InTurn(d, w)'
      /\ hand[t] = c[t] + 1
      /\ \A u \in Movers : pc'[u] \in Leaving => pc[u] \in Leaving /\ d[u] = c[u]
      /\ pc[t] \notin Leaving /\ pc'[t] \notin Leaving
      /\ \A u \in Movers \ {t} : pc'[u] = pc[u]
    BY <1>0, <1>1, <1>2, GiveWay
<1>4. /\ \A r \in Streams \ {s} : d[Sender[r]] = c[Sender[r]] /\ pc'[Sender[r]] = pc[Sender[r]]
    BY <1>0, <1>2, <1>3
<1>5. /\ premux'[s] = Append(premux[s], c[t] + 1) /\ premux[s] \in Seq(Nat)
      /\ \A r \in Streams \ {s} : premux'[r] = premux[r]
    <2>1. premux \in [Streams -> Seq(0 .. MaxPackets)]
        BY DEF Shaped, Parked
    <2>2. premux[s] \in Seq(0 .. MaxPackets) /\ 0 .. MaxPackets \subseteq Nat
        BY <2>1, BoundsAssumption
    <2>3. premux[s] \in Seq(Nat)
        BY <2>2, SeqMonotonic
    <2> QED
        BY <1>2, <1>3, <1>4, <2>1, <2>3
<1>6. \A r \in Streams \ {s} : Arrived(d, m, r)' /\ Closed(d, m, r)'
    <2> TAKE r \in Streams \ {s}
    <2>1. Arrived(c, m, r) /\ Closed(c, m, r)
        BY WayIs
    <2> QED
        BY <1>1, <1>2, <1>3, <1>4, <1>5, <2>1, StreamStays
<1>7. /\ c[t] \in Nat /\ m[s] \in Nat /\ Arrived(c, m, s) /\ Closed(c, m, s)
      /\ Muxed(s) \in Nat /\ Muxed(s)' = Muxed(s)
    BY <1>1, WayIs, Ways DEF Muxed, Count
<1>8. m[s] <= c[t] /\ Lot(premux[s], m[s], c[t])
    BY <1>7 DEF Arrived
<1>9. Len(premux[s]) \in Nat /\ Len(premux[s]) <= c[t] - m[s] /\ Len(premux'[s]) = Len(premux[s]) + 1
    <2>1. ~ (c[t] - m[s] < Len(premux[s]))
        BY <1>2, <1>3, <1>4, <1>7 DEF Closed
    <2> QED
        BY <1>2, <1>3, <1>4, <1>5, <1>7, <2>1
<1>10. Lot(premux'[s], m[s], c[t] + 1)
    BY <1>5, <1>7, <1>8, <1>9, LotAppend
<1>11. Arrived(d, m, s)'
    <2>1. m[s] <= c[t] + 1
        BY <1>7, <1>8
    <2> QED
        BY <1>1, <1>2, <1>3, <1>4, <1>7, <1>10, <2>1 DEF Arrived
<1>12. Closed(d, m, s)'
    <2>1. ~ ((c[t] + 1) - m[s] < Len(premux'[s]))
        BY <1>7, <1>9
    <2>2. s \notin sendFinished["mux"] /\ s \notin recvFinished["mux"]
        BY <1>2, <1>3, <1>4, <1>7 DEF Closed
    <2> QED
        BY <1>1, <1>2, <1>3, <1>4, <2>1, <2>2 DEF Closed
<1>13. Drained(d)'
    BY <1>1, <1>2, <1>3, <1>4 DEF Way, Drained
<1>14. Way(d, m)'
    BY <1>2, <1>3, <1>4, <1>6, <1>11, <1>12, <1>13 DEF Way, Chain
<1> QED
    BY <1>14

(* A packet goes into the muxer's queue. *)
LEMMA PutWay ==
    ASSUME Shaped, NEW c, NEW m, Way(c, m), NEW s \in Streams, NEW t, t = Sender[s],
           pc[t] = "send", Moved(t, {"sent"}), premux[s] = <<>>,
           Put("mux", s, hand[t]),
           UNCHANGED <<length, hand, premux, muxing, failing>>
    PROVE  \E d, k : Way(d, k)'
<1> DEFINE d == [c EXCEPT ![t] = @ + 1]
           k == [m EXCEPT ![s] = @ + 1]
           p == [stream |-> s, n |-> hand[t]]
<1>0. /\ t \in Movers /\ t \in Threads /\ (\A w \in Workers : Up[w] \in Movers /\ Up[w] # t)
      /\ \A r \in Streams \ {s} : Sender[r] \in Movers /\ Sender[r] # t
    BY SenderIs
<1>1. /\ UNCHANGED <<length, hand, sendFinished, recvFinished, sq, written, failing>>
      /\ fifo' = [fifo EXCEPT !["mux"] = Append(@, p)]
    BY DEF Put, muxing
<1>2. /\ fifo'["mux"] = Append(fifo["mux"], p) /\ (\A w \in Workers : fifo'[w] = fifo[w])
      /\ fifo["mux"] \in Seq(Packet) /\ p \in Packet
    <2>1. "mux" \in Queues /\ t \in Threads /\ \A w \in Workers : w \in Queues /\ w # "mux"
        BY Ways
    <2>2. fifo["mux"] \in Seq(Packet)
        BY <2>1 DEF Shaped, Boxed
    <2>3. p \in Packet
        BY <2>1, HandIs DEF Shaped, Packet
    <2> HIDE DEF p
    <2> QED
        BY <1>1, <2>1, <2>2, <2>3 DEF Shaped, Boxed
<1>3. /\ d \in [Movers -> Nat] /\ m \in [Streams -> Nat]
      /\ d[t] = c[t] + 1 /\ \A u \in Movers \ {t} : d[u] = c[u]
    BY <1>0 DEF Way
<1> HIDE DEF d
<1>4. /\ \A u \in Movers : Link(d, u)'
      /\ \A w \in Workers : InTurn(d, w)'
      /\ hand[t] = c[t] + 1
      /\ \A u \in Movers : pc'[u] \in Leaving => pc[u] \in Leaving /\ d[u] = c[u]
      /\ pc[t] \notin Leaving /\ pc'[t] \notin Leaving
      /\ \A u \in Movers \ {t} : pc'[u] = pc[u]
    <2>1. (\A w \in Workers : fifo'[w] = fifo[w]) /\ hand' = hand
        BY <1>1, <1>2
    <2> QED
        BY <1>0, <1>3, <2>1, GiveWay
<1>5. /\ \A r \in Streams \ {s} : d[Sender[r]] = c[Sender[r]] /\ pc'[Sender[r]] = pc[Sender[r]]
    BY <1>0, <1>3, <1>4
<1>6. k \in [Streams -> Nat] /\ k[s] = m[s] + 1 /\ \A r \in Streams \ {s} : k[r] = m[r]
    BY <1>3, <1>4, <1>5
<1> HIDE DEF k
<1>7. p.stream = s /\ p.n = c[t] + 1
    BY <1>3, <1>4, <1>5
<1> HIDE DEF p
<1>8. \A r \in Streams : /\ Arrived(c, m, r) /\ Closed(c, m, r)
                         /\ Muxed(r) \in Nat /\ Muxed(r)' = Muxed(r) /\ m[r] \in Nat
    BY <1>1, WayIs DEF Muxed, Count
<1>9. \A r \in Streams \ {s} : Arrived(d, k, r)' /\ Closed(d, k, r)'
    <2> TAKE r \in Streams \ {s}
    <2>1. Line(fifo'["mux"], r, Muxed(r), m[r])
        <3>1. Line(fifo["mux"], r, Muxed(r), m[r]) /\ Muxed(r) <= m[r]
            BY <1>8 DEF Arrived
        <3> QED
            BY <1>2, <1>7, <1>8, <3>1, LineAppend
    <2> QED
        BY <1>1, <1>3, <1>4, <1>5, <1>6, <1>8, <2>1, StreamStays
<1>10. c[t] \in Nat /\ m[s] = c[t]
    <2>1. c[t] \in Nat /\ m[s] \in Nat
        BY <1>8, WayIs, Ways
    <2>2. m[s] <= c[t] /\ c[t] - m[s] <= Len(premux[s]) /\ Len(premux[s]) = 0
        BY <1>8 DEF Arrived, Lot
    <2> QED
        BY <2>1, <2>2
<1>11. Arrived(d, k, s)'
    <2>1. Line(fifo["mux"], s, Muxed(s), m[s]) /\ Muxed(s) <= m[s]
        BY <1>8 DEF Arrived
    <2>2. Line(fifo'["mux"], s, Muxed(s), m[s] + 1)
        BY <1>2, <1>7, <1>8, <1>10, <2>1, LineAppend
    <2>3. Lot(premux'[s], m[s] + 1, c[t] + 1)
        BY <1>10 DEF Lot
    <2>4. Muxed(s) <= m[s] + 1
        BY <1>8, <2>1
    <2> QED
        BY <1>3, <1>4, <1>5, <1>6, <1>8, <1>10, <2>2, <2>3, <2>4 DEF Arrived
<1>12. Closed(d, k, s)'
    <2>1. s \notin sendFinished["mux"] /\ s \notin recvFinished["mux"]
        BY <1>3, <1>4, <1>5, <1>8 DEF Closed
    <2>2. ~ ((c[t] + 1) - (m[s] + 1) < Len(premux'[s]))
        BY <1>10
    <2> QED
        BY <1>1, <1>3, <1>4, <1>5, <1>6, <2>1, <2>2 DEF Closed
<1>13. Drained(d)'
    BY <1>1, <1>3, <1>4, <1>5 DEF Way, Drained
<1>14. Way(d, k)'
    BY <1>3, <1>4, <1>5, <1>6, <1>9, <1>11, <1>12, <1>13 DEF Way, Chain
<1> QED
    BY <1>14

(* The pre-muxing queue of a stream, in numbers. *)
LEMMA ParkedIs ==
    ASSUME Shaped, NEW s \in Streams
    PROVE  premux[s] \in Seq(Nat) /\ Len(premux[s]) \in Nat
<1>1. premux[s] \in Seq(0 .. MaxPackets) /\ 0 .. MaxPackets \subseteq Nat
    BY BoundsAssumption DEF Shaped, Parked
<1>2. premux[s] \in Seq(Nat)
    BY <1>1, SeqMonotonic
<1> QED
    BY <1>2

(* The threads go on as they did: nothing has been taken from or given to them. *)
LEMMA ThreadsWait ==
    ASSUME Shaped, NEW c, NEW m, Way(c, m),
           \A w \in Workers : fifo'[w] = fifo[w],
           \A u \in Movers : pc'[u] = pc[u] \/ (pc[u] \in Leaving /\ pc'[u] \in Leaving),
           UNCHANGED <<length, hand, failing>>
    PROVE  Chain(c)' /\ Drained(c)' /\ \A u \in Movers : pc'[u] \in Leaving <=> pc[u] \in Leaving
<1>1. \A u \in Movers : Took(c, u)' = Took(c, u)
    BY DEF Took
<1>2. \A u \in Movers : Link(c, u)'
    <2> TAKE u \in Movers
    <2>1. Link(c, u) /\ Took(c, u)' = Took(c, u)
        BY <1>1, WayIs
    <2>2. CASE pc'[u] = pc[u]
        BY <2>1, <2>2 DEF Link
    <2>3. CASE pc[u] \in Leaving /\ pc'[u] \in Leaving
        BY <2>1, <2>3, Labels DEF Link
    <2> QED
        BY <2>2, <2>3
<1>3. \A w \in Workers : InTurn(c, w)'
    BY <1>1, WayIs, Ways DEF InTurn
<1>4. \A u \in Movers : pc'[u] \in Leaving <=> pc[u] \in Leaving
    OBVIOUS
<1>5. Drained(c)'
    BY <1>4 DEF Way, Drained
<1> QED
    BY <1>2, <1>3, <1>4, <1>5 DEF Chain

(* The end of a stream waits until the muxer has started. *)
LEMMA PremuxEndWay ==
    ASSUME Shaped, NEW c, NEW m, Way(c, m), NEW s \in Streams,
           pc[Sender[s]] = "close", Moved(Sender[s], {"closed"}),
           premux' = [premux EXCEPT ![s] = Append(@, 0)],
           UNCHANGED <<length, hand, queues, muxing, failing>>
    PROVE  Way(c, m)'
<1>1. UNCHANGED <<length, hand, fifo, sendFinished, recvFinished, sq, written, failing>>
    BY DEF queues, muxing
<1>2. /\ pc[Sender[s]] \in Leaving /\ pc'[Sender[s]] \in Leaving
      /\ \A u \in Movers \ {Sender[s]} : pc'[u] = pc[u]
    BY Ways DEF Moved, Leaving
<1>3. Chain(c)' /\ Drained(c)' /\ \A u \in Movers : pc'[u] \in Leaving <=> pc[u] \in Leaving
    BY <1>1, <1>2, ThreadsWait
<1>4. /\ premux'[s] = Append(premux[s], 0) /\ \A r \in Streams \ {s} : premux'[r] = premux[r]
    BY DEF Shaped, Parked
<1>5. \A r \in Streams \ {s} : Arrived(c, m, r)' /\ Closed(c, m, r)'
    <2> TAKE r \in Streams \ {s}
    <2>1. Arrived(c, m, r) /\ Closed(c, m, r) /\ Sender[r] \in Movers
        BY WayIs, Ways
    <2>2. pc[Sender[r]] \in Leaving => pc'[Sender[r]] \in Leaving
        BY <1>3, <2>1
    <2> QED
        BY <1>1, <1>4, <2>1, <2>2, StreamStays
<1>6. /\ Arrived(c, m, s) /\ Closed(c, m, s) /\ Muxed(s)' = Muxed(s)
      /\ c[Sender[s]] \in Nat /\ m[s] \in Nat
    BY <1>1, WayIs, Ways DEF Muxed, Count
<1>7. Lot(premux'[s], m[s], c[Sender[s]])
    <2>1. m[s] <= c[Sender[s]] /\ Lot(premux[s], m[s], c[Sender[s]])
        BY <1>6 DEF Arrived
    <2> QED
        BY <1>4, <1>6, <2>1, ParkedIs, LotAppend
<1>8. Arrived(c, m, s)'
    BY <1>1, <1>6, <1>7 DEF Arrived
<1>9. Closed(c, m, s)'
    BY <1>1, <1>2, <1>6 DEF Closed
<1> QED
    BY <1>3, <1>5, <1>8, <1>9 DEF Way

(* A packet goes from the pre-muxing queue into the muxer's. *)
LEMMA FlushWay ==
    ASSUME Shaped, NEW c, NEW m, Way(c, m), NEW s \in Streams, premux[s] # <<>>,
           Head(premux[s]) # 0, premux' = [premux EXCEPT ![s] = Tail(@)],
           Put("mux", s, Head(premux[s])),
           UNCHANGED <<length, pc, hand, muxing, failing>>
    PROVE  \E k : Way(c, k)'
<1> DEFINE k == [m EXCEPT ![s] = @ + 1]
           p == [stream |-> s, n |-> Head(premux[s])]
<1>1. /\ UNCHANGED <<length, pc, hand, sendFinished, recvFinished, sq, written, failing>>
      /\ fifo' = [fifo EXCEPT !["mux"] = Append(@, p)]
    BY DEF Put, muxing
<1>2. /\ c \in [Movers -> Nat] /\ m \in [Streams -> Nat]
      /\ Sender[s] \in Movers /\ c[Sender[s]] \in Nat /\ m[s] \in Nat
      /\ Arrived(c, m, s) /\ Closed(c, m, s)
    BY WayIs, Ways DEF Way
<1>3. /\ premux'[s] = Tail(premux[s]) /\ \A r \in Streams \ {s} : premux'[r] = premux[r]
    BY DEF Shaped, Parked
<1>4. /\ Head(premux[s]) = m[s] + 1 /\ m[s] < c[Sender[s]]
      /\ Lot(premux'[s], m[s] + 1, c[Sender[s]])
    <2>1. m[s] <= c[Sender[s]] /\ Lot(premux[s], m[s], c[Sender[s]])
        BY <1>2 DEF Arrived
    <2> QED
        BY <1>2, <1>3, <2>1, ParkedIs, LotTail
<1>5. p \in Packet
    <2>1. premux[s] \in Seq(0 .. MaxPackets)
        BY DEF Shaped, Parked
    <2>2. Head(premux[s]) \in 0 .. MaxPackets
        BY <2>1, HeadTail
    <2> QED
        BY <2>2 DEF Packet
<1>6. p.stream = s /\ p.n = m[s] + 1
    BY <1>4
<1> HIDE DEF p
<1>7. /\ fifo'["mux"] = Append(fifo["mux"], p) /\ (\A w \in Workers : fifo'[w] = fifo[w])
      /\ fifo["mux"] \in Seq(Packet)
    BY <1>1, Ways DEF Shaped, Boxed
<1>8. k \in [Streams -> Nat] /\ k[s] = m[s] + 1 /\ \A r \in Streams \ {s} : k[r] = m[r]
    BY <1>2
<1> HIDE DEF k
<1>9. Chain(c)' /\ Drained(c)'
    BY <1>1, <1>7, ThreadsWait
<1>10. \A r \in Streams : /\ Arrived(c, m, r) /\ Closed(c, m, r)
                          /\ Muxed(r) \in Nat /\ Muxed(r)' = Muxed(r) /\ m[r] \in Nat
    BY <1>1, WayIs DEF Muxed, Count
<1>11. \A r \in Streams : Line(fifo["mux"], r, Muxed(r), m[r]) /\ Muxed(r) <= m[r]
    BY <1>10 DEF Arrived
<1>12. \A r \in Streams \ {s} : Arrived(c, k, r)' /\ Closed(c, k, r)'
    <2> TAKE r \in Streams \ {s}
    <2>1. Line(fifo'["mux"], r, Muxed(r), m[r])
        BY <1>5, <1>6, <1>7, <1>10, <1>11, LineAppend
    <2> QED
        BY <1>1, <1>3, <1>8, <1>10, <2>1, StreamStays
<1>13. Arrived(c, k, s)'
    <2>1. Line(fifo'["mux"], s, Muxed(s), m[s] + 1)
        BY <1>5, <1>6, <1>7, <1>10, <1>11, LineAppend
    <2>2. Muxed(s) <= m[s] + 1 /\ m[s] + 1 <= c[Sender[s]]
        BY <1>2, <1>4, <1>10, <1>11
    <2> QED
        BY <1>4, <1>8, <1>10, <2>1, <2>2 DEF Arrived
<1>14. Closed(c, k, s)'
    <2>1. s \notin sendFinished["mux"] /\ s \notin recvFinished["mux"]
        BY <1>2, <1>4 DEF Closed
    <2>2. ASSUME c[Sender[s]] - (m[s] + 1) < Len(premux'[s]) PROVE pc[Sender[s]] \in Leaving
        <3>1. Len(premux[s]) \in Nat /\ Len(premux'[s]) = Len(premux[s]) - 1
            BY <1>3, ParkedIs, HeadTail
        <3>2. c[Sender[s]] - m[s] < Len(premux[s])
            BY <1>2, <2>2, <3>1
        <3> QED
            BY <1>2, <3>2 DEF Closed
    <2> QED
        BY <1>1, <1>8, <2>1, <2>2 DEF Closed
<1>15. Way(c, k)'
    BY <1>2, <1>8, <1>9, <1>12, <1>13, <1>14 DEF Way
<1> QED
    BY <1>15

(* The end of a stream goes from the pre-muxing queue to the muxer. *)
LEMMA FlushEndWay ==
    ASSUME Shaped, NEW c, NEW m, Way(c, m), NEW s \in Streams, premux[s] # <<>>,
           Head(premux[s]) = 0, premux' = [premux EXCEPT ![s] = Tail(@)],
           tq_send_finish("mux", s),
           UNCHANGED <<length, pc, hand, muxing, failing>>
    PROVE  Way(c, m)'
<1>1. /\ UNCHANGED <<length, pc, hand, fifo, recvFinished, sq, written, failing>>
      /\ sendFinished'["mux"] = sendFinished["mux"] \union {s}
    BY DEF tq_send_finish, muxing, Shaped, Boxed, Queues
<1>2. /\ Sender[s] \in Movers /\ c[Sender[s]] \in Nat /\ m[s] \in Nat
      /\ Arrived(c, m, s) /\ Closed(c, m, s)
    BY WayIs, Ways
<1>3. /\ premux'[s] = Tail(premux[s]) /\ \A r \in Streams \ {s} : premux'[r] = premux[r]
    BY DEF Shaped, Parked
<1>4. /\ m[s] = c[Sender[s]] /\ Lot(premux'[s], m[s], c[Sender[s]])
    <2>1. m[s] <= c[Sender[s]] /\ Lot(premux[s], m[s], c[Sender[s]])
        BY <1>2 DEF Arrived
    <2> QED
        BY <1>2, <1>3, <2>1, ParkedIs, LotTail
<1>5. Chain(c)' /\ Drained(c)'
    BY <1>1, ThreadsWait
<1>6. \A r \in Streams : Arrived(c, m, r) /\ Closed(c, m, r) /\ Muxed(r)' = Muxed(r)
    BY <1>1, WayIs DEF Muxed, Count
<1>7. \A r \in Streams \ {s} : Arrived(c, m, r)' /\ Closed(c, m, r)'
    BY <1>1, <1>3, <1>6, StreamStays
<1>8. Arrived(c, m, s)'
    BY <1>1, <1>4, <1>6 DEF Arrived
<1>9. pc[Sender[s]] \in Leaving
    <2>1. 0 < Len(premux[s]) /\ c[Sender[s]] - m[s] = 0
        BY <1>2, <1>4, ParkedIs
    <2> QED
        BY <1>2, <2>1 DEF Closed
<1>10. Closed(c, m, s)'
    BY <1>1, <1>4, <1>6, <1>9 DEF Closed
<1> QED
    BY <1>5, <1>7, <1>8, <1>10 DEF Way

-----------------------------------------------------------------------------
(* The muxer's steps *)

(* The streams, when only the muxer has moved. *)
LEMMA MuxerWait ==
    ASSUME Shaped, NEW c, NEW m, Way(c, m), Moved("mux", {"receive", "finish"}),
           \A w \in Workers : fifo'[w] = fifo[w],
           UNCHANGED <<length, hand, premux, failing>>
    PROVE  /\ Chain(c)' /\ Drained(c)' /\ c \in [Movers -> Nat] /\ m \in [Streams -> Nat]
           /\ \A s \in Streams : pc'[Sender[s]] = pc[Sender[s]]
<1>1. \A u \in Movers : pc'[u] = pc[u]
    BY Ways DEF Moved
<1>2. Chain(c)' /\ Drained(c)'
    BY <1>1, ThreadsWait
<1> QED
    BY <1>1, <1>2, Ways DEF Way

(* What the muxer has got is not more than the inputs have. *)
LEMMA WayBound ==
    ASSUME Shaped, NEW c, NEW m, Way(c, m)
    PROVE  \A s \in Streams : /\ Muxed(s) \in Nat /\ m[s] \in Nat /\ c[Sender[s]] \in Nat /\ length[s] \in Nat
                              /\ Muxed(s) <= m[s] /\ m[s] <= c[Sender[s]] /\ c[Sender[s]] <= length[s]
                              /\ written[s] \in Nat /\ written[s] <= Muxed(s)
<1> TAKE s \in Streams
<1>1. Sender[s] \in Movers /\ Path(Sender[s]) = s
    BY Ways
<1>2. /\ Took(c, Sender[s]) \in Int /\ Took(c, Sender[s]) <= length[s] /\ length[s] \in Nat
    BY <1>1, TookAtMost
<1>3. c[Sender[s]] \in Nat /\ Link(c, Sender[s]) /\ m[s] \in Nat /\ Arrived(c, m, s) /\ Muxed(s) \in Nat
    BY <1>1, WayIs
<1>4. c[Sender[s]] <= Took(c, Sender[s]) /\ Muxed(s) <= m[s] /\ m[s] <= c[Sender[s]]
    BY <1>3 DEF Link, Arrived
<1>5. written[s] \in Nat /\ written[s] <= Muxed(s)
    BY CountIs DEF Muxed, Shaped, Mixed
<1> QED
    BY <1>2, <1>3, <1>4, <1>5

(* The packet that the muxer takes is the next one of its stream. *)
LEMMA NextPacket ==
    ASSUME Shaped, NEW c, NEW m, Way(c, m), MuxPacket
    PROVE  LET s == Head(fifo["mux"]).stream
               n == Head(fifo["mux"]).n
           IN  /\ s \in Streams /\ n = Muxed(s) + 1 /\ n <= m[s] /\ n \in 1 .. MaxPackets
               /\ fifo["mux"] \in Seq(Packet) /\ fifo["mux"] # <<>>
               /\ Line(Tail(fifo["mux"]), s, Muxed(s) + 1, m[s])
               /\ \A r \in Streams \ {s} : Line(Tail(fifo["mux"]), r, Muxed(r), m[r])
<1> DEFINE s == Head(fifo["mux"]).stream
           n == Head(fifo["mux"]).n
<1>1. fifo["mux"] \in Seq(Packet) /\ fifo["mux"] # <<>>
    BY Ways DEF MuxPacket, Shaped, Boxed
<1>2. s \in Streams /\ n \in Nat
    <2>1. Head(fifo["mux"]) \in Packet
        BY <1>1, HeadTail
    <2> QED
        BY <2>1, PacketIs
<1>3. \A r \in Streams : /\ Line(fifo["mux"], r, Muxed(r), m[r]) /\ Muxed(r) <= m[r]
                         /\ Muxed(r) \in Nat /\ m[r] \in Nat
    BY WayIs DEF Arrived
<1>4. /\ n = Muxed(s) + 1 /\ n <= m[s] /\ Line(Tail(fifo["mux"]), s, Muxed(s) + 1, m[s])
      /\ \A r \in Streams \ {s} : Line(Tail(fifo["mux"]), r, Muxed(r), m[r])
    BY <1>1, <1>2, <1>3, LineTail
<1> HIDE DEF s, n
<1>5. n \in 1 .. MaxPackets
    <2>1. m[s] <= length[s] /\ length[s] \in Nat
        BY <1>2, WayBound
    <2>2. length[s] <= MaxPackets
        BY <1>2, LengthIs DEF Shaped
    <2> QED
        BY <1>2, <1>3, <1>4, <2>1, <2>2, BoundsAssumption
<1> QED
    BY <1>1, <1>2, <1>4, <1>5 DEF s, n

LEMMA IsNumbered == Shaped /\ Under => Numbered
BY NextPacket DEF Under, Numbered

(* The muxer takes a packet. *)
LEMMA PacketWay ==
    ASSUME Shaped, NEW c, NEW m, Way(c, m), CutOK(sq, written, recvFinished["mux"]), MuxPacket
    PROVE  Way(c, m)' /\ CutOK(sq', written', recvFinished'["mux"])
<1> DEFINE s == Head(fifo["mux"]).stream
           n == Head(fifo["mux"]).n
           x == sq_send(sq, s, End(s, n))
<1>1. /\ fifo["mux"] # <<>> /\ fifo' = [fifo EXCEPT !["mux"] = Tail(@)] /\ Write(x)
      /\ UNCHANGED <<length, hand, sendFinished, recvFinished, premux, failing>>
    BY DEF MuxPacket, premuxing, stopping
<1>2. /\ fifo["mux"] \in Seq(Packet) /\ fifo'["mux"] = Tail(fifo["mux"])
      /\ \A w \in Workers : fifo'[w] = fifo[w]
    BY <1>1, Ways DEF Shaped, Boxed
<1>3. s \in Streams /\ n \in 1 .. MaxPackets
    BY NextPacket
<1>4. Moved("mux", {"receive", "finish"})
    <2>1. Goto("mux", "receive") \/ Goto("mux", "finish")
        BY <1>1 DEF Write
    <2> QED
        BY <2>1, Ways, Names, GotoDoes DEF Moved
<1>5. \A r \in Streams : /\ Arrived(c, m, r) /\ Closed(c, m, r)
                         /\ Muxed(r) \in Nat /\ m[r] \in Nat
    BY WayIs
<1>6. \A r \in Streams : Muxed(r) <= m[r]
    BY <1>5 DEF Arrived
<1>7. /\ n = Muxed(s) + 1 /\ n <= m[s] /\ Line(fifo'["mux"], s, Muxed(s) + 1, m[s])
      /\ \A r \in Streams \ {s} : Line(fifo'["mux"], r, Muxed(r), m[r])
    BY <1>2, NextPacket
<1>8. s \notin recvFinished["mux"]
    BY <1>3, <1>5, <1>7 DEF Closed
<1> HIDE DEF s, n, x
<1>9. /\ x \in SyncQueueType /\ HeadOK(x) /\ EndedOK(x, recvFinished["mux"])
      /\ Queued(x, written) /\ Below(x, written)
      /\ \A r \in Streams : Count(x, written, r) = IF r = s THEN Muxed(r) + 1 ELSE Muxed(r)
    <2>1. x = sq_send(sq, s, End(s, Count(sq, written, s) + 1))
        BY <1>7 DEF Muxed, x
    <2>2. sq \in SyncQueueType /\ written \in [Streams -> Nat]
        BY DEF Shaped, Mixed
    <2>3. Count(sq, written, s) + 1 <= MaxPackets
        BY <1>3, <1>7, BoundsAssumption DEF Muxed
    <2> QED
        BY <1>3, <1>8, <2>1, <2>2, <2>3, SendCut DEF Muxed
<1>10. /\ CutOK(sq', written', recvFinished["mux"])
       /\ \A r \in Streams : Muxed(r)' = IF r = s THEN Muxed(r) + 1 ELSE Muxed(r)
    <2>1. /\ CutOK(sq', written', recvFinished["mux"])
          /\ \A r \in Streams : Count(sq', written', r) = Count(x, written, r)
        BY <1>1, <1>9, WriteCut DEF Shaped
    <2> QED
        BY <1>9, <2>1 DEF Muxed
<1>11. /\ Chain(c)' /\ Drained(c)' /\ c \in [Movers -> Nat] /\ m \in [Streams -> Nat]
       /\ \A r \in Streams : pc'[Sender[r]] = pc[Sender[r]]
    BY <1>1, <1>2, <1>4, MuxerWait
<1>12. \A r \in Streams : Arrived(c, m, r)'
    <2> TAKE r \in Streams
    <2>1. CASE r = s
        <3>1. Muxed(r)' <= m[r] /\ Line(fifo'["mux"], r, Muxed(r)', m[r])
            BY <1>7, <1>10, <2>1
        <3> QED
            BY <1>1, <1>5, <3>1 DEF Arrived
    <2>2. CASE r # s
        <3>1. Muxed(r)' = Muxed(r) /\ Line(fifo'["mux"], r, Muxed(r), m[r])
            BY <1>7, <1>10, <2>2
        <3> QED
            BY <1>1, <1>5, <3>1 DEF Arrived
    <2> QED
        BY <2>1, <2>2
<1>13. \A r \in Streams : Closed(c, m, r)'
    <2> TAKE r \in Streams
    <2>1. r \in recvFinished["mux"] => Muxed(r)' = Muxed(r)
        BY <1>8, <1>10
    <2> QED
        BY <1>1, <1>5, <1>11, <2>1 DEF Closed
<1> QED
    BY <1>1, <1>10, <1>11, <1>12, <1>13 DEF Way

(* The muxer learns that a stream has ended. *)
LEMMA EndWay ==
    ASSUME Shaped, NEW c, NEW m, Way(c, m), CutOK(sq, written, recvFinished["mux"]), MuxEnd
    PROVE  Way(c, m)' /\ CutOK(sq', written', recvFinished'["mux"])
<1> DEFINE s == Min(Ending)
           x == finish_stream(sq, s)
<1>1. /\ fifo["mux"] = <<>> /\ Ending # {} /\ tq_receive_finish("mux", {s}) /\ Write(x)
      /\ UNCHANGED <<length, hand, fifo, sendFinished, premux, failing>>
    BY DEF MuxEnd, premuxing, stopping, tq_receive_finish
<1>2. s \in Streams /\ s \in sendFinished["mux"]
    BY <1>1, EndingIs DEF Shaped
<1>3. recvFinished'["mux"] = recvFinished["mux"] \union {s}
    BY <1>1 DEF tq_receive_finish, Shaped, Boxed, Queues
<1>4. Moved("mux", {"receive", "finish"})
    <2>1. Goto("mux", "receive") \/ Goto("mux", "finish")
        BY <1>1 DEF Write
    <2> QED
        BY <2>1, Ways, Names, GotoDoes DEF Moved
<1>5. \A r \in Streams : /\ Arrived(c, m, r) /\ Closed(c, m, r)
                         /\ Muxed(r) \in Nat /\ m[r] \in Nat
    BY WayIs
<1>6. Muxed(s) = m[s]
    <2>1. Line(fifo["mux"], s, Muxed(s), m[s]) /\ Muxed(s) <= m[s]
        BY <1>2, <1>5 DEF Arrived
    <2> QED
        BY <1>1, <1>2, <1>5, <2>1, LineEmpty
<1> HIDE DEF s
<1>7. /\ x \in SyncQueueType /\ HeadOK(x) /\ EndedOK(x, recvFinished'["mux"])
      /\ Queued(x, written) /\ Below(x, written)
      /\ \A r \in Streams : Count(x, written, r) = Muxed(r)
    <2>1. sq \in SyncQueueType /\ written \in [Streams -> Nat]
        BY DEF Shaped, Mixed
    <2> QED
        BY <1>2, <1>3, <2>1, FinishCut DEF Muxed
<1> HIDE DEF x
<1>8. /\ CutOK(sq', written', recvFinished'["mux"])
      /\ \A r \in Streams : Muxed(r)' = Muxed(r)
    <2>1. /\ CutOK(sq', written', recvFinished'["mux"])
          /\ \A r \in Streams : Count(sq', written', r) = Count(x, written, r)
        BY <1>1, <1>7, WriteCut DEF Shaped
    <2> QED
        BY <1>7, <2>1 DEF Muxed
<1>9. /\ Chain(c)' /\ Drained(c)' /\ c \in [Movers -> Nat] /\ m \in [Streams -> Nat]
      /\ \A r \in Streams : pc'[Sender[r]] = pc[Sender[r]]
    BY <1>1, <1>4, MuxerWait
<1>10. \A r \in Streams : Arrived(c, m, r)'
    BY <1>1, <1>5, <1>8 DEF Arrived
<1>11. \A r \in Streams : Closed(c, m, r)'
    BY <1>1, <1>2, <1>3, <1>5, <1>6, <1>8, <1>9 DEF Closed
<1> QED
    BY <1>8, <1>9, <1>10, <1>11 DEF Way

-----------------------------------------------------------------------------
(* Steps of a thread that neither take nor give *)

LEMMA GoneStays ==
    ASSUME Gone,
           \A u \in Movers : pc[u] \in Leaving => pc'[u] \in Leaving,
           \A w \in Workers : /\ 2 \in sendFinished'[w] => 2 \in sendFinished[w] \/ pc'[Up[w]] \in Leaving
                              /\ 2 \in recvFinished'[w] => 2 \in recvFinished[w] \/ pc'[w] \in Leaving
                              /\ w \in dstFinished' => w \in dstFinished \/ pc'[w] \in Leaving,
           initEof' = {}, muxStarted' => muxStarted /\ premux' = premux,
           pc'["mux"] = "not started" <=> pc["mux"] = "not started",
           pc'["filter"] = "open" => pc["filter"] = "open" \/ pc["mux"] = "not started",
           pc'["filter"] = "flush" => pc["filter"] = "flush"
    PROVE  Gone'
<1>1. \A w \in Workers : /\ 2 \in sendFinished'[w] => pc'[Up[w]] \in Leaving
                         /\ 2 \in recvFinished'[w] => pc'[w] \in Leaving
                         /\ w \in dstFinished' => pc'[w] \in Leaving
    BY Ways DEF Gone
<1>2. muxStarted' => /\ \A s \in Streams : premux'[s] = <<>>
                     /\ pc'["filter"] \notin {"open", "flush"} /\ pc'["mux"] # "not started"
    BY DEF Gone
<1>3. pc'["filter"] = "open" => pc'["mux"] = "not started"
    BY DEF Gone
<1>4. pc'["filter"] = "flush" => pc'["mux"] # "not started"
    BY DEF Gone
<1> QED
    BY <1>1, <1>2, <1>3, <1>4 DEF Gone

(* Other threads see nothing of what thread t does. *)
Alone(t) == \A u \in Threads \ {t} : pc'[u] = pc[u] /\ hand'[u] = hand[u]

(* Nobody is told of the end of a stream, but by a thread that ends. *)
Told ==
    /\ \A w \in Workers :
        /\ 2 \in sendFinished'[w] => 2 \in sendFinished[w] \/ pc'[Up[w]] \in Leaving
        /\ 2 \in recvFinished'[w] => 2 \in recvFinished[w] \/ pc'[w] \in Leaving
        /\ w \in dstFinished' => w \in dstFinished \/ pc'[w] \in Leaving
    /\ sendFinished["mux"] \subseteq sendFinished'["mux"]
    /\ \A s \in Streams : s \in sendFinished'["mux"] /\ s \notin sendFinished["mux"] =>
          pc'[Sender[s]] \in Leaving /\ premux[s] = <<>>
    /\ recvFinished'["mux"] = recvFinished["mux"]

LEMMA StepUnder ==
    ASSUME Shaped, Under, NEW t \in Threads, t # "mux", Alone(t), Told,
           t \in Movers => Quiet(t),
           UNCHANGED <<length, fifo, premux, sq, written, initEof, muxStarted>>,
           t = "filter" => pc'[t] \notin {"open", "flush"} \/ pc'[t] = pc[t],
           failing' = None => failing = None,
           failing' = None /\ t \in Movers /\ pc'[t] \in Leaving =>
               pc[t] \in Leaving \/ \A c, m : Way(c, m) => c[t] = length[Path(t)]
    PROVE  Under'
<1>1. /\ \A u \in Movers : Quiet(u)
      /\ \A u \in Movers \ {t} : pc'[u] = pc[u]
      /\ pc'["mux"] = pc["mux"]
    <2>1. \A u \in Movers \ {t} : u \in Threads /\ pc'[u] = pc[u] /\ hand'[u] = hand[u]
        BY Ways DEF Alone
    <2>2. \A u \in Movers \ {t} : Quiet(u)
        BY <2>1 DEF Quiet
    <2>3. pc'["mux"] = pc["mux"]
        BY Names DEF Alone
    <2> QED
        BY <2>1, <2>2, <2>3
<1>2. Gone'
    <2>1. \A u \in Movers : pc[u] \in Leaving => pc'[u] \in Leaving
        BY <1>1 DEF Quiet
    <2>2. pc'["filter"] \in {"open", "flush"} => pc'["filter"] = pc["filter"]
        BY Names DEF Alone
    <2> QED
        BY <1>1, <2>1, <2>2, GoneStays DEF Told, Under, Gone
<1>3. CutOK(sq', written', recvFinished'["mux"])
    BY DEF Under, Told
<1>4. PICK c, m : Way(c, m)
    BY DEF Under
<1>5. failing' = None => failing = None /\ \A u \in Movers :
          pc'[u] \in Leaving => pc[u] \in Leaving \/ c[u] = length[Path(u)]
    BY <1>1, <1>4
<1>6. Way(c, m)'
    BY <1>1, <1>4, <1>5, Keep DEF Told
<1> QED
    BY <1>2, <1>3, <1>6 DEF Under

(* A thread that ends goes on, and tells nobody. *)
LEMMA LeaveUnder ==
    ASSUME Shaped, Under, NEW t \in Movers, pc[t] \in Leaving, Moved(t, Leaving), Told,
           UNCHANGED <<length, hand, fifo, premux, sq, written, initEof, muxStarted, failing>>
    PROVE  Under'
<1>1. t \in Threads /\ t # "mux"
    BY Ways
<1>2. Alone(t) /\ pc'[t] \in Leaving
    BY DEF Moved, Alone
<1>3. Quiet(t)
    BY <1>2, Labels DEF Quiet
<1>4. pc'[t] \notin {"open", "flush"}
    BY <1>2 DEF Leaving
<1> QED
    BY <1>1, <1>2, <1>3, <1>4, StepUnder

(* Neither a packet nor a label of a thread changes. *)
LEMMA NothingUnder ==
    ASSUME Shaped, Under, \A u \in Threads \ {"main"} : pc'[u] = pc[u],
           UNCHANGED <<length, hand, fifo, sendFinished, recvFinished, dstFinished, premux,
                       sq, written, initEof, muxStarted, failing>>
    PROVE  Under'
<1>1. "main" \in Threads /\ "main" # "mux" /\ "main" # "filter" /\ "main" \notin Movers
    BY Names, Ways
<1>2. Alone("main")
    BY DEF Alone
<1>3. Told
    BY DEF Told
<1> QED
    BY <1>1, <1>2, <1>3, StepUnder

(* As long as nothing has failed nobody refuses what still comes. *)
LEMMA Refused ==
    ASSUME Shaped, NEW c, NEW m, Way(c, m), NEW v \in Workers,
           pc[Up[v]] = "send", pc[v] \in Leaving
    PROVE  failing # None
<1> SUFFICES ASSUME failing = None PROVE FALSE
    OBVIOUS
<1>1. v \in Movers /\ Up[v] \in Movers /\ Path(v) = 2
    BY Ways
<1>2. c[v] = length[2]
    BY <1>1 DEF Way, Drained
<1>3. Path(Up[v]) = 2
    BY Ways DEF Path
<1>4. c[Up[v]] \in Nat /\ c[v] \in Nat /\ Link(c, v) /\ Link(c, Up[v]) /\ Len(fifo[v]) \in Nat
    BY <1>1, WayIs
<1>5. Took(c, Up[v]) = c[Up[v]] + 1
    BY <1>4 DEF Link, Full
<1>6. Took(c, v) = c[Up[v]] - Len(fifo[v]) /\ c[v] <= Took(c, v)
    BY <1>4 DEF Took, Link
<1>7. Took(c, Up[v]) <= length[2] /\ length[2] \in Nat
    BY <1>1, <1>3, TookAtMost
<1> QED
    BY <1>2, <1>4, <1>5, <1>6, <1>7

(* ... and a thread that finds its queue empty and ended has taken everything. *)
LEMMA AllTaken ==
    ASSUME Shaped, NEW c, NEW m, Way(c, m), failing = None, NEW w \in Workers,
           pc[w] = "receive", fifo[w] = <<>>, pc[Up[w]] \in Leaving
    PROVE  c[w] = length[Path(w)]
<1>1. w \in Movers /\ Up[w] \in Movers /\ Path(w) = 2 /\ Path(Up[w]) = 2
    BY Ways DEF Path
<1>2. c[Up[w]] = length[2]
    BY <1>1 DEF Way, Drained
<1>3. Link(c, w) /\ c[Up[w]] \in Nat
    BY <1>1, WayIs
<1>4. Took(c, w) = c[Up[w]] /\ Took(c, w) = c[w]
    <2>1. Took(c, w) = c[Up[w]] - 0
        BY DEF Took
    <2> QED
        BY <1>3, <2>1 DEF Link, Empty
<1> QED
    BY <1>1, <1>2, <1>4

-----------------------------------------------------------------------------
(* What a step leaves alone *)

MuxRest ==
    /\ pc'["mux"] = pc["mux"] /\ sq' = sq /\ written' = written /\ muxDone' = muxDone
    /\ pc'["filter"] = "open" => pc["filter"] = "open" \/ pc["mux"] = "not started"

MainRest == pc'["main"] = pc["main"] /\ terminate' = terminate

Lasting == length' = length /\ (failing' = None => failing = None)

LEMMA GotoLeaves ==
    ASSUME Shaped, NEW t, pc' = pc \/ \E l : Goto(t, l)
    PROVE  \A u \in Threads \ {t} : pc'[u] = pc[u]
BY DEF Goto, Shaped

LEMMA DemuxerRest ==
    ASSUME Shaped, NEW s \in Streams, Demuxer(s)
    PROVE  MuxRest /\ MainRest /\ Lasting
<1> DEFINE d == Demux[s]
<1>1. d \in Movers /\ d \notin Workers /\ Coded \in Streams /\ Copied \in Streams
    BY Ways, Names
<1>2. pc' = pc \/ \E l : Goto(d, l)
    BY DEF Demuxer, DemuxRead, DemuxWait, DemuxExit, ApplyChange, DecoderSend, SendTo, MuxSend,
           MuxSendEnd, MuxSent, Premux
<1>3. UNCHANGED <<length, sq, written, muxDone, terminate, failing>>
    BY DEF Demuxer, DemuxRead, DemuxWait, DemuxExit, ApplyChange, DecoderSend, MuxSend, MuxSendEnd,
           MuxSent, Premux, muxing, stopping
<1>4. d # "mux" /\ d # "main" /\ d # "filter" /\ {"mux", "main", "filter"} \subseteq Threads
    BY <1>1, Names
<1>5. \A u \in {"mux", "main", "filter"} : pc'[u] = pc[u]
    BY <1>2, <1>4, GotoLeaves
<1> QED
    BY <1>3, <1>5 DEF MuxRest, MainRest, Lasting

LEMMA WorkerRest ==
    ASSUME Shaped, NEW w \in Workers, Worker(w)
    PROVE  MuxRest /\ MainRest /\ Lasting
<1>1. pc' = pc \/ \E l : Goto(w, l)
    BY DEF Worker, WorkerReceive, WorkerSend, WorkerFinish, WorkerClose, WorkerExit, ApplyChange,
           SendTo, MuxSend, MuxSendEnd, MuxSent, Premux
<1>2. UNCHANGED <<length, sq, written, muxDone, terminate, failing>>
    BY DEF Worker, WorkerReceive, WorkerSend, WorkerFinish, WorkerClose, WorkerExit, ApplyChange,
           MuxSend, MuxSendEnd, MuxSent, Premux, muxing, stopping
<1>3. w # "mux" /\ w # "main" /\ {"mux", "main", "filter"} \subseteq Threads
    BY Ways, Names
<1>4. pc'["mux"] = pc["mux"] /\ pc'["main"] = pc["main"] /\ (w # "filter" => pc'["filter"] = pc["filter"])
    BY <1>1, <1>3, GotoLeaves
<1>5. CASE w = "filter" /\ WorkerReceive(w) /\ pc["mux"] # "not started" /\ fifo[w] # <<>>
    <2>1. Goto(w, "send")
        BY <1>5 DEF WorkerReceive
    <2>2. pc'["filter"] = "send"
        BY <1>3, <1>5, <2>1 DEF Goto, Shaped
    <2> QED
        BY <1>2, <1>4, <2>2 DEF MuxRest, MainRest, Lasting
<1>6. CASE w = "filter" /\ ~(WorkerReceive(w) /\ pc["mux"] # "not started" /\ fifo[w] # <<>>)
           /\ pc["mux"] # "not started"
    <2>1. pc' = pc \/ \E l \in {"finish", "receive", "close", "exit", "done"} : Goto(w, l)
        BY <1>6 DEF Worker, WorkerReceive, WorkerSend, WorkerFinish, WorkerClose, WorkerExit,
               ApplyChange, SendTo, AfterClose
    <2>2. pc'["filter"] = pc["filter"] \/ pc'["filter"] # "open"
        BY <1>3, <1>6, <2>1 DEF Goto, Shaped
    <2> QED
        BY <1>2, <1>4, <2>2 DEF MuxRest, MainRest, Lasting
<1>7. CASE w # "filter" \/ pc["mux"] = "not started"
    BY <1>2, <1>4, <1>7 DEF MuxRest, MainRest, Lasting
<1> QED
    BY <1>5, <1>6, <1>7

LEMMA StartRest ==
    ASSUME Shaped, FlushPremux \/ MuxStarted
    PROVE  MuxRest /\ MainRest /\ Lasting
<1>1. UNCHANGED <<length, sq, written, muxDone, terminate, failing>>
    BY DEF FlushPremux, MuxStarted, muxing, stopping
<1>2. pc' = pc \/ Goto("filter", "send")
    BY DEF FlushPremux, MuxStarted
<1>3. {"mux", "main", "filter"} \subseteq Threads
    BY Names
<1>4. pc'["mux"] = pc["mux"] /\ pc'["main"] = pc["main"] /\ (pc'["filter"] = pc["filter"] \/ pc'["filter"] = "send")
    BY <1>2, <1>3 DEF Goto, Shaped
<1> QED
    BY <1>1, <1>4 DEF MuxRest, MainRest, Lasting

LEMMA MainStays ==
    ASSUME Shaped, Main
    PROVE  MuxRest /\ Lasting
<1>1. UNCHANGED <<length, sq, written, muxDone, failing>>
    BY DEF Main, MainStart, MainTerminate, MainChoke, MainDrain, MainJoin, ApplyChange, muxing, stopping
<1>2. pc' = pc \/ \E l : Goto("main", l)
    BY DEF Main, MainStart, MainTerminate, MainChoke, MainDrain, MainJoin, ApplyChange
<1>3. "mux" \in Threads \ {"main"} /\ "filter" \in Threads \ {"main"}
    BY Names
<1>4. pc'["mux"] = pc["mux"] /\ pc'["filter"] = pc["filter"]
    BY <1>2, <1>3, GotoLeaves
<1> QED
    BY <1>1, <1>4 DEF MuxRest, Lasting

LEMMA FailRest ==
    ASSUME Shaped, NEW t \in Failing, Fail(t)
    PROVE  MainRest /\ Lasting /\ (t # "mux" => MuxRest) /\ failing' # None
<1>1. t \in Threads \ {"main"} /\ "main" \in Threads /\ "mux" \in Threads /\ "filter" \in Threads
    BY BoundsAssumption, Names
<1>2. /\ failing' = t /\ (Goto(t, "finish") \/ Goto(t, "close"))
      /\ UNCHANGED <<length, sq, written, muxDone, terminate>>
    BY DEF Fail, muxing, stopping
<1>3. t # None
    BY <1>1, Names DEF None
<1>4. /\ pc'["main"] = pc["main"] /\ (t # "mux" => pc'["mux"] = pc["mux"])
      /\ pc'["filter"] = pc["filter"] \/ pc'["filter"] = "finish" \/ pc'["filter"] = "close"
    BY <1>1, <1>2 DEF Goto, Shaped
<1> QED
    BY <1>2, <1>3, <1>4 DEF MuxRest, MainRest, Lasting

(* The filter graph opens the encoder before the muxer has started only. *)
Opening == pc["filter"] = "open" => pc["mux"] = "not started"

(* The main thread does not stop the others before the end. *)
Stops ==
    /\ terminate \/ pc["main"] \notin {"start", "wait"} => muxDone \/ failing # None
    /\ muxDone => pc["mux"] = "done"

LEMMA MuxerRest ==
    ASSUME Shaped, Muxer
    PROVE  /\ MainRest /\ length' = length /\ failing' = failing /\ pc'["filter"] = pc["filter"]
           /\ \/ pc["mux"] = "receive" /\ muxDone' = muxDone /\ (MuxPacket \/ MuxEnd)
              \/ /\ sq' = sq /\ written' = written
                 /\ \/ pc'["mux"] = pc["mux"] /\ muxDone' = muxDone
                    \/ pc["mux"] = "finish" /\ pc'["mux"] = "report" /\ muxDone' = muxDone
                    \/ pc["mux"] = "report" /\ pc'["mux"] = "done"
<1>1. UNCHANGED <<length, terminate, failing>>
    BY DEF Muxer, MuxPacket, MuxEnd, MuxDone, ApplyChange, stopping
<1>2. pc' = pc \/ \E l : Goto("mux", l)
    BY DEF Muxer, MuxPacket, MuxEnd, MuxDone, ApplyChange, Write
<1>3. "main" \in Threads \ {"mux"} /\ "filter" \in Threads \ {"mux"} /\ "mux" \in Threads
    BY Names
<1>4. pc'["main"] = pc["main"] /\ pc'["filter"] = pc["filter"]
    BY <1>2, <1>3, GotoLeaves
<1>5. CASE MuxPacket \/ MuxEnd
    BY <1>1, <1>4, <1>5 DEF MuxPacket, MuxEnd, At, stopping, MainRest
<1>6. CASE ApplyChange("mux")
    BY <1>1, <1>4, <1>6 DEF ApplyChange, muxing, stopping, MainRest
<1>7. CASE MuxDone
    <2>1. /\ sq' = sq /\ written' = written
          /\ \/ pc["mux"] = "finish" /\ Goto("mux", "report") /\ muxDone' = muxDone
             \/ pc["mux"] = "report" /\ Goto("mux", "done")
        BY <1>7 DEF MuxDone, At, muxing, stopping
    <2>2. \/ pc["mux"] = "finish" /\ pc'["mux"] = "report" /\ muxDone' = muxDone
          \/ pc["mux"] = "report" /\ pc'["mux"] = "done"
        BY <1>3, <2>1 DEF Goto, Shaped
    <2> QED
        BY <1>1, <1>4, <2>1, <2>2 DEF MainRest
<1> QED
    BY <1>5, <1>6, <1>7 DEF Muxer

LEMMA OpenRest ==
    ASSUME Shaped, OpenEncoder
    PROVE  /\ MainRest /\ Lasting /\ pc["filter"] = "open"
           /\ pc'["filter"] = "flush" /\ pc'["mux"] = "receive"
           /\ UNCHANGED <<sq, written, muxDone>>
<1>1. /\ pc["filter"] = "open" /\ pc' = [pc EXCEPT !["filter"] = "flush", !["mux"] = "receive"]
      /\ UNCHANGED <<length, sq, written, muxDone, terminate, failing>>
    BY DEF OpenEncoder, At, muxing, stopping
<1>2. {"filter", "mux", "main"} \subseteq Threads
    BY Names
<1>3. pc'["filter"] = "flush" /\ pc'["mux"] = "receive" /\ pc'["main"] = pc["main"]
    BY <1>1, <1>2 DEF Shaped
<1> QED
    BY <1>1, <1>3 DEF MainRest, Lasting

(* What a step is to the muxer. *)
LEMMA NextIs ==
    ASSUME Shaped, Next
    PROVE  /\ Lasting /\ (MainRest \/ Main)
           /\ \/ MuxRest
              \/ OpenEncoder
              \/ Muxer
              \/ "mux" \in Failing /\ Fail("mux")
<1>1. ASSUME NEW s \in Streams, Demuxer(s) PROVE Lasting /\ MainRest /\ MuxRest
    BY <1>1, DemuxerRest
<1>2. ASSUME NEW w \in Workers, Worker(w) PROVE Lasting /\ MainRest /\ MuxRest
    BY <1>2, WorkerRest
<1>3. CASE OpenEncoder
    BY <1>3, OpenRest
<1>4. CASE FlushPremux \/ MuxStarted
    BY <1>4, StartRest
<1>5. CASE Muxer
    BY <1>5, MuxerRest DEF Lasting
<1>6. CASE Main
    BY <1>6, MainStays
<1>7. ASSUME NEW t \in Failing, Fail(t)
      PROVE  Lasting /\ MainRest /\ (MuxRest \/ ("mux" \in Failing /\ Fail("mux")))
    BY <1>7, FailRest
<1> QED
    BY <1>1, <1>2, <1>3, <1>4, <1>5, <1>6, <1>7, AreWorkers DEF Next, Filter

LEMMA OpeningNext ==
    ASSUME Shaped, Opening, Next
    PROVE  Opening'
<1>1. CASE MuxRest
    BY <1>1 DEF MuxRest, Opening
<1>2. CASE OpenEncoder
    BY <1>2, OpenRest DEF Opening
<1>3. CASE Muxer
    BY <1>3, MuxerRest DEF Opening
<1>4. CASE "mux" \in Failing /\ Fail("mux")
    <2>1. pc["mux"] = "receive" /\ (Goto("mux", "finish") \/ Goto("mux", "close"))
        BY <1>4 DEF Fail, At
    <2>2. pc' = pc \/ \E l : Goto("mux", l)
        BY <2>1
    <2>3. "filter" \in Threads \ {"mux"}
        BY Names
    <2>4. pc'["filter"] = pc["filter"]
        BY <2>2, <2>3, GotoLeaves
    <2> QED
        BY <2>1, <2>4 DEF Opening
<1> QED
    BY <1>1, <1>2, <1>3, <1>4, NextIs

LEMMA StopsNext ==
    ASSUME Shaped, Opening, Stops, Next
    PROVE  Stops'
<1>1. (muxDone => muxDone' /\ pc'["mux"] = "done") /\ (muxDone' => pc'["mux"] = "done")
    <2>1. CASE MuxRest
        BY <2>1 DEF MuxRest, Stops
    <2>2. CASE OpenEncoder
        <3>1. pc["filter"] = "open" /\ muxDone' = muxDone
            BY <2>2, OpenRest
        <3>2. pc["mux"] = "not started"
            BY <3>1 DEF Opening
        <3>3. ~muxDone
            BY <3>2 DEF Stops
        <3> QED
            BY <3>1, <3>3
    <2>3. CASE Muxer
        <3>1. muxDone => pc["mux"] = "done"
            BY DEF Stops
        <3>2. CASE pc["mux"] = "report" /\ pc'["mux"] = "done"
            BY <3>1, <3>2
        <3>3. CASE pc["mux"] # "report"
            BY <2>3, <3>1, <3>3, MuxerRest
        <3>4. CASE pc["mux"] = "report" /\ pc'["mux"] # "done"
            BY <2>3, <3>1, <3>4, MuxerRest
        <3> QED
            BY <3>2, <3>3, <3>4
    <2>4. CASE "mux" \in Failing /\ Fail("mux")
        BY <2>4 DEF Fail, At, Stops
    <2> QED
        BY <2>1, <2>2, <2>3, <2>4, NextIs
<1>2. failing # None => failing' # None
    BY NextIs DEF Lasting
<1>3. CASE MainRest
    BY <1>1, <1>2, <1>3 DEF MainRest, Stops
<1>4. CASE Main
    <2>1. "main" \in Threads
        BY Names
    <2>2. CASE MainTerminate
        BY <1>1, <1>2, <2>2 DEF MainTerminate, TaskFailed, Stops
    <2>3. CASE MainStart
        <3>1. Goto("main", "wait") /\ terminate' = terminate
            BY <2>3 DEF MainStart, stopping
        <3>2. pc'["main"] = "wait"
            BY <2>1, <3>1 DEF Goto, Shaped
        <3> QED
            BY <1>1, <1>2, <3>1, <3>2 DEF Stops
    <2>4. CASE MainChoke \/ MainDrain \/ MainJoin
        <3>1. terminate' = terminate /\ pc["main"] \notin {"start", "wait"}
            BY <2>4 DEF MainChoke, MainDrain, MainJoin, At, stopping
        <3> QED
            BY <1>1, <1>2, <3>1 DEF Stops
    <2>5. CASE ApplyChange("main")
        BY <1>1, <1>2, <2>5 DEF ApplyChange, stopping, Stops
    <2> QED
        BY <1>4, <2>2, <2>3, <2>4, <2>5 DEF Main
<1> QED
    BY <1>3, <1>4, NextIs

-----------------------------------------------------------------------------
(* Every step while the muxer takes packets *)

LEMMA SendUnder ==
    ASSUME Shaped, Under, NEW s \in Streams, MuxSend(Sender[s], s)
    PROVE  Under'
<1> DEFINE t == Sender[s]
<1>0. t \in Movers /\ t \in Threads /\ t # "mux" /\ t # "filter" /\ "mux" \in Queues
    BY SenderIs, Ways
<1>1. PICK c, m : Way(c, m)
    BY DEF Under
<1>2. pc[t] = "send" /\ t \in Threads
    BY <1>0 DEF MuxSend, At
<1>3. Closed(c, m, s) /\ pc[t] \notin Leaving
    BY <1>1, <1>2, WayIs DEF Leaving
<1> HIDE DEF t
<1>4. CASE Premux(t, s, hand[t], "sent")
    <2>1. /\ premux' = [premux EXCEPT ![s] = Append(@, hand[t])] /\ ~muxStarted
          /\ Moved(t, {"sent"})
          /\ UNCHANGED <<length, hand, queues, muxing, failing, initEof, muxStarted, dstFinished>>
        BY <1>2, <1>4, GotoDoes DEF Premux, stopping
    <2>2. \E d : Way(d, m)'
        BY <1>1, <1>2, <2>1, PremuxWay DEF t
    <2>3. Gone'
        <3>1. \A u \in Movers : pc[u] \in Leaving => pc'[u] \in Leaving
            BY <1>3, <2>1, Ways DEF Moved
        <3>2. pc'["filter"] = pc["filter"] /\ pc'["mux"] = pc["mux"]
            BY <1>0, <2>1, Names DEF Moved
        <3>3. UNCHANGED <<sendFinished, recvFinished>>
            BY <2>1 DEF queues
        <3> QED
            BY <2>1, <3>1, <3>2, <3>3, GoneStays DEF Under, Gone
    <2> QED
        BY <2>1, <2>2, <2>3 DEF Under, queues, muxing
<1>5. CASE ~Premux(t, s, hand[t], "sent")
    <2>1. /\ muxStarted /\ initEof = {}
          /\ SendTo(t, "mux", s, hand[t], "sent", "close")
          /\ UNCHANGED <<length, hand, dstFinished, premuxing, schedule, muxing, stopping>>
        BY <1>5 DEF MuxSend, Under, Gone, t
    <2>2. s \notin recvFinished["mux"]
        BY <1>3 DEF Closed, t
    <2>3. Put("mux", s, hand[t]) /\ Moved(t, {"sent"})
        BY <1>2, <2>1, <2>2, GotoDoes DEF SendTo
    <2>4. premux[s] = <<>>
        BY <2>1 DEF Under, Gone
    <2>5. UNCHANGED <<length, hand, premux, muxing, failing, muxStarted, initEof, dstFinished,
                      sendFinished, recvFinished, sq, written>>
        BY <2>1, <2>3 DEF premuxing, stopping, Put, muxing
    <2>6. \E d, k : Way(d, k)'
        BY <1>1, <1>2, <2>3, <2>4, <2>5, PutWay DEF t
    <2>7. Gone'
        <3>1. \A u \in Movers : pc[u] \in Leaving => pc'[u] \in Leaving
            BY <1>3, <2>3, Ways DEF Moved
        <3>2. pc'["filter"] = pc["filter"] /\ pc'["mux"] = pc["mux"]
            BY <1>0, <2>3, Names DEF Moved
        <3> QED
            BY <2>1, <2>5, <3>1, <3>2, GoneStays DEF Under, Gone
    <2> QED
        BY <2>5, <2>6, <2>7 DEF Under
<1> QED
    BY <1>4, <1>5

LEMMA SendEndUnder ==
    ASSUME Shaped, Under, NEW s \in Streams, MuxSendEnd(Sender[s], s)
    PROVE  Under'
<1> DEFINE t == Sender[s]
<1>0. t \in Movers /\ t \in Threads /\ t # "mux" /\ t # "filter" /\ "mux" \in Queues
      /\ \A w \in Workers : w \in Queues /\ w # "mux"
    BY SenderIs, Ways
<1>1. pc[t] = "close" /\ pc[t] \in Leaving
    BY DEF MuxSendEnd, At, Leaving
<1>2. Moved(t, {"closed"})
    <2>1. Goto(t, "closed")
        BY DEF MuxSendEnd, Premux
    <2> QED
        BY <1>0, <2>1, GotoDoes
<1>3. Moved(t, Leaving)
    BY <1>2 DEF Moved, Leaving
<1>4. CASE Premux(t, s, 0, "closed")
    <2>1. /\ premux' = [premux EXCEPT ![s] = Append(@, 0)] /\ ~muxStarted
          /\ UNCHANGED <<length, hand, queues, muxing, failing, initEof, muxStarted, dstFinished>>
        BY <1>4 DEF Premux, stopping
    <2>2. PICK c, m : Way(c, m)
        BY DEF Under
    <2>3. Way(c, m)'
        BY <1>1, <1>2, <2>1, <2>2, PremuxEndWay
    <2>4. Gone'
        <3>1. \A u \in Movers : pc[u] \in Leaving => pc'[u] \in Leaving
            BY <1>3, Ways DEF Moved
        <3>2. pc'["filter"] = pc["filter"] /\ pc'["mux"] = pc["mux"]
            BY <1>0, <1>3, Names DEF Moved
        <3>3. UNCHANGED <<sendFinished, recvFinished>>
            BY <2>1 DEF queues
        <3> QED
            BY <2>1, <3>1, <3>2, <3>3, GoneStays DEF Under, Gone
    <2> QED
        BY <2>1, <2>3, <2>4 DEF Under, queues, muxing
<1>5. CASE ~Premux(t, s, 0, "closed")
    <2>1. /\ muxStarted /\ tq_send_finish("mux", s)
          /\ UNCHANGED <<length, hand, dstFinished, premuxing, schedule, muxing, stopping>>
        BY <1>5 DEF MuxSendEnd
    <2>2. /\ UNCHANGED <<length, hand, fifo, premux, sq, written, initEof, muxStarted, failing,
                         dstFinished, recvFinished>>
          /\ sendFinished' = [sendFinished EXCEPT !["mux"] = @ \union {s}]
        BY <2>1 DEF tq_send_finish, premuxing, muxing, stopping
    <2>3. premux[s] = <<>>
        BY <2>1 DEF Under, Gone
    <2>4. Told
        <3>1. /\ sendFinished'["mux"] = sendFinished["mux"] \union {s}
              /\ \A w \in Workers : sendFinished'[w] = sendFinished[w]
            BY <1>0, <2>2 DEF Shaped, Boxed
        <3>2. pc'[Sender[s]] \in Leaving
            BY <1>3 DEF Moved
        <3> QED
            BY <2>2, <2>3, <3>1, <3>2 DEF Told
    <2> HIDE DEF t
    <2> QED
        BY <1>0, <1>1, <1>3, <2>2, <2>4, LeaveUnder
<1> QED
    BY <1>4, <1>5

(* The schedule is of no account to the packets. *)
LEMMA SentUnder ==
    ASSUME Shaped, Under, NEW s \in Streams, NEW t, t = Sender[s],
           NEW a \in {"read", "receive"}, NEW b \in {"exit", "finish"}, MuxSent(t, s, a, b)
    PROVE  Under'
<1>0. t \in Movers /\ t \in Threads /\ t # "mux" /\ t # "filter"
    BY SenderIs, Ways
<1>1. /\ \/ pc[t] = "sent" /\ Goto(t, a) /\ dstFinished' = dstFinished
         \/ pc[t] = "closed" /\ Goto(t, b)
      /\ dstFinished' \subseteq dstFinished \union IF pc[t] = "closed" THEN {t} ELSE {}
      /\ hand' = IF t \in Workers THEN [hand EXCEPT ![t] = 0] ELSE hand
      /\ UNCHANGED <<length, fifo, sendFinished, recvFinished, premux, sq, written, initEof,
                     muxStarted, failing>>
    BY DEF MuxSent, queues, premuxing, muxing, stopping
<1>2. \/ pc[t] = "sent" /\ Moved(t, {a})
      \/ pc[t] = "closed" /\ Moved(t, {b})
    BY <1>0, <1>1, GotoDoes
<1>3. Alone(t)
    BY <1>1, <1>2 DEF Moved, Alone, Shaped, Handed
<1>4. /\ \/ pc[t] \in Empty /\ pc'[t] \in Empty
         \/ pc[t] = "closed" /\ pc[t] \in Leaving /\ pc'[t] \in Leaving
      /\ pc'[t] \notin {"open", "flush"}
    BY <1>2 DEF Moved, Empty, Leaving
<1>5. Quiet(t)
    BY <1>1, <1>4, Labels DEF Quiet
<1>6. Told
    <2>1. \A w \in Workers : w \in dstFinished' => w \in dstFinished \/ pc'[w] \in Leaving
        <3>1. CASE pc[t] = "closed"
            BY <1>1, <1>4, <3>1 DEF Empty
        <3>2. CASE pc[t] # "closed"
            BY <1>1, <3>2
        <3> QED
            BY <3>1, <3>2
    <2> QED
        BY <1>1, <2>1 DEF Told
<1>7. pc'[t] \in Leaving => pc[t] \in Leaving
    BY <1>4, Labels
<1> QED
    BY <1>0, <1>1, <1>3, <1>4, <1>5, <1>6, <1>7, StepUnder

LEMMA DemuxerUnder ==
    ASSUME Shaped, Under, NEW s \in Streams, Demuxer(s), terminate => failing # None
    PROVE  Under'
<1> DEFINE d == Demux[s]
<1>0. /\ d \in Movers /\ d \in Threads /\ d # "mux" /\ d # "filter" /\ d \notin Workers /\ Path(d) = s
      /\ Coded = 2 /\ Copied = 1
    BY Ways, Names
<1> HIDE DEF d
<1>1. CASE DemuxRead(s) /\ hand[d] = length[s]
    <2>1. /\ pc[d] = "read" /\ Goto(d, "close")
          /\ UNCHANGED <<length, hand, fifo, sendFinished, recvFinished, dstFinished, premux, sq,
                         written, initEof, muxStarted, failing>>
        BY <1>1 DEF DemuxRead, At, queues, premuxing, muxing, stopping, d
    <2>2. Moved(d, {"close"})
        BY <1>0, <2>1, GotoDoes
    <2>3. Alone(d) /\ pc'[d] = "close" /\ pc'[d] \in Leaving
        BY <2>1, <2>2 DEF Moved, Alone, Leaving
    <2>4. Quiet(d)
        BY <2>1, <2>3, Labels DEF Quiet
    <2>5. Told
        BY <2>1 DEF Told
    <2>6. \A c, m : Way(c, m) => c[d] = length[Path(d)]
        <3> SUFFICES ASSUME NEW c, NEW m, Way(c, m) PROVE c[d] = length[s]
            BY <1>0
        <3>1. Link(c, d) /\ Took(c, d) = hand[d] /\ pc[d] \in Empty
            BY <1>0, <2>1, WayIs DEF Took, Empty
        <3> QED
            BY <1>1, <3>1 DEF Link
    <2> QED
        BY <1>0, <2>1, <2>3, <2>4, <2>5, <2>6, StepUnder
<1>2. CASE DemuxRead(s) /\ hand[d] # length[s]
    <2>1. /\ pc[d] = "read" /\ (Goto(d, "wait") \/ Goto(d, "send"))
          /\ hand' = [hand EXCEPT ![d] = @ + 1]
          /\ UNCHANGED <<length, queues, dstFinished, premuxing, muxing, stopping>>
        BY <1>2 DEF DemuxRead, At, d
    <2>2. Moved(d, {"wait", "send"})
        BY <1>0, <2>1, GotoDoes DEF Moved
    <2>3. PICK c, m : Way(c, m)
        BY DEF Under
    <2>4. Way(c, m)'
        BY <2>1, <2>2, <2>3, ReadWay DEF d, premuxing, stopping
    <2>5. Gone'
        <3>1. \A u \in Movers : pc[u] \in Leaving => pc'[u] \in Leaving
            BY <2>1, <2>2, Ways DEF Moved, Leaving
        <3>2. pc'["filter"] = pc["filter"] /\ pc'["mux"] = pc["mux"]
            BY <1>0, <2>2, Names DEF Moved
        <3> QED
            BY <2>1, <3>1, <3>2, GoneStays DEF Under, Gone, queues, premuxing
    <2> QED
        BY <2>1, <2>4, <2>5 DEF Under, queues, muxing
<1>3. CASE DemuxWait(s)
    <2>1. /\ pc[d] = "wait" /\ Goto(d, IF terminate THEN "close" ELSE "send")
          /\ UNCHANGED <<length, hand, fifo, sendFinished, recvFinished, dstFinished, premux, sq,
                         written, initEof, muxStarted, failing>>
        BY <1>3 DEF DemuxWait, At, queues, premuxing, muxing, stopping, d
    <2>2. Moved(d, {IF terminate THEN "close" ELSE "send"})
        BY <1>0, <2>1, GotoDoes
    <2>3. Alone(d) /\ pc'[d] = IF terminate THEN "close" ELSE "send"
        BY <2>1, <2>2 DEF Moved, Alone
    <2>4. Quiet(d)
        BY <2>1, <2>3 DEF Quiet, Full, Empty, Leaving
    <2>5. Told
        BY <2>1 DEF Told
    <2>6. failing' = None => pc'[d] \notin Leaving
        BY <2>1, <2>3 DEF Leaving
    <2>7. pc'[d] \notin {"open", "flush"}
        BY <2>3
    <2> QED
        BY <1>0, <2>1, <2>3, <2>4, <2>5, <2>6, <2>7, StepUnder
<1>4. CASE DemuxExit(s)
    <2>1. /\ pc[d] = "exit" /\ Goto(d, "done")
          /\ UNCHANGED <<length, hand, fifo, sendFinished, recvFinished, dstFinished, premux, sq,
                         written, initEof, muxStarted, failing>>
        BY <1>4 DEF DemuxExit, At, queues, premuxing, muxing, stopping, d
    <2>2. Moved(d, Leaving) /\ pc[d] \in Leaving
        BY <1>0, <2>1, GotoDoes DEF Moved, Leaving
    <2>3. Told
        BY <2>1 DEF Told
    <2> QED
        BY <1>0, <2>1, <2>2, <2>3, LeaveUnder
<1>5. CASE ApplyChange(d)
    BY <1>5, NothingUnder DEF ApplyChange, premuxing, muxing, stopping
<1>6. CASE s = Coded /\ DecoderSend
    <2>0. Up["dec"] = d /\ "dec" \in Workers /\ "dec" \in Queues
        BY <1>0, <1>6, Ways, AreWorkers DEF d
    <2>1. CASE At(d, "send")
        <3>1. /\ SendTo(d, "dec", 2, hand[d], "read", "close") /\ pc[d] = "send"
              /\ UNCHANGED <<length, hand, dstFinished, premuxing, muxing, stopping>>
            BY <1>0, <1>6, <2>1 DEF DecoderSend, At, d
        <3>2. CASE 2 \in recvFinished["dec"]
            <4>1. Refuse("dec", 2) /\ Goto(d, "close")
                BY <3>1, <3>2 DEF SendTo
            <4>2. /\ UNCHANGED <<length, hand, fifo, recvFinished, dstFinished, premux, sq,
                                 written, initEof, muxStarted, failing>>
                  /\ sendFinished' = [sendFinished EXCEPT !["dec"] = @ \union {2}]
                BY <3>1, <4>1 DEF Refuse, premuxing, muxing, stopping
            <4>3. Moved(d, {"close"})
                BY <1>0, <4>1, GotoDoes
            <4>4. Alone(d) /\ pc'[d] = "close" /\ pc'[d] \in Leaving
                BY <4>2, <4>3 DEF Moved, Alone, Leaving
            <4>5. Quiet(d)
                BY <3>1, <4>4, Labels DEF Quiet, Full
            <4>6. Told
                BY <2>0, <4>2, <4>4, Ways DEF Told, Shaped, Boxed
            <4>7. failing # None
                <5>1. pc["dec"] \in Leaving
                    BY <2>0, <3>2 DEF Under, Gone
                <5>2. PICK c, m : Way(c, m)
                    BY DEF Under
                <5> QED
                    BY <2>0, <3>1, <5>1, <5>2, Refused
            <4> QED
                BY <1>0, <4>2, <4>4, <4>5, <4>6, <4>7, StepUnder
        <3>3. CASE 2 \notin recvFinished["dec"]
            <4>1. Put("dec", 2, hand[d]) /\ Goto(d, "read")
                BY <3>1, <3>3 DEF SendTo
            <4>2. Moved(d, {"read", "receive"})
                BY <1>0, <4>1, GotoDoes DEF Moved
            <4>3. PICK c, m : Way(c, m)
                BY DEF Under
            <4>4. \E e : Way(e, m)'
                BY <2>0, <3>1, <4>1, <4>2, <4>3, PassWay DEF premuxing, stopping
            <4>5. Gone'
                <5>1. \A u \in Movers : pc[u] \in Leaving => pc'[u] \in Leaving
                    BY <3>1, <4>2, Ways DEF Moved, Leaving
                <5>2. pc'["filter"] = pc["filter"] /\ pc'["mux"] = pc["mux"]
                    BY <1>0, <4>2, Names DEF Moved
                <5> QED
                    BY <3>1, <4>1, <5>1, <5>2, GoneStays DEF Under, Gone, Put, premuxing
            <4> QED
                BY <3>1, <4>1, <4>4, <4>5 DEF Under, Put, muxing
        <3> QED
            BY <3>2, <3>3
    <2>2. CASE ~At(d, "send")
        <3>1. /\ pc[d] = "close" /\ tq_send_finish("dec", 2) /\ Goto(d, "exit")
              /\ UNCHANGED <<length, hand, dstFinished, premuxing, muxing, stopping>>
            BY <1>0, <1>6, <2>2 DEF DecoderSend, At, d
        <3>2. /\ UNCHANGED <<length, hand, fifo, recvFinished, dstFinished, premux, sq,
                             written, initEof, muxStarted, failing>>
              /\ sendFinished' = [sendFinished EXCEPT !["dec"] = @ \union {2}]
            BY <3>1 DEF tq_send_finish, premuxing, muxing, stopping
        <3>3. Moved(d, Leaving) /\ pc[d] \in Leaving
            BY <1>0, <3>1, GotoDoes DEF Moved, Leaving
        <3>4. Told
            BY <2>0, <3>2, <3>3, Ways DEF Told, Shaped, Boxed, Moved
        <3> QED
            BY <1>0, <3>2, <3>3, <3>4, LeaveUnder
    <2> QED
        BY <2>1, <2>2
<1>7. CASE s = Copied /\ (MuxSend(d, s) \/ MuxSendEnd(d, s) \/ MuxSent(d, s, "read", "exit"))
    <2>1. d = Sender[s] /\ "exit" \in {"exit", "finish"} /\ "read" \in {"read", "receive"}
        BY <1>0, <1>7, Ways DEF d
    <2> QED
        BY <1>7, <2>1, SendUnder, SendEndUnder, SentUnder
<1> QED
    BY <1>1, <1>2, <1>3, <1>4, <1>5, <1>6, <1>7 DEF Demuxer, d

LEMMA WorkerUnder ==
    ASSUME Shaped, Under, NEW w \in Workers, Worker(w)
    PROVE  Under'
<1>0. /\ w \in Movers /\ w \in Threads /\ w \in Queues /\ w # "mux" /\ Coded = 2 /\ Path(w) = 2
      /\ w # "enc" => Feeds[w] \in Workers /\ Up[Feeds[w]] = w /\ Feeds[w] \in Queues
      /\ "mux" \in Queues
    BY Ways
<1>1. PICK c, m : Way(c, m)
    BY DEF Under
<1>2. CASE WorkerReceive(w) /\ fifo[w] # <<>>
    <2>1. /\ pc[w] = "receive"
          /\ hand' = [hand EXCEPT ![w] = Head(fifo[w]).n]
          /\ fifo' = [fifo EXCEPT ![w] = Tail(@)]
          /\ Goto(w, CASE w = "filter" /\ pc["mux"] = "not started" -> "open"
                       [] w = "enc" /\ w \in dstFinished -> "receive"
                       [] OTHER -> "send")
          /\ UNCHANGED <<length, sendFinished, recvFinished, dstFinished, premux, muxing, failing,
                         initEof, muxStarted>>
        BY <1>2 DEF WorkerReceive, At, premuxing, stopping
    <2>2. w \notin dstFinished
        BY <2>1 DEF Under, Gone, Leaving
    <2>3. \/ Goto(w, "open") /\ w = "filter" /\ pc["mux"] = "not started"
          \/ Goto(w, "send")
        BY <2>1, <2>2
    <2>4. Moved(w, {"open", "send"})
        BY <1>0, <2>3, GotoDoes DEF Moved
    <2>5. Way(c, m)'
        BY <1>1, <1>2, <2>1, <2>4, TakeWay
    <2>6. Gone'
        <3>1. \A u \in Movers : pc[u] \in Leaving => pc'[u] \in Leaving
            BY <2>1, <2>4, Ways DEF Moved, Leaving
        <3>2. pc'["mux"] = pc["mux"]
            BY <1>0, <2>4, Names DEF Moved
        <3>3. pc'["filter"] = "open" => pc["filter"] = "open" \/ pc["mux"] = "not started"
            <4>1. CASE Goto(w, "open") /\ w = "filter" /\ pc["mux"] = "not started"
                BY <4>1
            <4>2. CASE Goto(w, "send")
                <5>1. Moved(w, {"send"}) /\ "filter" \in Threads
                    BY <1>0, <4>2, Names, GotoDoes
                <5> QED
                    BY <5>1 DEF Moved
            <4> QED
                BY <2>3, <4>1, <4>2
        <3>4. pc'["filter"] = "flush" => pc["filter"] = "flush"
            BY <1>0, <2>4, Names DEF Moved
        <3> QED
            BY <2>1, <3>1, <3>2, <3>3, <3>4, GoneStays DEF Under, Gone
    <2> QED
        BY <2>1, <2>5, <2>6 DEF Under, muxing
<1>3. CASE WorkerReceive(w) /\ fifo[w] = <<>>
    <2>1. /\ pc[w] = "receive" /\ 2 \in sendFinished[w] /\ Goto(w, "finish")
          /\ recvFinished' = [recvFinished EXCEPT ![w] = {2}]
          /\ UNCHANGED <<length, hand, fifo, sendFinished, dstFinished, premux, sq, written,
                         initEof, muxStarted, failing>>
        BY <1>0, <1>3 DEF WorkerReceive, At, premuxing, muxing, stopping
    <2>2. Moved(w, {"finish"})
        BY <1>0, <2>1, GotoDoes
    <2>3. Alone(w) /\ pc'[w] = "finish" /\ pc'[w] \in Leaving
        BY <2>1, <2>2 DEF Moved, Alone, Leaving
    <2>4. Quiet(w)
        BY <2>1, <2>3, Labels DEF Quiet
    <2>5. Told
        <3>1. /\ recvFinished'["mux"] = recvFinished["mux"]
              /\ \A v \in Workers \ {w} : recvFinished'[v] = recvFinished[v]
            BY <1>0, <2>1, Ways DEF Shaped, Boxed
        <3> QED
            BY <2>1, <2>3, <3>1 DEF Told
    <2>6. failing = None => \A d, k : Way(d, k) => d[w] = length[Path(w)]
        <3> SUFFICES ASSUME failing = None, NEW d, NEW k, Way(d, k) PROVE d[w] = length[Path(w)]
            OBVIOUS
        <3>1. pc[Up[w]] \in Leaving
            BY <2>1 DEF Under, Gone
        <3> QED
            BY <1>3, <2>1, <3>1, AllTaken
    <2>7. pc'[w] \notin {"open", "flush"}
        BY <2>3
    <2> QED
        BY <1>0, <2>1, <2>3, <2>4, <2>5, <2>6, <2>7, StepUnder
<1>4. CASE WorkerSend(w)
    <2>1. /\ pc[w] = "send" /\ w # "enc"
          /\ SendTo(w, Feeds[w], 2, hand[w], "receive", "close")
          /\ hand' = [hand EXCEPT ![w] = 0]
          /\ UNCHANGED <<length, dstFinished, premux, muxing, initEof, muxStarted, failing, sq, written>>
        BY <1>0, <1>4 DEF WorkerSend, At, premuxing, muxing, stopping
    <2>2. CASE 2 \in recvFinished[Feeds[w]]
        <3>1. Refuse(Feeds[w], 2) /\ Goto(w, "close")
            BY <2>1, <2>2 DEF SendTo
        <3>2. /\ UNCHANGED <<fifo, recvFinished>>
              /\ sendFinished' = [sendFinished EXCEPT ![Feeds[w]] = @ \union {2}]
            BY <3>1 DEF Refuse
        <3>3. Moved(w, {"close"})
            BY <1>0, <3>1, GotoDoes
        <3>4. Alone(w) /\ pc'[w] = "close" /\ pc'[w] \in Leaving
            BY <2>1, <3>3 DEF Moved, Alone, Leaving, Shaped, Handed
        <3>5. Quiet(w)
            BY <2>1, <3>4, Labels DEF Quiet
        <3>6. Told
            <4>1. /\ sendFinished'["mux"] = sendFinished["mux"]
                  /\ \A v \in Workers \ {Feeds[w]} : sendFinished'[v] = sendFinished[v]
                BY <1>0, <2>1, <3>2, Ways DEF Shaped, Boxed
            <4> QED
                BY <1>0, <2>1, <3>2, <3>4, <4>1 DEF Told
        <3>7. failing # None
            <4>1. pc[Feeds[w]] \in Leaving
                BY <1>0, <2>1, <2>2 DEF Under, Gone
            <4> QED
                BY <1>0, <1>1, <2>1, <4>1, Refused
        <3>8. pc'[w] \notin {"open", "flush"}
            BY <3>4
        <3> QED
            BY <1>0, <2>1, <3>2, <3>4, <3>5, <3>6, <3>7, <3>8, StepUnder
    <2>3. CASE 2 \notin recvFinished[Feeds[w]]
        <3>1. Put(Feeds[w], 2, hand[w]) /\ Goto(w, "receive")
            BY <2>1, <2>3 DEF SendTo
        <3>2. Moved(w, {"read", "receive"})
            BY <1>0, <3>1, GotoDoes DEF Moved
        <3>3. \E e : Way(e, m)'
            <4> DEFINE v == Feeds[w]
            <4>1. v \in Workers /\ w = Up[v]
                BY <1>0, <2>1
            <4>2. Put(v, 2, hand[w])
                BY <3>1
            <4> HIDE DEF v
            <4> QED
                BY <1>1, <2>1, <3>2, <4>1, <4>2, PassWay
        <3>4. Gone'
            <4>1. \A u \in Movers : pc[u] \in Leaving => pc'[u] \in Leaving
                BY <2>1, <3>2, Ways DEF Moved, Leaving
            <4>2. pc'["mux"] = pc["mux"]
                BY <1>0, <3>2, Names DEF Moved
            <4>3. pc'["filter"] \in {"open", "flush"} => pc'["filter"] = pc["filter"]
                BY <1>0, <3>2, Names DEF Moved
            <4> QED
                BY <2>1, <3>1, <4>1, <4>2, <4>3, GoneStays DEF Under, Gone, Put
        <3> QED
            BY <2>1, <3>1, <3>3, <3>4 DEF Under, Put
    <2> QED
        BY <2>2, <2>3
<1>5. CASE WorkerFinish(w)
    <2>1. /\ pc[w] = "finish" /\ pc[w] \in Leaving
          /\ (Goto(w, "exit") \/ Goto(w, "close"))
          /\ recvFinished' = [recvFinished EXCEPT ![w] = @ \union {2}]
          /\ UNCHANGED <<length, hand, fifo, sendFinished, dstFinished, premux, sq, written,
                         initEof, muxStarted, failing>>
        BY <1>0, <1>5 DEF WorkerFinish, tq_receive_finish, At, Leaving, premuxing, muxing, stopping
    <2>2. Moved(w, Leaving)
        BY <1>0, <2>1, GotoDoes DEF Moved, Leaving
    <2>3. Told
        <3>1. /\ recvFinished'["mux"] = recvFinished["mux"]
              /\ \A v \in Workers \ {w} : recvFinished'[v] = recvFinished[v]
            BY <1>0, <2>1, Ways DEF Shaped, Boxed
        <3> QED
            BY <2>1, <2>2, <3>1 DEF Told, Moved
    <2> QED
        BY <1>0, <2>1, <2>2, <2>3, LeaveUnder
<1>6. CASE WorkerClose(w)
    <2>1. /\ pc[w] = "close" /\ pc[w] \in Leaving /\ w # "enc"
          /\ Goto(w, AfterClose(w)) /\ AfterClose(w) \in Leaving
          /\ sendFinished' = [sendFinished EXCEPT ![Feeds[w]] = @ \union {2}]
          /\ dstFinished' = dstFinished \union {w}
          /\ UNCHANGED <<length, hand, fifo, recvFinished, premux, sq, written,
                         initEof, muxStarted, failing>>
        BY <1>0, <1>6 DEF WorkerClose, tq_send_finish, At, Leaving, AfterClose, premuxing, muxing, stopping
    <2>2. Moved(w, Leaving)
        BY <1>0, <2>1, GotoDoes DEF Moved
    <2>3. Told
        <3>1. /\ sendFinished'["mux"] = sendFinished["mux"]
              /\ \A v \in Workers \ {Feeds[w]} : sendFinished'[v] = sendFinished[v]
            BY <1>0, <2>1, Ways DEF Shaped, Boxed
        <3> QED
            BY <1>0, <2>1, <2>2, <3>1 DEF Told, Moved
    <2> QED
        BY <1>0, <2>1, <2>2, <2>3, LeaveUnder
<1>7. CASE WorkerExit(w)
    <2>1. /\ pc[w] = "exit" /\ pc[w] \in Leaving /\ Goto(w, "done")
          /\ UNCHANGED <<length, hand, fifo, sendFinished, recvFinished, dstFinished, premux, sq,
                         written, initEof, muxStarted, failing>>
        BY <1>7 DEF WorkerExit, At, Leaving, queues, premuxing, muxing, stopping
    <2>2. Moved(w, Leaving)
        BY <1>0, <2>1, GotoDoes DEF Moved, Leaving
    <2>3. Told
        BY <2>1 DEF Told
    <2> QED
        BY <1>0, <2>1, <2>2, <2>3, LeaveUnder
<1>8. CASE ApplyChange(w)
    BY <1>8, NothingUnder DEF ApplyChange, premuxing, muxing, stopping
<1>9. CASE w = "enc" /\ (MuxSend(w, Coded) \/ MuxSendEnd(w, Coded)
                           \/ MuxSent(w, Coded, "receive", AfterClose(w)))
    <2>1. w = Sender[2] /\ AfterClose(w) \in {"exit", "finish"} /\ "receive" \in {"read", "receive"}
          /\ 2 \in Streams
        BY <1>9, Ways DEF AfterClose
    <2> QED
        BY <1>0, <1>9, <2>1, SendUnder, SendEndUnder, SentUnder
<1> QED
    BY <1>2, <1>3, <1>4, <1>5, <1>6, <1>7, <1>8, <1>9 DEF Worker

LEMMA FilterUnder ==
    ASSUME Shaped, Under, OpenEncoder \/ FlushPremux \/ MuxStarted
    PROVE  Under'
<1>0. "filter" \in Movers /\ "filter" \in Threads /\ "filter" # "mux" /\ "mux" \in Threads
    BY Ways, Names, AreWorkers
<1>1. PICK c, m : Way(c, m)
    BY DEF Under
<1>2. CASE OpenEncoder
    <2>1. /\ pc["filter"] = "open"
          /\ pc' = [pc EXCEPT !["filter"] = "flush", !["mux"] = "receive"]
          /\ UNCHANGED <<length, hand, fifo, sendFinished, recvFinished, dstFinished, premux, sq,
                         written, initEof, muxStarted, failing>>
        BY <1>2 DEF OpenEncoder, At, queues, muxing, stopping
    <2>2. /\ pc'["filter"] = "flush" /\ pc'["mux"] = "receive"
          /\ \A u \in Movers \ {"filter"} : pc'[u] = pc[u]
        BY <1>0, <2>1, Ways DEF Shaped
    <2>3. pc["mux"] = "not started" /\ ~muxStarted
        BY <2>1 DEF Under, Gone
    <2>4. \A u \in Movers : Quiet(u)
        BY <2>1, <2>2 DEF Quiet, Full, Empty, Leaving
    <2>5. \A u \in Movers : pc'[u] \in Leaving => pc[u] \in Leaving
        BY <2>2 DEF Leaving
    <2>6. Way(c, m)'
        BY <1>1, <2>1, <2>4, <2>5, Keep
    <2>7. Gone'
        <3>1. \A u \in Movers : pc[u] \in Leaving => pc'[u] \in Leaving
            BY <2>4 DEF Quiet
        <3>2. \A w \in Workers : /\ 2 \in sendFinished'[w] => pc'[Up[w]] \in Leaving
                                 /\ 2 \in recvFinished'[w] => pc'[w] \in Leaving
                                 /\ w \in dstFinished' => pc'[w] \in Leaving
            BY <2>1, <3>1, Ways DEF Under, Gone
        <3> QED
            BY <2>1, <2>2, <2>3, <3>2 DEF Under, Gone
    <2> QED
        BY <2>1, <2>6, <2>7 DEF Under
<1>3. CASE FlushPremux
    <2> DEFINE s == Earliest
               n == Head(premux[s])
    <2>1. /\ pc["filter"] = "flush" /\ Waiting # {} /\ premux' = [premux EXCEPT ![s] = Tail(@)]
          /\ UNCHANGED <<length, pc, hand, dstFinished, muxStarted, muxing, failing, sq, written>>
        BY <1>3 DEF FlushPremux, At, stopping, muxing
    <2>2. s \in Streams /\ premux[s] # <<>> /\ ~muxStarted /\ initEof = {}
        BY <2>1, EarliestIs DEF Shaped, Under, Gone
    <2>3. /\ \/ n = 0 /\ tq_send_finish("mux", s)
             \/ n # 0 /\ s \in recvFinished["mux"]
             \/ n # 0 /\ Put("mux", s, n)
          /\ (s \in recvFinished["mux"] /\ n # 0) \/ initEof' = initEof
        BY <1>3, <2>2 DEF FlushPremux
    <2>4. n # 0 => s \notin recvFinished["mux"]
        <3>1. /\ Arrived(c, m, s) /\ Closed(c, m, s) /\ m[s] \in Nat /\ c[Sender[s]] \in Nat
            BY <1>1, <2>2, WayIs, SenderIs
        <3>2. m[s] <= c[Sender[s]] /\ Lot(premux[s], m[s], c[Sender[s]])
            BY <3>1 DEF Arrived
        <3>3. n # 0 => m[s] < c[Sender[s]]
            BY <2>2, <3>1, <3>2, ParkedIs, LotTail
        <3> QED
            BY <3>1, <3>3 DEF Closed
    <2> HIDE DEF s, n
    <2>5. initEof' = {} /\ recvFinished' = recvFinished /\ \A w \in Workers : sendFinished'[w] = sendFinished[w]
        BY <2>2, <2>3, <2>4, Ways DEF Put, tq_send_finish, Shaped, Boxed
    <2>6. \E k : Way(c, k)'
        <3>1. CASE n = 0
            BY <1>1, <2>1, <2>2, <2>3, <3>1, FlushEndWay DEF n
        <3>2. CASE n # 0
            <4>1. Head(premux[s]) # 0 /\ Put("mux", s, Head(premux[s]))
                BY <2>3, <2>4, <3>2 DEF n
            <4> QED
                BY <1>1, <2>1, <2>2, <4>1, FlushWay
        <3> QED
            BY <3>1, <3>2
    <2>7. Gone'
        <3>1. ~ muxStarted'
            BY <2>1, <2>2
        <3> QED
            BY <2>1, <2>2, <2>5, <3>1, GoneStays DEF Under, Gone
    <2> QED
        BY <2>1, <2>5, <2>6, <2>7 DEF Under
<1>4. CASE MuxStarted
    <2>1. /\ pc["filter"] = "flush" /\ Waiting = {} /\ Goto("filter", "send")
          /\ UNCHANGED <<length, hand, fifo, sendFinished, recvFinished, dstFinished, premux, sq,
                         written, initEof, failing>>
        BY <1>4 DEF MuxStarted, At, queues, muxing, stopping
    <2>2. Moved("filter", {"send"})
        BY <1>0, <2>1, GotoDoes
    <2>3. /\ pc'["filter"] = "send" /\ pc'["mux"] = pc["mux"] /\ pc["mux"] # "not started"
          /\ \A u \in Movers \ {"filter"} : pc'[u] = pc[u]
        BY <1>0, <2>1, <2>2, Ways DEF Moved, Under, Gone
    <2>4. \A u \in Movers : Quiet(u)
        BY <2>1, <2>3 DEF Quiet, Full, Empty, Leaving
    <2>5. \A u \in Movers : pc'[u] \in Leaving => pc[u] \in Leaving
        BY <2>3 DEF Leaving
    <2>6. Way(c, m)'
        BY <1>1, <2>1, <2>4, <2>5, Keep
    <2>7. Gone'
        <3>1. \A u \in Movers : pc[u] \in Leaving => pc'[u] \in Leaving
            BY <2>4 DEF Quiet
        <3>2. \A w \in Workers : /\ 2 \in sendFinished'[w] => pc'[Up[w]] \in Leaving
                                 /\ 2 \in recvFinished'[w] => pc'[w] \in Leaving
                                 /\ w \in dstFinished' => pc'[w] \in Leaving
            BY <2>1, <3>1, Ways DEF Under, Gone
        <3>3. \A s \in Streams : premux'[s] = <<>>
            BY <2>1 DEF Waiting
        <3> QED
            BY <2>1, <2>3, <3>2, <3>3 DEF Under, Gone
    <2> QED
        BY <2>1, <2>6, <2>7 DEF Under
<1> QED
    BY <1>2, <1>3, <1>4

LEMMA MuxerUnder ==
    ASSUME Shaped, Under, MuxPacket \/ MuxEnd
    PROVE  Under'
<1>1. PICK c, m : Way(c, m)
    BY DEF Under
<1>2. Way(c, m)' /\ CutOK(sq', written', recvFinished'["mux"])
    BY <1>1, PacketWay, EndWay DEF Under
<1>3. /\ pc["mux"] = "receive"
      /\ UNCHANGED <<sendFinished, dstFinished, premux, muxStarted, initEof>>
      /\ recvFinished' = recvFinished \/ tq_receive_finish("mux", {Min(Ending)})
      /\ Goto("mux", "finish") \/ Goto("mux", "receive")
    BY DEF MuxPacket, MuxEnd, At, Write, premuxing, tq_receive_finish
<1>4. "mux" \in Threads /\ "mux" \in Queues /\ "mux" \notin Workers /\ "mux" \notin Movers /\ "filter" \in Movers
    BY Ways, Names, AreWorkers
<1>5. Moved("mux", {"receive", "finish"})
    BY <1>3, <1>4, GotoDoes DEF Moved
<1>6. (\A u \in Movers : pc'[u] = pc[u]) /\ pc'["mux"] # "not started"
    BY <1>4, <1>5, Ways DEF Moved
<1>7. \A w \in Workers : recvFinished'[w] = recvFinished[w]
    <2>1. recvFinished \in [Queues -> SUBSET Streams]
        BY DEF Shaped, Boxed
    <2>2. CASE tq_receive_finish("mux", {Min(Ending)})
        BY <1>4, <2>1, <2>2, Ways DEF tq_receive_finish
    <2> QED
        BY <1>3, <2>2
<1>8. initEof' = {}
    BY <1>3 DEF Under, Gone
<1>9. Gone'
    BY <1>3, <1>4, <1>6, <1>7, <1>8, GoneStays DEF Under
<1> QED
    BY <1>2, <1>9 DEF Under

LEMMA MainUnder ==
    ASSUME Shaped, Under, Main \/ ApplyChange("mux")
    PROVE  Under'
<1>1. UNCHANGED <<length, hand, fifo, sendFinished, recvFinished, dstFinished, premux,
                  sq, written, initEof, muxStarted, failing>>
    BY DEF Main, MainStart, MainTerminate, MainChoke, MainDrain, MainJoin, ApplyChange,
           queues, premuxing, muxing, stopping
<1>2. pc' = pc \/ \E l : Goto("main", l)
    BY DEF Main, MainStart, MainTerminate, MainChoke, MainDrain, MainJoin, ApplyChange
<1>3. \A u \in Threads \ {"main"} : pc'[u] = pc[u]
    BY <1>2, GotoLeaves
<1> QED
    BY <1>1, <1>3, NothingUnder

(* After a failure a task of the input may lose packets, but doubles none. *)
LEMMA FailUnder ==
    ASSUME Shaped, Under, NEW t \in Failing, Fail(t)
    PROVE  Under'
<1>1. t \in Threads /\ t # "main" /\ failing' # None
    BY BoundsAssumption, FailRest
<1>2. /\ Goto(t, "finish") \/ Goto(t, "close")
      /\ UNCHANGED <<length, hand, fifo, sendFinished, recvFinished, dstFinished, premux,
                     sq, written, initEof, muxStarted>>
    BY DEF Fail, queues, premuxing, muxing
<1>3. Moved(t, {"finish", "close"})
    BY <1>1, <1>2, GotoDoes DEF Moved
<1>4. Alone(t) /\ pc'[t] \in {"finish", "close"}
    BY <1>2, <1>3 DEF Moved, Alone
<1>5. Told
    BY <1>2 DEF Told
<1>6. CASE t # "mux"
    <2>1. t \in Movers /\ pc'[t] \in Leaving /\ pc'[t] \notin {"open", "flush"}
        BY <1>1, <1>4, <1>6, Names DEF Movers, Leaving
    <2>2. Quiet(t)
        BY <1>2, <2>1, Labels DEF Quiet
    <2> QED
        BY <1>1, <1>2, <1>4, <1>5, <1>6, <2>1, <2>2, StepUnder
<1>7. CASE t = "mux"
    <2>1. pc["mux"] = "receive" /\ pc'["mux"] # "not started"
        BY <1>4, <1>7 DEF Fail, At
    <2>2. \A u \in Movers : pc'[u] = pc[u] /\ hand'[u] = hand[u]
        BY <1>2, <1>4, <1>7, Ways DEF Alone
    <2>3. \A u \in Movers : Quiet(u)
        BY <2>2 DEF Quiet
    <2>4. PICK c, m : Way(c, m)
        BY DEF Under
    <2>5. Way(c, m)'
        BY <1>1, <1>2, <2>3, <2>4, Keep
    <2>6. "filter" \in Movers
        BY Ways, AreWorkers
    <2>7. Gone'
        BY <1>2, <2>1, <2>2, <2>6, GoneStays DEF Under, Gone
    <2> QED
        BY <1>2, <2>5, <2>7 DEF Under
<1> QED
    BY <1>6, <1>7

LEMMA UnderNext ==
    ASSUME Shaped, Stops, Muxing, Under, Next
    PROVE  Under'
<1>1. terminate => failing # None
    <2>1. pc["mux"] # "done"
        BY DEF Muxing
    <2> QED
        BY <2>1 DEF Stops
<1>2. ~MuxDone
    BY DEF MuxDone, Muxing, At
<1>3. ASSUME NEW s \in Streams, Demuxer(s) PROVE Under'
    BY <1>1, <1>3, DemuxerUnder
<1>4. ASSUME NEW w \in Workers, Worker(w) PROVE Under'
    BY <1>4, WorkerUnder
<1>5. ASSUME NEW t \in Failing, Fail(t) PROVE Under'
    BY <1>5, FailUnder
<1> QED
    BY <1>2, <1>3, <1>4, <1>5, FilterUnder, MuxerUnder, MainUnder, AreWorkers DEF Next, Filter, Muxer

(* A stream that the muxer knows to be at its end has come whole. *)
LEMMA WayEnded ==
    ASSUME Shaped, NEW c, NEW m, Way(c, m), failing = None, NEW s \in Streams, s \in recvFinished["mux"]
    PROVE  Muxed(s) = length[s]
<1>1. Sender[s] \in Movers /\ Path(Sender[s]) = s
    BY Ways
<1>2. Closed(c, m, s)
    BY WayIs
<1>3. Muxed(s) = m[s] /\ m[s] = c[Sender[s]] /\ pc[Sender[s]] \in Leaving
    BY <1>2 DEF Closed
<1>4. c[Sender[s]] = length[s]
    BY <1>1, <1>3 DEF Way, Drained
<1> QED
    BY <1>3, <1>4

-----------------------------------------------------------------------------
(* The end of the file *)

(* The muxer has got a part of either stream, and the whole of those that have ended. *)
Ended ==
    /\ sq.finished = Streams
    /\ \E e : /\ CutOK(sq, written, e)
              /\ \A s \in Streams : /\ Count(sq, written, s) <= length[s]
                                    /\ s \in e => Count(sq, written, s) = length[s]

AtMost == \A s \in Streams : written[s] <= length[s]

Filed ==
    /\ Muxing => Under
    /\ ~Muxing => AtMost /\ (failing = None => Ended)

Sated == failing = None /\ sq.finished = Streams => Ended

LEMMA UnderAtMost == Shaped /\ Under => AtMost /\ Sated
<1> SUFFICES ASSUME Shaped, Under PROVE AtMost /\ Sated
    OBVIOUS
<1>1. PICK c, m : Way(c, m)
    BY DEF Under
<1>2. \A s \in Streams : /\ Muxed(s) \in Nat /\ m[s] \in Nat /\ c[Sender[s]] \in Nat /\ length[s] \in Nat
                         /\ Muxed(s) <= m[s] /\ m[s] <= c[Sender[s]] /\ c[Sender[s]] <= length[s]
                         /\ written[s] \in Nat /\ written[s] <= Muxed(s)
    BY <1>1, WayBound
<1>3. \A s \in Streams : Muxed(s) <= length[s] /\ written[s] <= length[s]
    BY <1>2
<1>4. ASSUME failing = None, sq.finished = Streams PROVE Ended
    <2>1. CutOK(sq, written, recvFinished["mux"])
        BY DEF Under
    <2>2. \A s \in Streams : s \in recvFinished["mux"] => Muxed(s) = length[s]
        BY <1>1, <1>4, WayEnded
    <2> QED
        BY <1>3, <1>4, <2>1, <2>2 DEF Ended, Muxed
<1> QED
    BY <1>3, <1>4 DEF AtMost, Sated

LEMMA UnderAtMostNext == (Shaped /\ Under)' => (AtMost /\ Sated)'
BY UnderAtMost, PTL

(* The muxer is done with the packets when its queue says so. *)
LEMMA LastTaken ==
    ASSUME Shaped, Shaped', MuxPacket \/ MuxEnd, pc["mux"] = "receive", ~Muxing'
    PROVE  sq'.finished = Streams
<1>1. PICK x : Write(x)
    BY DEF MuxPacket, MuxEnd
<1>2. sq'.finished = x.finished
    <2>1. sq' = [x EXCEPT !.fifo = [s \in Streams |-> Left(x, s, Due(x, s))]]
        BY <1>1 DEF Write
    <2>2. sq' \in SyncQueueType
        BY DEF Shaped, Mixed
    <2>3. "finished" \in DOMAIN sq'
        BY <2>2 DEF SyncQueueType
    <2> QED
        BY <2>1, <2>3
<1>3. Eof(x)
    <2>1. "mux" \in Threads
        BY Names
    <2> QED
        BY <1>1, <2>1 DEF Write, Goto, Shaped, Muxing
<1> QED
    BY <1>2, <1>3, TwoStreams DEF Eof

LEMMA FiledNext ==
    ASSUME Shaped, Shaped', Opening, Stops, Filed, Next
    PROVE  Filed'
<1>1. CASE Muxing
    <2>1. Under /\ Under'
        BY <1>1, UnderNext DEF Filed
    <2>2. AtMost' /\ Sated'
        BY <2>1, UnderAtMostNext
    <2>3. ASSUME ~Muxing', failing' = None PROVE Ended'
        <3>1. ~MuxRest
            BY <1>1, <2>3 DEF MuxRest, Muxing
        <3>2. ~OpenEncoder
            BY <2>3, OpenRest DEF Muxing
        <3>3. ~("mux" \in Failing /\ Fail("mux"))
            BY <2>3, FailRest
        <3>4. Muxer
            BY <3>1, <3>2, <3>3, NextIs
        <3>5. pc["mux"] = "receive" /\ (MuxPacket \/ MuxEnd)
            <4>1. pc["mux"] # "finish" /\ pc["mux"] # "report" /\ pc'["mux"] # pc["mux"]
                BY <1>1, <2>3 DEF Muxing
            <4> QED
                BY <3>4, <4>1, MuxerRest
        <3>6. sq'.finished = Streams
            BY <2>3, <3>5, LastTaken
        <3> QED
            BY <2>2, <2>3, <3>6 DEF Sated
    <2> QED
        BY <2>1, <2>2, <2>3 DEF Filed
<1>2. CASE ~Muxing
    <2>1. pc["mux"] # "not started" /\ pc["mux"] # "receive"
        BY <1>2 DEF Muxing
    <2>2. ~OpenEncoder
        BY <2>1, OpenRest DEF Opening
    <2>3. ~("mux" \in Failing /\ Fail("mux"))
        BY <2>1 DEF Fail, At
    <2>4. /\ pc'["mux"] = pc["mux"] \/ pc'["mux"] = "report" \/ pc'["mux"] = "done"
          /\ sq' = sq /\ written' = written
        <3>1. CASE MuxRest
            BY <3>1 DEF MuxRest
        <3>2. CASE Muxer
            BY <2>1, <3>2, MuxerRest
        <3> QED
            BY <2>2, <2>3, <3>1, <3>2, NextIs
    <2>5. ~Muxing'
        BY <2>1, <2>4 DEF Muxing
    <2>6. length' = length /\ (failing' = None => failing = None)
        BY NextIs DEF Lasting
    <2>7. AtMost /\ (failing = None => Ended)
        BY <1>2 DEF Filed
    <2>8. AtMost'
        BY <2>4, <2>6, <2>7 DEF AtMost
    <2>9. failing' = None => Ended'
        BY <2>4, <2>6, <2>7 DEF Ended
    <2> QED
        BY <2>5, <2>8, <2>9 DEF Filed
<1> QED
    BY <1>1, <1>2

LEMMA InitUnder == Init => Under
<1> SUFFICES ASSUME Init PROVE Under
    OBVIOUS
<1>1. /\ hand = [t \in Threads |-> 0] /\ fifo = [q \in Queues |-> <<>>]
      /\ sendFinished = [q \in Queues |-> {}] /\ recvFinished = [q \in Queues |-> {}]
      /\ dstFinished = {} /\ premux = [s \in Streams |-> <<>>] /\ muxStarted = FALSE /\ initEof = {}
      /\ sq = sq_alloc /\ written = [s \in Streams |-> 0]
    BY DEF Init
<1>2. (\A t \in Movers : pc[t] \in {"read", "receive"}) /\ pc["filter"] = "receive"
    BY InitLabels, Names DEF Movers
<1>3. Gone
    <2>1. /\ \A w \in Workers : sendFinished[w] = {} /\ recvFinished[w] = {}
          /\ muxStarted = FALSE
        BY <1>1, Ways
    <2> QED
        BY <1>1, <1>2, <2>1 DEF Gone
<1>4. /\ sq.head = [s \in Stream |-> NoPts] /\ sq.fifo = [s \in Stream |-> <<>>]
      /\ sq.finished = {} /\ sq.headStream = NoStream /\ sq.headFinished = NoStream
    BY <1>1 DEF sq_alloc
<1>5. \A s \in Streams : sq.head[s] = -1 /\ sq.fifo[s] = <<>> /\ written[s] = 0 /\ Count(sq, written, s) = 0
    BY <1>1, <1>4, TwoStreams DEF Count
<1>7. CutOK(sq, written, recvFinished["mux"])
    <2>1. HeadOK(sq) /\ EndedOK(sq, recvFinished["mux"]) /\ Limit(sq) = -1
        BY <1>4, <1>5, TwoStreams DEF HeadOK, EndedOK, Limit
    <2>2. \A s \in Streams : /\ Count(sq, written, s) <= MaxPackets /\ Len(sq.fifo[s]) = 0
                             /\ IsTop(s, Count(sq, written, s), sq.head[s])
        BY <1>5, BoundsAssumption DEF IsTop
    <2>3. Queued(sq, written)
        BY <2>2 DEF Queued
    <2>4. Below(sq, written) /\ Beyond(sq, written)
        BY <1>5 DEF Below, Beyond
    <2> QED
        BY <2>1, <2>3, <2>4 DEF CutOK
<1> DEFINE c == [t \in Movers |-> 0]
           m == [s \in Streams |-> 0]
<1>8. /\ c \in [Movers -> Nat] /\ m \in [Streams -> Nat]
      /\ (\A t \in Movers : c[t] = 0) /\ (\A s \in Streams : m[s] = 0)
    OBVIOUS
<1> HIDE DEF c, m
<1>9. \A w \in Workers : fifo[w] = <<>> /\ Len(fifo[w]) = 0
    BY <1>1, Ways
<1>10. \A t \in Movers : Took(c, t) = 0
    <2> TAKE t \in Movers
    <2>1. CASE t \in Workers
        <3>1. c[Up[t]] = 0 /\ Len(fifo[t]) = 0
            BY <1>8, <1>9, <2>1, Ways
        <3> QED
            BY <2>1, <3>1 DEF Took
    <2>2. CASE t \notin Workers
        BY <1>1, <2>2, Ways DEF Took
    <2> QED
        BY <2>1, <2>2
<1>11. \A t \in Movers : Link(c, t)
    BY <1>2, <1>8, <1>10 DEF Link, Full
<1>12. \A w \in Workers : InTurn(c, w)
    BY <1>9 DEF InTurn
<1>13. \A s \in Streams : Arrived(c, m, s) /\ Closed(c, m, s)
    <2> TAKE s \in Streams
    <2>1. c[Sender[s]] = 0 /\ m[s] = 0 /\ Muxed(s) = 0
        BY <1>5, <1>8, Ways DEF Muxed
    <2>2. fifo["mux"] = <<>> /\ premux[s] = <<>> /\ sendFinished["mux"] = {} /\ recvFinished["mux"] = {}
        BY <1>1, Ways
    <2>3. Len(<<>>) = 0
        OBVIOUS
    <2>4. Line(<<>>, s, 0, 0) /\ Lot(<<>>, 0, 0)
        BY <2>3 DEF Line, Lot
    <2>5. Arrived(c, m, s)
        BY <2>1, <2>2, <2>4 DEF Arrived
    <2>6. Closed(c, m, s)
        BY <2>1, <2>2, <2>3 DEF Closed
    <2> QED
        BY <2>5, <2>6
<1>14. Drained(c)
    BY <1>2 DEF Drained, Leaving
<1>15. Way(c, m)
    BY <1>8, <1>11, <1>12, <1>13, <1>14 DEF Way, Chain
<1> QED
    BY <1>3, <1>7, <1>15 DEF Under

WholeInv == Shaped /\ Opening /\ Stops /\ Filed

LEMMA InitWhole == Init => WholeInv
<1> SUFFICES ASSUME Init PROVE WholeInv
    OBVIOUS
<1>1. pc["filter"] = "receive" /\ pc["mux"] = "not started" /\ pc["main"] = "start"
    BY InitLabels
<1>2. terminate = FALSE /\ muxDone = FALSE
    BY DEF Init
<1>3. Shaped /\ Under
    BY InitShaped, InitUnder
<1> QED
    BY <1>1, <1>2, <1>3 DEF WholeInv, Opening, Stops, Filed, Muxing

LEMMA WholeNext == WholeInv /\ [Next]_vars => WholeInv'
<1> SUFFICES ASSUME WholeInv, [Next]_vars PROVE WholeInv'
    OBVIOUS
<1>1. Shaped'
    <2>1. MuxPacket => Muxing
        BY DEF MuxPacket, At, Muxing
    <2>2. Numbered
        BY <2>1, IsNumbered DEF WholeInv, Filed, Numbered
    <2> QED
        BY <2>2, ShapedNext DEF WholeInv
<1>2. CASE UNCHANGED vars
    <2>1. UNCHANGED <<length, pc, hand, fifo, sendFinished, recvFinished, dstFinished, premux,
                      muxStarted, initEof, sq, written, terminate, muxDone, failing>>
        BY <1>2 DEF vars, queues, premuxing, muxing, stopping
    <2>2. Opening' /\ Stops' /\ Muxing' = Muxing
        BY <2>1 DEF WholeInv, Opening, Stops, Muxing
    <2>3. Under => Under'
        BY <2>1, NothingUnder DEF WholeInv
    <2>4. AtMost' = AtMost /\ Ended' = Ended
        BY <2>1 DEF AtMost, Ended
    <2> QED
        BY <1>1, <2>1, <2>2, <2>3, <2>4 DEF WholeInv, Filed
<1>3. CASE Next
    BY <1>1, <1>3, OpeningNext, StopsNext, FiledNext DEF WholeInv
<1> QED
    BY <1>2, <1>3

(* The inductive invariant: until the muxer has finished every packet is on its way, and
   from then on, without a failure, the file is what it will be. *)
THEOREM WholeInvariant == Spec => []WholeInv
BY InitWhole, WholeNext, PTL DEF Spec

(* No failure and no order of the threads takes the state out of its types: no queue grows
   over its capacity, and no number of a packet over the length of the inputs. *)
THEOREM TypeOKAlways == Spec => []TypeOK
<1>1. WholeInv => TypeOK
    <2> SUFFICES ASSUME WholeInv PROVE TypeOK
        OBVIOUS
    <2>1. Shaped
        BY DEF WholeInv
    <2>2. AtMost
        BY <2>1, UnderAtMost DEF WholeInv, Filed
    <2>3. \A s \in Streams : length[s] \in 1 .. MaxPackets /\ written[s] \in Nat
        BY <2>1 DEF Shaped, Handed, Mixed
    <2>4. \A s \in Streams : written[s] \in 0 .. MaxPackets
        BY <2>2, <2>3, BoundsAssumption DEF AtMost
    <2>5. written \in [Streams -> 0 .. MaxPackets]
        BY <2>1, <2>4 DEF Shaped, Mixed
    <2> QED
        BY <2>1, <2>5 DEF TypeOK, Shaped, Handed, Boxed, Mixed
<1> QED
    BY <1>1, WholeInvariant, PTL

(* For inputs, packets and queues of any size, and whatever order the threads run in:
   when ffmpeg ends without a failure the file has the packets of either stream up to the
   first one that ends after the other input, and none from there on; it may stop before
   that only after a packet that ends with the other input. *)
THEOREM WholeFileAlways == Spec => []WholeFile
<1>1. WholeInv => WholeFile
    <2> SUFFICES ASSUME WholeInv, pc["main"] = "done", failing = None
                 PROVE  Whole
        BY DEF WholeFile, Whole
    <2>1. pc["mux"] = "done"
        BY DEF WholeInv, Stops
    <2>2. Ended
        BY <2>1 DEF WholeInv, Filed, Muxing
    <2>3. Whole
        BY <2>2, CutWhole DEF Ended, WholeInv, Shaped
    <2> QED
        BY <2>3
<1> QED
    BY <1>1, WholeInvariant, PTL
===============================================================================
