------------------------------- MODULE SyncQueue -------------------------------
(* The queue that cuts the streams of a file at the end of the shortest one
   (dependencies/ffmpeg/fftools/sync_queue.c), as operators on its state: a record
   of the packets queued per stream and of the time stamps seen.  A packet is the
   time at which it ends, in ticks of a clock fine enough for the time bases of all
   streams: comparing two streams is exact, converting a time stamp from one to the
   other rounds it.  The muxer thread sends every packet through the queue and takes
   out what may be written. *)
EXTENDS Integers, Sequences, FiniteSets, FiniteSetsExt

CONSTANTS
    NbStreams,   \* nb_streams
    Limiting,    \* the streams with the flag limiting: video and audio
    BufSize,     \* buf_size_us
    TimeBase,    \* ticks in a unit of the time base of a stream's packets
    Second,      \* ticks in a second, the time base of a stream without packets
    Micro        \* ticks in a microsecond

Stream == 1 .. NbStreams

ASSUME StreamsAssumption ==
    NbStreams \in Nat \ {0} /\ Limiting \subseteq Stream /\ BufSize \in Nat

(* The numerator of a time base is 1: tb_update changes no time stamp. *)
ASSUME TimeBaseAssumption ==
    /\ Second \in Nat \ {0} /\ Micro \in Nat \ {0}
    /\ TimeBase \in [Stream -> 1 .. Second]
    /\ \A s \in Stream : Second % TimeBase[s] = 0

NoPts == -1    \* AV_NOPTS_VALUE: no packet ends before 0
NoStream == 0  \* -1 in head_stream and head_finished_stream

SyncQueueType == [
    fifo : [Stream -> Seq(Nat)],             \* ends of the packets queued
    head : [Stream -> Nat \union {NoPts}],   \* head_ts, the largest end seen
    tb : [Stream -> 1 .. Second],            \* the time base, by its unit
    finished : SUBSET Stream,                \* streams with the flag finished
    headStream : Limiting \union {NoStream},
    headFinished : Limiting \union {NoStream}]

sq_alloc == [
    fifo |-> [s \in Stream |-> <<>>],
    head |-> [s \in Stream |-> NoPts],
    tb |-> [s \in Stream |-> Second],
    finished |-> {},
    headStream |-> NoStream,
    headFinished |-> NoStream]

-----------------------------------------------------------------------------
(* finish_stream: the finished stream with the smallest end limits all others. *)
finish_stream(q, s) ==
    LET limits == s \in Limiting /\ q.head[s] # NoPts
        first == \/ q.headFinished = NoStream
                 \/ q.head[s] < q.head[q.headFinished]
        hf == IF limits /\ first THEN s ELSE q.headFinished
        past == {r \in Stream \ {hf} : q.head[r] # NoPts /\ q.head[hf] <= q.head[r]}
    IN  [q EXCEPT !.headFinished = hf,
                  !.finished = @ \union {s} \union (IF limits THEN past ELSE {})]

Trailing(q) == {s \in Limiting : \A r \in Limiting : q.head[s] <= q.head[r]}

(* A mistake: the queue head is known as soon as one stream has a time stamp. *)
queue_head_update_early(q) ==
    IF q.headStream \in Trailing(q) THEN q
    ELSE [q EXCEPT !.headStream = Min({s \in Limiting : q.head[s] # NoPts})]

(* queue_head_update: once every limiting stream has a time stamp. *)
queue_head_update(q) ==
    IF \/ q.headStream = NoStream /\ \E s \in Limiting : q.head[s] = NoPts
       \/ q.headStream \in Trailing(q)
    THEN q
    ELSE [q EXCEPT !.headStream = Min(Trailing(q))]

(* A mistake: a stream that overtakes the finished one stays open. *)
stream_update_ts_open(q, s, ts) ==
    LET seen == [q EXCEPT !.head[s] = ts]
    IN  IF ts <= q.head[s] THEN q
        ELSE IF s \in Limiting THEN queue_head_update(seen) ELSE seen

(* A mistake: the queue head is looked for only when there is none yet. *)
stream_update_ts_once(q, s, ts) ==
    LET seen == [q EXCEPT !.head[s] = ts]
        cut == IF q.headFinished # NoStream /\ q.head[q.headFinished] <= ts
               THEN finish_stream(seen, s) ELSE seen
    IN  IF ts <= q.head[s] THEN q
        ELSE IF s \in Limiting /\ q.headStream = NoStream
             THEN queue_head_update(cut) ELSE cut

(* stream_update_ts.  The queue head is looked for again when it may have moved. *)
stream_update_ts(q, s, ts) ==
    LET seen == [q EXCEPT !.head[s] = ts]
        cut == IF q.headFinished # NoStream /\ q.head[q.headFinished] <= ts
               THEN finish_stream(seen, s) ELSE seen
    IN  IF ts <= q.head[s] THEN q
        ELSE IF s \in Limiting /\ q.headStream \in {NoStream, s}
             THEN queue_head_update(cut) ELSE cut

(* sq_send of a packet to a stream that is not finished. *)
sq_send(q, s, end) ==
    stream_update_ts([q EXCEPT !.tb[s] = TimeBase[s], !.fifo[s] = Append(@, end)], s, end)

-----------------------------------------------------------------------------
(* receive_for_stream: what does not end after the queue head may be released. *)
Releasable(q, s) ==
    /\ q.fifo[s] # <<>>
    /\ \/ Limiting = {}
       \/ q.headStream # NoStream /\ Head(q.fifo[s]) <= q.head[q.headStream]

(* receive_internal takes the first stream that has something. *)
Released(q) == {s \in Stream : Releasable(q, s) /\ \A r \in 1 .. s - 1 : ~Releasable(q, r)}

sq_receive(q, s) == [q EXCEPT !.fifo[s] = Tail(@)]

Eof(q) == q.finished = Stream

(* overflow_heartbeat looks at the stream that is most ahead. *)
Ahead(q) == Min({s \in Stream : \A r \in Stream : q.head[r] <= q.head[s]})

(* av_rescale_q: the multiple of unit that is nearest to ts. *)
Near(ts, unit) ==
    LET over == ts % unit IN
    IF 2 * over < unit THEN ts - over ELSE ts - over + unit

(* What stream s holds back for, in microseconds (ticks of them). *)
WaitsFor(q, s) == Near(q.head[s] - Head(q.fifo[s]), Micro)

(* A mistake: no heartbeat before every stream has a time stamp. *)
OverflowsKnown(q) ==
    LET st == Ahead(q) IN
    /\ q.headStream # NoStream
    /\ q.fifo[st] # <<>>
    /\ WaitsFor(q, st) >= BufSize * Micro

(* ... and overflows when its first packet is that far behind it. *)
Overflows(q) ==
    LET st == Ahead(q) IN
    /\ q.fifo[st] # <<>>
    /\ Head(q.fifo[st]) < q.head[st]
    /\ WaitsFor(q, st) >= BufSize * Micro

(* What the tail of stream st is called in the time base of r: the next unit of st,
   rounded, and later than what r has come to. *)
FakeTs(q, st, tail, r) ==
    LET near == Near(tail + q.tb[st], q.tb[r])
        next == q.head[r] + q.tb[r]
    IN  IF q.head[r] # NoPts /\ near < next THEN next ELSE near

(* A stream that holds this packet back gets a fake time stamp, its turn in the loop
   over the streams. *)
overflow_heartbeat(q, st, tail, r) ==
    IF r # st /\ r \notin q.finished /\ q.head[r] < tail + q.tb[st]
    THEN stream_update_ts(q, r, FakeTs(q, st, tail, r))
    ELSE q
=============================================================================
