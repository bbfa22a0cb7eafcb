-------------------------- MODULE SyncQueueUse_proof ---------------------------
(* Proofs about SyncQueueUse, for any number of streams, any choice of limiting
   ones and any buffer duration: the remembered queue head, the cut of -shortest
   and the stop of the other streams. *)
EXTENDS SyncQueueUse, WellFoundedInduction, TLAPS

-----------------------------------------------------------------------------
(* A time stamp of a stream, if there is one; faked ones are rounded up at the most. *)
Stamp == Nat \union {NoPts}
Highest == MaxTs + 2 * Second

USE DEF NoPts, Stamp

(* What the queue x keeps true of its flags and remembered streams when the streams
   e have ended. *)
Typed(x) ==
    /\ x \in SyncQueueType
    /\ \A s \in Stream : x.head[s] <= Highest

(* head_finished_stream is a limiting stream that has ended with a packet ... *)
CutIsEnded(x, e) ==
    x.headFinished # NoStream =>
        x.headFinished \in e \cap Limiting /\ x.head[x.headFinished] # NoPts

(* ... and of these the one with the smallest end. *)
CutIsFirst(x, e) ==
    \A r \in e \cap Limiting :
        x.head[r] # NoPts =>
            x.headFinished # NoStream /\ x.head[x.headFinished] <= x.head[r]

(* Every stream that has come so far is finished ... *)
FinishedPast(x) ==
    x.headFinished # NoStream =>
        \A s \in Stream : x.head[x.headFinished] <= x.head[s] => s \in x.finished

(* ... and no other one before its own end. *)
OnlyPastFinished(x, e) ==
    \A s \in x.finished :
        s \in e \/ (x.headFinished # NoStream /\ x.head[x.headFinished] <= x.head[s])

HeadTrails(x) == x.headStream = NoStream \/ x.headStream \in Trailing(x)

(* head_stream is known as soon as every limiting stream has a time stamp. *)
HeadKnown(x) ==
    /\ x.headStream # NoStream => \A s \in Limiting : x.head[s] # NoPts
    /\ x.headStream = NoStream /\ Limiting # {} => \E s \in Limiting : x.head[s] = NoPts

Sound(x, e) ==
    /\ Typed(x)
    /\ e \subseteq x.finished
    /\ CutIsEnded(x, e)
    /\ CutIsFirst(x, e)
    /\ FinishedPast(x)
    /\ OnlyPastFinished(x, e)
    /\ HeadTrails(x)
    /\ HeadKnown(x)

(* l is g followed by f. *)
Joins(l, g, f) ==
    /\ Len(g) \in Nat /\ Len(f) \in Nat /\ Len(l) = Len(g) + Len(f)
    /\ \A i \in 1 .. Len(g) : g[i] = l[i]
    /\ \A i \in 1 .. Len(f) : f[i] = l[Len(g) + i]

(* l2 is l with v at its end. *)
Longer(l2, l, v) ==
    /\ Len(l2) = Len(l) + 1
    /\ \A i \in 1 .. Len(l) : l2[i] = l[i]
    /\ l2[Len(l) + 1] = v

(* l is l2 with v at its front. *)
Shorter(l2, l, v) ==
    /\ Len(l) \in Nat \ {0} /\ Len(l2) = Len(l) - 1
    /\ v = l[1]
    /\ \A i \in 1 .. Len(l) - 1 : l2[i] = l[i + 1]

(* What was sent has been given out, and the rest waits in the fifo. *)
Traced == \A s \in Stream : Joins(sent[s], given[s], q.fifo[s])

(* The time stamp of a stream is the largest end sent, unless it was faked. *)
HeadIsTop ==
    \A s \in Stream :
        /\ \A i \in 1 .. Len(sent[s]) : sent[s][i] <= q.head[s]
        /\ ~faked => \/ sent[s] = <<>> /\ q.head[s] = NoPts
                     \/ \E i \in 1 .. Len(sent[s]) : sent[s][i] = q.head[s]

(* Nothing given out ends after the queue head. *)
GivenWithinHead ==
    \A s \in Stream : \A i \in 1 .. Len(given[s]) :
        \/ Limiting = {}
        \/ q.headStream # NoStream /\ given[s][i] <= q.head[q.headStream]

BeatOK == phase = "beat" => faked

EndOfQueue == phase = "eof" => Released(q) = {} /\ Eof(q)

(* The inductive invariant of a sync queue in use. *)
IInv ==
    /\ TypeOK
    /\ BeatOK
    /\ Sound(q, ended)
    /\ Traced
    /\ HeadIsTop
    /\ GivenWithinHead
    /\ EndOfQueue

-----------------------------------------------------------------------------
(* Every set of naturals that is not empty has a least member. *)
LEMMA MinIn ==
    ASSUME NEW S, S \subseteq Nat, S # {}
    PROVE  Min(S) \in S /\ \A y \in S : Min(S) <= y
<1>1. PICK m \in S : \A y \in S : ~ (<<y, m>> \in OpToRel(<, Nat))
    BY NatLessThanWellFounded, WFMin
<1>2. \A y \in S : ~ (y < m)
    BY <1>1 DEF OpToRel
<1>3. \A y \in S : m <= y
    BY <1>2
<1>4. QED
    BY <1>3 DEF Min

LEMMA HighestIs == Highest \in Nat /\ MaxTs \in Nat /\ MaxTs <= Highest
BY MaxAssumption, TimeBaseAssumption DEF Highest

LEMMA TrailingIn ==
    ASSUME NEW x, x \in SyncQueueType, Limiting # {}
    PROVE  Min(Trailing(x)) \in Trailing(x)
<1> USE StreamsAssumption DEF Stream
<1>0. /\ Limiting \subseteq Nat /\ Limiting \subseteq 1 .. NbStreams
      /\ x.head \in [1 .. NbStreams -> Stamp]
    BY DEF SyncQueueType
<1> DEFINE Heads == {x.head[s] + 1 : s \in Limiting}
<1>1. Heads \subseteq Nat /\ Heads # {}
    <2>1. \A s \in Limiting : x.head[s] + 1 \in Nat
        BY <1>0
    <2> QED
        BY <2>1
<1>2. Min(Heads) \in Heads /\ \A y \in Heads : Min(Heads) <= y
    BY <1>1, MinIn
<1> HIDE DEF Heads
<1>a. PICK m \in Heads : \A y \in Heads : m <= y
    BY <1>2
<1>b. PICK l \in Limiting : m = x.head[l] + 1
    BY DEF Heads
<1>3. \A r \in Limiting : x.head[l] <= x.head[r]
    <2> SUFFICES ASSUME NEW r \in Limiting PROVE x.head[l] <= x.head[r]
        OBVIOUS
    <2>1. x.head[l] + 1 <= x.head[r] + 1
        BY <1>a, <1>b DEF Heads
    <2> QED
        BY <1>0, <2>1
<1>4. l \in Trailing(x)
    BY <1>3 DEF Trailing
<1>5. Trailing(x) \subseteq Limiting
    BY DEF Trailing
<1>6. Trailing(x) \subseteq Nat /\ Trailing(x) # {}
    BY ONLY <1>0, <1>4, <1>5
<1>7. QED
    BY <1>6, MinIn

LEMMA AheadIn ==
    ASSUME NEW x, Typed(x)
    PROVE  Ahead(x) \in Stream /\ \A r \in Stream : x.head[r] <= x.head[Ahead(x)]
<1> USE StreamsAssumption, MaxAssumption
<1>0. /\ x.head \in [Stream -> Stamp]
      /\ \A s \in Stream : x.head[s] <= Highest
      /\ 1 \in Stream /\ Stream \subseteq Nat
    BY DEF Typed, SyncQueueType, Stream
<1> DEFINE Gaps == {Highest - x.head[s] : s \in Stream}
<1>1. Gaps \subseteq Nat /\ Gaps # {}
    <2>1. ASSUME NEW s \in Stream PROVE Highest - x.head[s] \in Nat
        <3>1. /\ x.head[s] \in Int /\ x.head[s] <= Highest /\ Highest \in Nat
            BY <1>0, HighestIs
        <3> HIDE DEF Highest
        <3> QED
            BY ONLY <3>1
    <2> QED
        BY <1>0, <2>1
<1>2. Min(Gaps) \in Gaps /\ \A y \in Gaps : Min(Gaps) <= y
    BY <1>1, MinIn
<1> HIDE DEF Gaps
<1>3. PICK m \in Gaps : \A y \in Gaps : m <= y
    BY <1>2
<1>4. PICK l \in Stream : m = Highest - x.head[l]
    BY DEF Gaps
<1>5. \A r \in Stream : x.head[r] <= x.head[l]
    <2> SUFFICES ASSUME NEW r \in Stream PROVE x.head[r] <= x.head[l]
        OBVIOUS
    <2>1. Highest - x.head[l] <= Highest - x.head[r]
        BY <1>3, <1>4 DEF Gaps
    <2> QED
        BY <1>0, <2>1, HighestIs
<1> DEFINE First == {s \in Stream : \A r \in Stream : x.head[r] <= x.head[s]}
<1>6. First \subseteq Nat /\ First # {}
    BY <1>0, <1>5
<1>7. Min(First) \in First
    BY <1>6, MinIn
<1>8. QED
    BY <1>7 DEF Ahead

(* The nearest multiple is less than half a unit away. *)
LEMMA NearIs ==
    ASSUME NEW ts \in Nat, NEW unit \in Nat \ {0}
    PROVE  /\ Near(ts, unit) \in Nat /\ Near(ts, unit) <= ts + unit
           /\ 2 * ts <= 2 * Near(ts, unit) + unit
<1>1. PICK over \in 0 .. unit - 1 : over = ts % unit /\ over <= ts
    OBVIOUS
<1>2. Near(ts, unit) = IF 2 * over < unit THEN ts - over ELSE ts - over + unit
    BY <1>1 DEF Near
<1> QED
    BY <1>1, <1>2

(* A fake time stamp is later than what the stream has come to, and less than half a
   unit before the packet that waits. *)
LEMMA FakeIs ==
    ASSUME NEW x, Typed(x), NEW st \in Stream, NEW r \in Stream, NEW tail \in 0 .. MaxTs,
           x.head[r] < tail + x.tb[st]
    PROVE  LET ts == FakeTs(x, st, tail, r)
           IN  /\ ts \in 0 .. Highest /\ x.head[r] < ts
               /\ 2 * tail < 2 * ts + x.tb[r]
<1> DEFINE near == Near(tail + x.tb[st], x.tb[r])
           next == x.head[r] + x.tb[r]
<1>1. /\ x.head[r] \in Stamp /\ x.tb[st] \in 1 .. Second /\ x.tb[r] \in 1 .. Second
      /\ Second \in Nat /\ MaxTs \in Nat
    BY TimeBaseAssumption, MaxAssumption DEF Typed, SyncQueueType, Stamp
<1>2. /\ near \in Nat /\ near <= (tail + x.tb[st]) + x.tb[r]
      /\ 2 * (tail + x.tb[st]) <= 2 * near + x.tb[r]
    <2>1. tail + x.tb[st] \in Nat /\ x.tb[r] \in Nat \ {0}
        BY <1>1
    <2> QED
        BY <2>1, NearIs
<1>3. FakeTs(x, st, tail, r) = IF x.head[r] # NoPts /\ near < next THEN next ELSE near
    BY DEF FakeTs
<1> HIDE DEF near
<1>4. next \in Int /\ (x.head[r] # NoPts => next \in Nat)
    BY <1>1 DEF Stamp
<1> QED
    BY <1>1, <1>2, <1>3, <1>4 DEF Stamp, Highest

(* When nothing can be taken out, no stream has anything to release. *)
LEMMA NothingReleasable ==
    ASSUME NEW x, Released(x) = {}
    PROVE  \A s \in Stream : ~Releasable(x, s)
<1> SUFFICES ASSUME NEW s \in Stream, Releasable(x, s) PROVE FALSE
    OBVIOUS
<1> USE StreamsAssumption
<1>0. Stream \subseteq Nat /\ \A r \in Stream : 1 .. r - 1 \subseteq Stream
    BY DEF Stream
<1> DEFINE Those == {r \in Stream : Releasable(x, r)}
<1>1. Those \subseteq Nat /\ Those # {}
    BY <1>0
<1>2. Min(Those) \in Those /\ \A y \in Those : Min(Those) <= y
    BY <1>1, MinIn
<1> HIDE DEF Those
<1>3. PICK m \in Those : \A y \in Those : m <= y
    BY <1>2
<1>4. \A r \in 1 .. m - 1 : ~Releasable(x, r)
    BY <1>0, <1>3 DEF Those
<1>5. m \in Stream /\ Releasable(x, m)
    BY DEF Those
<1>6. QED
    BY <1>4, <1>5 DEF Released

-----------------------------------------------------------------------------
(* The end of a stream: the flags and the remembered streams stay right. *)
LEMMA EndSound ==
    ASSUME NEW x, NEW e, NEW s \in Stream, Sound(x, e), s \notin e
    PROVE  LET y == finish_stream(x, s)
           IN  /\ Sound(y, e \union {s})
               /\ y.fifo = x.fifo /\ y.head = x.head /\ y.headStream = x.headStream
<1> DEFINE y == finish_stream(x, s)
           limits == s \in Limiting /\ x.head[s] # NoPts
           first == x.headFinished = NoStream \/ x.head[s] < x.head[x.headFinished]
           hf == IF limits /\ first THEN s ELSE x.headFinished
           past == {r \in Stream \ {hf} : x.head[r] # NoPts /\ x.head[hf] <= x.head[r]}
<1>0. /\ Limiting \subseteq Stream /\ NoStream \notin Stream
      /\ x.head \in [Stream -> Stamp] /\ x.finished \subseteq Stream
      /\ x.headFinished \in Limiting \union {NoStream}
      /\ x \in SyncQueueType
    BY StreamsAssumption DEF Sound, Typed, SyncQueueType, Stream, NoStream
<1>1. /\ y.headFinished = hf
      /\ y.finished = x.finished \union {s} \union (IF limits THEN past ELSE {})
      /\ y.fifo = x.fifo /\ y.head = x.head /\ y.headStream = x.headStream
      /\ y \in SyncQueueType
    BY <1>0 DEF finish_stream, SyncQueueType
<1>2. /\ e \subseteq x.finished
      /\ CutIsEnded(x, e) /\ CutIsFirst(x, e) /\ FinishedPast(x) /\ OnlyPastFinished(x, e)
    BY DEF Sound
<1> HIDE DEF y
<1> USE DEF NoPts, NoStream
<1>3. CutIsEnded(y, e \union {s})
    BY <1>0, <1>1, <1>2 DEF CutIsEnded
<1>4. CutIsFirst(y, e \union {s})
    BY <1>0, <1>1, <1>2 DEF CutIsFirst, CutIsEnded
<1>5. FinishedPast(y)
    BY <1>0, <1>1, <1>2 DEF FinishedPast, CutIsEnded
<1>6. OnlyPastFinished(y, e \union {s})
    BY <1>0, <1>1, <1>2 DEF OnlyPastFinished, CutIsEnded
<1>7. HeadTrails(y) /\ HeadKnown(y) /\ Typed(y)
    BY <1>1 DEF Sound, HeadTrails, HeadKnown, Trailing, Typed
<1>8. QED
    BY <1>1, <1>2, <1>3, <1>4, <1>5, <1>6, <1>7 DEF Sound, y

(* A time stamp beyond the cut finishes its stream and, as those that had come so
   far are finished already, no other one. *)
LEMMA CutAgain ==
    ASSUME NEW x, NEW e, NEW s \in Stream, NEW ts \in Nat,
           Sound(x, e), s \notin x.finished, x.head[s] < ts,
           x.headFinished # NoStream, x.head[x.headFinished] <= ts
    PROVE  LET seen == [x EXCEPT !.head[s] = ts]
           IN  finish_stream(seen, s) = [seen EXCEPT !.finished = x.finished \union {s}]
<1> DEFINE seen == [x EXCEPT !.head[s] = ts]
           h == x.headFinished
           past == {r \in Stream \ {h} : seen.head[r] # NoPts /\ seen.head[h] <= seen.head[r]}
<1>t. /\ x \in SyncQueueType
      /\ Limiting \subseteq Stream
      /\ x.head \in [Stream -> Stamp] /\ x.finished \subseteq Stream
    BY StreamsAssumption DEF Sound, Typed, SyncQueueType
<1>c. /\ h \in Limiting /\ h \in e /\ e \subseteq x.finished /\ x.head[h] # NoPts
      /\ FinishedPast(x)
    BY DEF Sound, CutIsEnded
<1>0. /\ x \in SyncQueueType
      /\ Limiting \subseteq Stream
      /\ x.head \in [Stream -> Stamp] /\ x.finished \subseteq Stream
      /\ h \in Limiting /\ h \in e /\ e \subseteq x.finished /\ x.head[h] # NoPts
      /\ FinishedPast(x)
    BY <1>t, <1>c
<1>1. /\ seen \in SyncQueueType
      /\ seen.finished = x.finished /\ seen.headFinished = h
      /\ \A r \in Stream : seen.head[r] = IF r = s THEN ts ELSE x.head[r]
    BY <1>0 DEF SyncQueueType
<1>2. h # s /\ seen.head[h] = x.head[h] /\ ~(seen.head[s] < seen.head[h])
    BY <1>0, <1>1
<1>3. past \subseteq x.finished \union {s}
    BY <1>0, <1>1, <1>2 DEF FinishedPast
<1> HIDE DEF seen
<1>4. \/ finish_stream(seen, s)
           = [seen EXCEPT !.headFinished = h, !.finished = x.finished \union {s} \union past]
      \/ finish_stream(seen, s)
           = [seen EXCEPT !.headFinished = h, !.finished = x.finished \union {s} \union {}]
    BY <1>1, <1>2 DEF finish_stream
<1>5. x.finished \union {s} \union past = x.finished \union {s}
    BY <1>3
<1>6. finish_stream(seen, s)
        = [seen EXCEPT !.headFinished = h, !.finished = x.finished \union {s}]
    BY <1>4, <1>5
<1>7. [seen EXCEPT !.headFinished = h, !.finished = x.finished \union {s}]
        = [seen EXCEPT !.finished = x.finished \union {s}]
    BY <1>1 DEF SyncQueueType
<1>8. QED
    BY <1>6, <1>7 DEF seen

(* queue_head_update: what it finds is again the limiting stream furthest behind. *)
LEMMA HeadUpdate ==
    ASSUME NEW x, x \in SyncQueueType, Limiting # {},
           x.headStream # NoStream => \A s \in Limiting : x.head[s] # NoPts
    PROVE  LET y == queue_head_update(x)
           IN  /\ y \in SyncQueueType /\ HeadTrails(y) /\ HeadKnown(y)
               /\ y.fifo = x.fifo /\ y.head = x.head /\ y.tb = x.tb
               /\ y.finished = x.finished /\ y.headFinished = x.headFinished
<1> DEFINE y == queue_head_update(x)
           m == Min(Trailing(x))
<1>1. m \in Trailing(x) /\ m \in Limiting
    BY TrailingIn DEF Trailing
<1>2. NoStream \notin Limiting
    BY StreamsAssumption DEF Stream, NoStream
<1> HIDE DEF m
<1>3. CASE x.headStream = NoStream /\ \E s \in Limiting : x.head[s] = NoPts
    <2>1. y = x
        BY <1>3 DEF queue_head_update
    <2>2. QED
        BY <1>3, <2>1 DEF HeadTrails, HeadKnown
<1>4. CASE ~(x.headStream = NoStream /\ \E s \in Limiting : x.head[s] = NoPts)
    <2>1. \A s \in Limiting : x.head[s] # NoPts
        BY <1>4
    <2>2. CASE x.headStream \in Trailing(x)
        <3>1. y = x
            BY <2>2 DEF queue_head_update
        <3>2. x.headStream # NoStream
            BY <2>2, <1>2 DEF Trailing
        <3>3. QED
            BY <2>1, <2>2, <3>1, <3>2 DEF HeadTrails, HeadKnown
    <2>3. CASE x.headStream \notin Trailing(x)
        <3>1. y = [x EXCEPT !.headStream = m]
            BY <1>4, <2>3 DEF queue_head_update, m
        <3>2. /\ y \in SyncQueueType /\ y.headStream = m /\ y.head = x.head
              /\ y.tb = x.tb
              /\ y.fifo = x.fifo /\ y.finished = x.finished
              /\ y.headFinished = x.headFinished
            BY <3>1, <1>1 DEF SyncQueueType
        <3>3. Trailing(y) = Trailing(x)
            BY <3>2 DEF Trailing
        <3>4. QED
            BY <1>1, <1>2, <2>1, <3>2, <3>3 DEF HeadTrails, HeadKnown
    <2>4. QED
        BY <2>2, <2>3
<1>5. QED
    BY <1>3, <1>4

(* A larger time stamp of a stream that is not finished: the queue stays sound and
   its head does not go back. *)
LEMMA UpdateSound ==
    ASSUME NEW x, NEW e, NEW s \in Stream, NEW ts \in 0 .. Highest,
           Sound(x, e), s \notin x.finished, x.head[s] < ts
    PROVE  LET y == stream_update_ts(x, s, ts)
           IN  /\ Sound(y, e)
               /\ y.fifo = x.fifo /\ y.head = [x.head EXCEPT ![s] = ts] /\ y.tb = x.tb
               /\ x.headStream # NoStream =>
                    /\ y.headStream # NoStream
                    /\ x.head[x.headStream] <= y.head[y.headStream]
<1> DEFINE seen == [x EXCEPT !.head[s] = ts]
           cuts == x.headFinished # NoStream /\ x.head[x.headFinished] <= ts
           cut == IF cuts THEN finish_stream(seen, s) ELSE seen
           moves == s \in Limiting /\ x.headStream \in {NoStream, s}
           y == stream_update_ts(x, s, ts)
<1> USE MaxAssumption
<1>t. /\ x \in SyncQueueType
      /\ Limiting \subseteq Stream /\ NoStream \notin Stream
      /\ x.head \in [Stream -> Stamp] /\ x.finished \subseteq Stream
      /\ x.headStream \in Limiting \union {NoStream}
      /\ x.headFinished \in Limiting \union {NoStream}
      /\ ts \in Nat /\ ts <= Highest
      /\ \A r \in Stream : x.head[r] <= Highest
    BY StreamsAssumption DEF Sound, Typed, SyncQueueType, Stream, NoStream
<1>s. /\ e \subseteq x.finished
      /\ CutIsEnded(x, e) /\ CutIsFirst(x, e) /\ FinishedPast(x) /\ OnlyPastFinished(x, e)
      /\ HeadTrails(x) /\ HeadKnown(x)
    BY DEF Sound
<1>1. /\ seen \in SyncQueueType
      /\ seen.fifo = x.fifo /\ seen.head = [x.head EXCEPT ![s] = ts] /\ seen.tb = x.tb
      /\ seen.finished = x.finished
      /\ seen.headFinished = x.headFinished /\ seen.headStream = x.headStream
    BY <1>t DEF SyncQueueType
<1>2. cut = IF cuts THEN [seen EXCEPT !.finished = x.finished \union {s}] ELSE seen
    BY CutAgain, <1>t
<1> HIDE DEF seen
<1>3. /\ cut \in SyncQueueType
      /\ cut.fifo = x.fifo /\ cut.head = [x.head EXCEPT ![s] = ts] /\ cut.tb = x.tb
      /\ cut.finished = x.finished \union (IF cuts THEN {s} ELSE {})
      /\ cut.headFinished = x.headFinished /\ cut.headStream = x.headStream
    <2>1. x.finished \union {s} \in SUBSET Stream
        BY <1>t
    <2> HIDE DEF cut, cuts
    <2>2. CASE cuts
        BY <1>1, <1>2, <2>1, <2>2 DEF SyncQueueType
    <2>3. CASE ~cuts
        BY <1>1, <1>2, <2>3
    <2>4. QED
        BY <2>2, <2>3
<1>4. y = IF moves THEN queue_head_update(cut) ELSE cut
    BY <1>t DEF stream_update_ts, seen
<1> HIDE DEF cut, y
<1>5. cut.headStream # NoStream => \A r \in Limiting : cut.head[r] # NoPts
    BY <1>s, <1>3, <1>t DEF HeadKnown, NoPts
<1>6. /\ y \in SyncQueueType
      /\ y.fifo = x.fifo /\ y.head = [x.head EXCEPT ![s] = ts] /\ y.tb = x.tb
      /\ y.finished = x.finished \union (IF cuts THEN {s} ELSE {})
      /\ y.headFinished = x.headFinished
    BY <1>3, <1>4, <1>5, HeadUpdate
<1>7. HeadTrails(y) /\ HeadKnown(y)
    <2>1. CASE moves
        BY <2>1, <1>3, <1>4, <1>5, HeadUpdate
    <2>2. CASE ~moves
        <3>1. y.headStream = x.headStream
            BY <2>2, <1>3, <1>4
        <3>2. HeadTrails(y)
            BY <2>2, <3>1, <1>6, <1>s, <1>t DEF HeadTrails, Trailing
        <3>3. HeadKnown(y)
            BY <2>2, <3>1, <1>6, <1>s, <1>t DEF HeadKnown, NoPts
        <3>4. QED
            BY <3>2, <3>3
    <2>3. QED
        BY <2>1, <2>2
<1>8. \A r \in Stream : y.head[r] = IF r = s THEN ts ELSE x.head[r]
    BY <1>6, <1>t
<1>9. Typed(y)
    BY <1>6, <1>8, <1>t DEF Typed
<1>10. CutIsEnded(y, e)
    BY <1>6, <1>8, <1>s, <1>t DEF CutIsEnded, NoPts
<1>11. CutIsFirst(y, e)
    BY <1>6, <1>8, <1>s, <1>t DEF CutIsFirst, CutIsEnded, NoPts
<1>12. FinishedPast(y)
    BY <1>6, <1>8, <1>s, <1>t DEF FinishedPast, CutIsEnded
<1>13. OnlyPastFinished(y, e)
    BY <1>6, <1>8, <1>s, <1>t DEF OnlyPastFinished, CutIsEnded
<1>14. ASSUME x.headStream # NoStream
       PROVE  /\ y.headStream # NoStream
              /\ x.head[x.headStream] <= y.head[y.headStream]
    <2>1. x.headStream \in Trailing(x)
        BY <1>14, <1>s DEF HeadTrails
    <2>2. y.headStream # NoStream
        <3>1. \A r \in Limiting : y.head[r] # NoPts
            BY <1>14, <1>s, <1>8, <1>t DEF HeadKnown, NoPts
        <3>2. Limiting # {}
            BY <2>1 DEF Trailing
        <3>3. QED
            BY <3>1, <3>2, <1>7 DEF HeadKnown
    <2>3. y.headStream \in Limiting
        BY <2>2, <1>7 DEF HeadTrails, Trailing
    <2>4. QED
        BY <2>1, <2>2, <2>3, <1>8, <1>t DEF Trailing
<1>15. QED
    BY <1>6, <1>7, <1>9, <1>10, <1>11, <1>12, <1>13, <1>14, <1>s DEF Sound, y

(* A sound queue stays sound whatever is in the fifos. *)
LEMMA FifoSound ==
    ASSUME NEW x, NEW e, NEW y, Sound(x, e), y \in SyncQueueType,
           y.head = x.head, y.finished = x.finished,
           y.headStream = x.headStream, y.headFinished = x.headFinished
    PROVE  Sound(y, e)
BY DEF Sound, Typed, CutIsEnded, CutIsFirst, FinishedPast, OnlyPastFinished,
       HeadTrails, HeadKnown, Trailing

(* stream_update_ts with any time stamp, the ones not seen for the first time too. *)
LEMMA UpdateAny ==
    ASSUME NEW x, NEW e, NEW s \in Stream, NEW ts \in 0 .. Highest,
           Sound(x, e), s \notin x.finished
    PROVE  LET y == stream_update_ts(x, s, ts)
           IN  /\ Sound(y, e)
               /\ y.fifo = x.fifo /\ y.tb = x.tb
               /\ \A r \in Stream :
                    y.head[r] = IF r = s /\ x.head[s] < ts THEN ts ELSE x.head[r]
               /\ x.headStream # NoStream =>
                    /\ y.headStream # NoStream
                    /\ x.head[x.headStream] <= y.head[y.headStream]
<1>1. /\ x.head \in [Stream -> Stamp] /\ ts \in Nat
      /\ x.headStream # NoStream => x.head[x.headStream] \in Stamp
    BY StreamsAssumption DEF Sound, Typed, SyncQueueType
<1>2. CASE x.head[s] < ts
    <2> DEFINE y == stream_update_ts(x, s, ts)
    <2>1. /\ Sound(y, e) /\ y.fifo = x.fifo /\ y.head = [x.head EXCEPT ![s] = ts]
          /\ y.tb = x.tb
          /\ x.headStream # NoStream =>
                /\ y.headStream # NoStream
                /\ x.head[x.headStream] <= y.head[y.headStream]
        BY <1>2, UpdateSound
    <2> HIDE DEF y
    <2>2. \A r \in Stream : y.head[r] = IF r = s /\ x.head[s] < ts THEN ts ELSE x.head[r]
        BY <1>1, <1>2, <2>1
    <2>3. QED
        BY <2>1, <2>2 DEF y
<1>3. CASE ~(x.head[s] < ts)
    <2>1. stream_update_ts(x, s, ts) = x
        BY <1>1, <1>3 DEF stream_update_ts
    <2>2. QED
        BY <1>1, <1>3, <2>1
<1>4. QED
    BY <1>2, <1>3

-----------------------------------------------------------------------------
LEMMA AppendIs ==
    ASSUME NEW S, NEW l \in Seq(S), NEW v \in S
    PROVE  Append(l, v) \in Seq(S) /\ Append(l, v) # <<>> /\ Longer(Append(l, v), l, v)
BY DEF Longer

LEMMA TailIs ==
    ASSUME NEW S, NEW l \in Seq(S), l # <<>>
    PROVE  Tail(l) \in Seq(S) /\ Head(l) \in S /\ Shorter(Tail(l), l, Head(l))
BY DEF Shorter

(* One packet more at the end of what was sent and of the fifo. *)
LEMMA OneMore ==
    ASSUME NEW l, NEW g, NEW f, NEW l2, NEW f2, NEW v,
           Joins(l, g, f), Longer(l2, l, v), Longer(f2, f, v)
    PROVE  Joins(l2, g, f2)
<1> USE DEF Joins, Longer
<1>1. ASSUME NEW i \in 1 .. Len(f2)
      PROVE  f2[i] = l2[Len(g) + i]
    <2>1. CASE i = Len(f) + 1
        <3>1. Len(g) + i = Len(l) + 1
            BY <2>1
        <3>2. QED
            BY <2>1, <3>1
    <2>2. CASE i # Len(f) + 1
        <3>1. i \in 1 .. Len(f) /\ Len(g) + i \in 1 .. Len(l)
            BY <2>2
        <3>2. QED
            BY <3>1
    <2>3. QED
        BY <2>1, <2>2
<1>2. ASSUME NEW i \in 1 .. Len(g)
      PROVE  g[i] = l2[i]
    <2>1. i \in 1 .. Len(l)
        OBVIOUS
    <2>2. QED
        BY <2>1
<1>3. QED
    BY <1>1, <1>2

(* The first packet of the fifo moves to what was given out. *)
LEMMA OneOver ==
    ASSUME NEW l, NEW g, NEW f, NEW g2, NEW f2, NEW v,
           Joins(l, g, f), Longer(g2, g, v), Shorter(f2, f, v)
    PROVE  Joins(l, g2, f2)
<1> USE DEF Joins, Longer, Shorter
<1>1. ASSUME NEW i \in 1 .. Len(f2)
      PROVE  f2[i] = l[Len(g2) + i]
    <2>1. i + 1 \in 1 .. Len(f) /\ i \in 1 .. Len(f) - 1 /\ Len(g) + (i + 1) = Len(g2) + i
        OBVIOUS
    <2>2. QED
        BY <2>1
<1>2. ASSUME NEW i \in 1 .. Len(g2)
      PROVE  g2[i] = l[i]
    <2>1. CASE i = Len(g) + 1
        <3>1. 1 \in 1 .. Len(f)
            OBVIOUS
        <3>2. f[1] = l[Len(g) + 1]
            BY <3>1
        <3>3. QED
            BY <2>1, <3>2
    <2>2. CASE i # Len(g) + 1
        BY <2>2
    <2>3. QED
        BY <2>1, <2>2
<1>3. QED
    BY <1>1, <1>2

(* What has not been given out is still in the fifo, the first of it in front. *)
LEMMA Behind ==
    ASSUME NEW l, NEW g, NEW f, Joins(l, g, f), NEW i \in 1 .. Len(l), ~(i <= Len(g))
    PROVE  /\ Len(g) + 1 \in 1 .. Len(l) /\ Len(g) + 1 <= i
           /\ 1 \in 1 .. Len(f) /\ f[1] = l[Len(g) + 1]
<1> USE DEF Joins
<1>1. Len(g) + 1 \in 1 .. Len(l) /\ Len(g) + 1 <= i /\ 1 \in 1 .. Len(f)
    OBVIOUS
<1>2. QED
    BY <1>1

LEMMA SentIs ==
    ASSUME TypeOK, NEW s \in Stream
    PROVE  \A i \in 1 .. Len(sent[s]) : sent[s][i] \in 0 .. MaxTs
<1>1. sent[s] \in Seq(0 .. MaxTs)
    BY DEF TypeOK
<1>2. \A S : \A l \in Seq(S) : \A i \in 1 .. Len(l) : l[i] \in S
    OBVIOUS
<1> QED
    BY ONLY <1>1, <1>2

(* A packet in a fifo has been sent, and ends no later than its stream. *)
LEMMA FifoHead ==
    ASSUME IInv, NEW s \in Stream, q.fifo[s] # <<>>
    PROVE  /\ Head(q.fifo[s]) \in 0 .. MaxTs /\ q.head[s] \in Nat
           /\ Head(q.fifo[s]) <= q.head[s]
<1>1. /\ q.fifo[s] \in Seq(Nat) /\ q.head[s] \in Stamp
      /\ Joins(sent[s], given[s], q.fifo[s])
    BY DEF IInv, TypeOK, SyncQueueType, Traced, Stamp
<1>2. 1 \in 1 .. Len(q.fifo[s]) /\ Head(q.fifo[s]) = q.fifo[s][1]
    <2>1. Shorter(Tail(q.fifo[s]), q.fifo[s], Head(q.fifo[s]))
        BY <1>1, TailIs
    <2> QED
        BY <2>1 DEF Shorter
<1>3. Len(given[s]) + 1 \in 1 .. Len(sent[s]) /\ Head(q.fifo[s]) = sent[s][Len(given[s]) + 1]
    <2>1. q.fifo[s][1] = sent[s][Len(given[s]) + 1]
        BY <1>1, <1>2 DEF Joins
    <2>2. Len(given[s]) + 1 \in 1 .. Len(sent[s])
        <3>1. /\ Len(given[s]) \in Nat /\ Len(q.fifo[s]) \in Nat
              /\ Len(sent[s]) = Len(given[s]) + Len(q.fifo[s])
            BY <1>1 DEF Joins
        <3>2. 1 <= Len(q.fifo[s])
            BY ONLY <1>2, <3>1
        <3>3. \A a, b \in Nat : 1 <= b => a + 1 \in 1 .. a + b
            OBVIOUS
        <3> QED
            BY ONLY <3>1, <3>2, <3>3
    <2> QED
        BY <1>2, <2>1, <2>2
<1>4. Head(q.fifo[s]) \in 0 .. MaxTs /\ Head(q.fifo[s]) <= q.head[s]
    <2>1. TypeOK /\ HeadIsTop
        BY DEF IInv
    <2> QED
        BY <1>3, <2>1, SentIs DEF HeadIsTop
<1>5. QED
    BY <1>1, <1>4, MaxAssumption DEF Stamp

-----------------------------------------------------------------------------
LEMMA InvInit == Init => IInv
<1> SUFFICES ASSUME Init PROVE IInv
    OBVIOUS
<1> USE StreamsAssumption, MaxAssumption DEF NoPts, NoStream
<1>e. /\ <<>> \in Seq(Nat) /\ <<>> \in Seq(0 .. MaxTs)
      /\ Len(<<>>) = 0 /\ 1 .. 0 = {}
    OBVIOUS
<1>0. /\ q.fifo = [s \in Stream |-> <<>>] /\ q.head = [s \in Stream |-> NoPts]
      /\ q.finished = {} /\ q.headStream = 0 /\ q.headFinished = 0
      /\ q \in SyncQueueType
      /\ 1 \in Stream
    BY <1>e, TimeBaseAssumption DEF Init, sq_alloc, SyncQueueType, Stream
<1>1. TypeOK
    <2>1. 0 \in 0 .. MaxTs
        OBVIOUS
    <2> QED
        BY <1>0, <1>e, <2>1 DEF Init, TypeOK
<1>2. BeatOK
    BY DEF Init, BeatOK
<1>3. Sound(q, ended)
    BY <1>0, HighestIs DEF Init, Sound, Typed, CutIsEnded, CutIsFirst, FinishedPast,
                OnlyPastFinished, HeadTrails, HeadKnown
<1>4. Traced /\ GivenWithinHead
    BY <1>0, <1>e DEF Init, Traced, Joins, GivenWithinHead
<1>5. HeadIsTop
    BY <1>0, <1>e DEF Init, HeadIsTop
<1>6. EndOfQueue
    BY DEF Init, EndOfQueue
<1>7. QED
    BY <1>1, <1>2, <1>3, <1>4, <1>5, <1>6 DEF IInv

(* A packet is sent: it joins the fifo and is the last and largest of its stream. *)
LEMMA InvSend ==
    ASSUME IInv, NEW s \in Stream, NEW end \in 0 .. MaxTs, SendPacket(s, end)
    PROVE  IInv'
<1> DEFINE f == Append(q.fifo[s], end)
           put == [q EXCEPT !.tb[s] = TimeBase[s], !.fifo[s] = f]
<1> USE MaxAssumption DEF NoPts
<1>0. /\ TypeOK /\ Sound(q, ended) /\ s \notin q.finished
      /\ phase' = "drain" /\ beat' = beat /\ ended' = ended
      /\ given' = given /\ faked' = faked
      /\ sent' = [sent EXCEPT ![s] = Append(@, end)]
      /\ end \in 0 .. MaxTs /\ end \in Nat
    BY DEF IInv, BeatOK, SendPacket
<1>t. /\ q \in SyncQueueType /\ q.fifo \in [Stream -> Seq(Nat)] /\ q.head \in [Stream -> Stamp]
      /\ sent \in [Stream -> Seq(0 .. MaxTs)] /\ given \in [Stream -> Seq(Nat)]
    BY <1>0 DEF TypeOK, SyncQueueType
<1>f. f \in Seq(Nat) /\ Longer(f, q.fifo[s], end)
    <2>1. q.fifo[s] \in Seq(Nat)
        BY <1>t
    <2>2. QED
        BY ONLY <2>1, <1>0, AppendIs
<1>g. /\ Longer(sent'[s], sent[s], end) /\ sent'[s] # <<>>
      /\ \A r \in Stream \ {s} : sent'[r] = sent[r]
      /\ sent' \in [Stream -> Seq(0 .. MaxTs)]
    <2>1. sent[s] \in Seq(0 .. MaxTs) /\ sent'[s] = Append(sent[s], end) /\ end \in 0 .. MaxTs
        BY <1>0, <1>t
    <2>2. /\ Append(sent[s], end) \in Seq(0 .. MaxTs) /\ Append(sent[s], end) # <<>>
          /\ Longer(Append(sent[s], end), sent[s], end)
        BY ONLY <2>1, AppendIs
    <2>3. QED
        BY <1>0, <1>t, <2>1, <2>2
<1>n. Len(sent[s]) \in Nat
    BY <1>t
<1> HIDE DEF f
<1>1. /\ put \in SyncQueueType /\ put.fifo = [q.fifo EXCEPT ![s] = f]
      /\ put.head = q.head /\ put.finished = q.finished
      /\ put.headStream = q.headStream /\ put.headFinished = q.headFinished
    BY <1>t, <1>f, TimeBaseAssumption DEF SyncQueueType
<1>2. Sound(put, ended)
    BY <1>0, <1>1, FifoSound
<1>3. q' = stream_update_ts(put, s, end)
    BY DEF SendPacket, sq_send, f
<1> HIDE DEF put
<1>4. /\ Sound(q', ended)
      /\ q'.fifo = [q.fifo EXCEPT ![s] = f]
      /\ \A r \in Stream : q'.head[r] = IF r = s /\ q.head[s] < end THEN end ELSE q.head[r]
      /\ q.headStream # NoStream =>
            /\ q'.headStream # NoStream
            /\ q.head[q.headStream] <= q'.head[q'.headStream]
    <2> DEFINE y == stream_update_ts(put, s, end)
    <2>1. /\ Sound(y, ended)
          /\ y.fifo = put.fifo
          /\ \A r \in Stream :
               y.head[r] = IF r = s /\ put.head[s] < end THEN end ELSE put.head[r]
          /\ put.headStream # NoStream =>
               /\ y.headStream # NoStream
               /\ put.head[put.headStream] <= y.head[y.headStream]
        <3>1. end \in 0 .. Highest /\ s \notin put.finished
            BY <1>0, <1>1, HighestIs
        <3> QED
            BY <1>2, <3>1, UpdateAny
    <2> HIDE DEF y
    <2>2. q' = y
        BY <1>3 DEF y
    <2>3. QED
        BY <1>1, <2>1, <2>2
<1>5. TypeOK' /\ BeatOK'
    BY <1>0, <1>4, <1>g DEF TypeOK, BeatOK, Sound, Typed
<1>6. Sound(q, ended)'
    BY <1>0, <1>4
<1>7. Traced'
    <2> SUFFICES ASSUME NEW r \in Stream PROVE Joins(sent'[r], given[r], q'.fifo[r])
        BY <1>0 DEF Traced
    <2>1. Joins(sent[r], given[r], q.fifo[r])
        BY DEF IInv, Traced
    <2>2. CASE r # s
        BY <2>1, <2>2, <1>4, <1>g, <1>t
    <2>3. CASE r = s
        <3>1. q'.fifo[s] = f
            BY <1>4, <1>t
        <3>2. QED
            BY <2>1, <2>3, <3>1, <1>f, <1>g, OneMore
    <2>4. QED
        BY <2>2, <2>3
<1>8. HeadIsTop'
    <2> SUFFICES ASSUME NEW r \in Stream
                 PROVE  /\ \A i \in 1 .. Len(sent'[r]) : sent'[r][i] <= q'.head[r]
                        /\ ~faked => \/ sent'[r] = <<>> /\ q'.head[r] = NoPts
                                     \/ \E i \in 1 .. Len(sent'[r]) : sent'[r][i] = q'.head[r]
        BY <1>0 DEF HeadIsTop
    <2>1. /\ \A i \in 1 .. Len(sent[r]) : sent[r][i] <= q.head[r] /\ sent[r][i] \in 0 .. MaxTs
          /\ ~faked => \/ sent[r] = <<>> /\ q.head[r] = NoPts
                       \/ \E i \in 1 .. Len(sent[r]) : sent[r][i] = q.head[r]
          /\ q.head[r] \in Stamp
        BY <1>0, <1>t, SentIs DEF IInv, HeadIsTop
    <2>2. CASE r # s
        BY <2>1, <2>2, <1>4, <1>g
    <2>3. CASE r = s
        <3> DEFINE k == Len(sent[s]) + 1
        <3>1. /\ Len(sent'[s]) = k /\ sent'[s][k] = end /\ k \in 1 .. k
              /\ \A i \in 1 .. k : i = k \/ i \in 1 .. Len(sent[s])
              /\ \A i \in 1 .. Len(sent[s]) : sent'[s][i] = sent[s][i] /\ i \in 1 .. k
            BY <1>g, <1>n DEF Longer
        <3>2. q'.head[s] = IF q.head[s] < end THEN end ELSE q.head[s]
            BY <1>4
        <3>3. q.head[s] <= q'.head[s] /\ end <= q'.head[s] /\ q'.head[s] \in Stamp
            BY <2>1, <2>3, <3>2, <1>0 DEF Stamp
        <3> HIDE DEF k
        <3>4. ASSUME NEW i \in 1 .. k PROVE sent'[s][i] <= q'.head[s]
            <4>1. CASE i = k
                BY <3>1, <3>3, <4>1
            <4>2. CASE i # k
                <5>1. sent'[s][i] \in 0 .. MaxTs /\ sent'[s][i] <= q.head[s]
                    BY <2>1, <2>3, <3>1, <4>2
                <5> QED
                    BY <2>1, <2>3, <3>3, <5>1 DEF Stamp
            <4> QED
                BY <4>1, <4>2
        <3>5. ASSUME ~faked PROVE \E i \in 1 .. k : sent'[s][i] = q'.head[s]
            <4>1. CASE q'.head[s] = end
                BY <3>1, <4>1
            <4>2. CASE q'.head[s] # end
                <5>1. q'.head[s] = q.head[s] /\ ~(q.head[s] < end)
                    BY <3>2, <4>2
                <5>2. q.head[s] # NoPts
                    BY <5>1, <1>0
                <5>3. PICK i \in 1 .. Len(sent[s]) : sent[s][i] = q.head[s]
                    BY <2>1, <2>3, <3>5, <5>2
                <5> QED
                    BY <3>1, <5>1, <5>3
            <4> QED
                BY <4>1, <4>2
        <3> QED
            BY <2>3, <3>1, <3>4, <3>5
    <2>4. QED
        BY <2>2, <2>3
<1>11. GivenWithinHead'
    <2>1. GivenWithinHead /\ Sound(q, ended) /\ Sound(q', ended)
        BY <1>0, <1>4 DEF IInv
    <2>2. q.headStream # NoStream =>
            q.head[q.headStream] \in Stamp /\ q'.head[q'.headStream] \in Stamp
        BY <2>1, <1>4, StreamsAssumption DEF Sound, Typed, SyncQueueType
    <2>3. \A r \in Stream : \A i \in 1 .. Len(given[r]) : given[r][i] \in Nat
        BY <1>t
    <2>4. QED
        BY <2>1, <2>2, <2>3, <1>0, <1>4 DEF GivenWithinHead
<1>12. EndOfQueue'
    BY <1>0 DEF EndOfQueue
<1>13. QED
    BY <1>5, <1>6, <1>7, <1>8, <1>11, <1>12 DEF IInv

(* The end of a stream is signalled: only the cut and the flags may change. *)
LEMMA InvEof ==
    ASSUME IInv, NEW s \in Stream, SendEof(s)
    PROVE  IInv'
<1>0. /\ TypeOK /\ Sound(q, ended) /\ s \notin ended
      /\ phase' = "drain" /\ beat' = beat /\ ended' = ended \union {s}
      /\ sent' = sent /\ given' = given /\ faked' = faked
      /\ q' = finish_stream(q, s)
    BY DEF IInv, BeatOK, SendEof
<1>1. /\ Sound(q', ended \union {s})
      /\ q'.fifo = q.fifo /\ q'.head = q.head /\ q'.headStream = q.headStream
    BY <1>0, EndSound
<1>2. TypeOK' /\ BeatOK' /\ Sound(q, ended)'
    BY <1>0, <1>1 DEF TypeOK, BeatOK, Sound, Typed
<1>3. Traced' /\ GivenWithinHead'
    BY <1>0, <1>1 DEF IInv, Traced, GivenWithinHead
<1>4. HeadIsTop' /\ EndOfQueue'
    BY <1>0, <1>1 DEF IInv, HeadIsTop, EndOfQueue
<1>5. QED
    BY <1>2, <1>3, <1>4 DEF IInv

(* A packet is given out: it is within the queue head. *)
LEMMA InvGive ==
    ASSUME IInv, NEW s \in Stream, Give(s)
    PROVE  IInv'
<1> DEFINE f == Tail(q.fifo[s])
           v == Head(q.fifo[s])
<1>0. /\ TypeOK /\ Sound(q, ended)
      /\ s \in Released(q)
      /\ phase' = "drain" /\ beat' = beat /\ ended' = ended
      /\ sent' = sent /\ faked' = faked
      /\ given' = [given EXCEPT ![s] = Append(@, v)]
      /\ q' = [q EXCEPT !.fifo[s] = f]
    BY DEF IInv, BeatOK, Give, sq_receive
<1>t. /\ q \in SyncQueueType /\ q.fifo \in [Stream -> Seq(Nat)]
      /\ given \in [Stream -> Seq(Nat)]
    BY <1>0 DEF TypeOK, SyncQueueType
<1>r. /\ q.fifo[s] # <<>>
      /\ Limiting = {} \/ (q.headStream # NoStream /\ v <= q.head[q.headStream])
    BY <1>0 DEF Released, Releasable
<1>f. f \in Seq(Nat) /\ v \in Nat /\ Shorter(f, q.fifo[s], v)
    <2>1. q.fifo[s] \in Seq(Nat)
        BY <1>t
    <2>2. QED
        BY ONLY <2>1, <1>r, TailIs
<1> HIDE DEF f, v
<1>g. /\ Longer(given'[s], given[s], v)
      /\ \A r \in Stream \ {s} : given'[r] = given[r]
      /\ given' \in [Stream -> Seq(Nat)]
    <2>1. given[s] \in Seq(Nat) /\ given'[s] = Append(given[s], v)
        BY <1>0, <1>t
    <2>2. Append(given[s], v) \in Seq(Nat) /\ Longer(Append(given[s], v), given[s], v)
        BY ONLY <2>1, <1>f, AppendIs
    <2>3. QED
        BY <1>0, <1>t, <2>1, <2>2
<1>1. /\ q' \in SyncQueueType /\ q'.fifo = [q.fifo EXCEPT ![s] = f]
      /\ q'.head = q.head /\ q'.finished = q.finished
      /\ q'.headStream = q.headStream /\ q'.headFinished = q.headFinished
    BY <1>0, <1>t, <1>f DEF SyncQueueType
<1>2. Sound(q', ended)
    BY <1>0, <1>1, FifoSound
<1>3. TypeOK' /\ BeatOK' /\ Sound(q, ended)'
    BY <1>0, <1>1, <1>2, <1>g DEF TypeOK, BeatOK
<1>4. Traced'
    <2> SUFFICES ASSUME NEW r \in Stream PROVE Joins(sent[r], given'[r], q'.fifo[r])
        BY <1>0 DEF Traced
    <2>1. Joins(sent[r], given[r], q.fifo[r])
        BY DEF IInv, Traced
    <2>2. CASE r # s
        BY <2>1, <2>2, <1>1, <1>g, <1>t
    <2>3. CASE r = s
        <3>1. q'.fifo[s] = f
            BY <1>1, <1>t
        <3>2. QED
            BY <2>1, <2>3, <3>1, <1>f, <1>g, OneOver
    <2>4. QED
        BY <2>2, <2>3
<1>5. GivenWithinHead'
    <2> SUFFICES ASSUME NEW r \in Stream, NEW i \in 1 .. Len(given'[r])
                 PROVE  \/ Limiting = {}
                        \/ q.headStream # NoStream /\ given'[r][i] <= q.head[q.headStream]
        BY <1>1 DEF GivenWithinHead
    <2>1. GivenWithinHead /\ Len(given[s]) \in Nat
        BY <1>t DEF IInv
    <2>2. CASE r = s /\ i = Len(given[s]) + 1
        BY <2>2, <1>g, <1>r DEF Longer
    <2>3. CASE r = s /\ i # Len(given[s]) + 1
        <3>1. i \in 1 .. Len(given[s]) /\ given'[s][i] = given[s][i]
            BY <2>1, <2>3, <1>g DEF Longer
        <3>2. QED
            BY <2>1, <2>3, <3>1 DEF GivenWithinHead
    <2>4. CASE r # s
        BY <2>1, <2>4, <1>g DEF GivenWithinHead
    <2>5. QED
        BY <2>2, <2>3, <2>4
<1>7. HeadIsTop' /\ EndOfQueue'
    BY <1>0, <1>1 DEF IInv, HeadIsTop, EndOfQueue
<1>8. QED
    BY <1>3, <1>4, <1>5, <1>7 DEF IInv

(* A heartbeat begins: its time stamp is not beyond what has been seen. *)
LEMMA InvBeatStart ==
    ASSUME IInv, BeatStart
    PROVE  IInv'
<1> DEFINE a == Ahead(q)
<1> USE MaxAssumption
<1>0. /\ TypeOK /\ Sound(q, ended) /\ Overflows(q)
      /\ beat' = [st |-> a, tail |-> Head(q.fifo[a]), next |-> 1]
      /\ phase' = "beat" /\ faked' = TRUE
      /\ UNCHANGED <<q, ended, sent, given>>
    BY DEF IInv, BeatStart
<1>1. a \in Stream
    BY <1>0, AheadIn DEF Sound
<1>2. q.fifo[a] # <<>>
    BY <1>0 DEF Overflows
<1> HIDE DEF a
<1>3. Head(q.fifo[a]) \in 0 .. MaxTs
    BY <1>1, <1>2, FifoHead
<1>4. 1 \in Stream
    BY StreamsAssumption DEF Stream
<1>5. TypeOK' /\ BeatOK'
    <2>3. beat' \in [st : Stream, tail : 0 .. MaxTs, next : Stream]
        BY <1>0, <1>1, <1>3, <1>4
    <2>4. QED
        BY <1>0, <2>3 DEF TypeOK, BeatOK
<1>6. Sound(q, ended)' /\ Traced' /\ GivenWithinHead'
    BY <1>0 DEF IInv, Traced, GivenWithinHead
<1>7. HeadIsTop' /\ EndOfQueue'
    BY <1>0 DEF IInv, HeadIsTop, EndOfQueue
<1>8. QED
    BY <1>5, <1>6, <1>7 DEF IInv

(* A faked time stamp: as a packet that is not there. *)
LEMMA InvBeat ==
    ASSUME IInv, Beat
    PROVE  IInv'
<1> DEFINE r == beat.next
           st == beat.st
           ts == FakeTs(q, st, beat.tail, r)
<1> USE MaxAssumption
<1>0. /\ TypeOK /\ Sound(q, ended)
      /\ q' = overflow_heartbeat(q, st, beat.tail, r)
      /\ phase' \in {"again", "beat"}
      /\ r # NbStreams => beat' = [beat EXCEPT !.next = @ + 1]
      /\ r = NbStreams => beat' = beat
      /\ UNCHANGED <<ended, sent, given, faked>>
      /\ faked
    BY DEF IInv, BeatOK, Beat
<1>t. /\ beat \in [st : Stream, tail : 0 .. MaxTs, next : Stream]
      /\ r \in Stream /\ st \in Stream /\ beat.tail \in 0 .. MaxTs
      /\ q.head \in [Stream -> Stamp]
    BY <1>0 DEF TypeOK, SyncQueueType, Stamp
<1>u. \/ q' = q
      \/ /\ r \notin q.finished /\ q' = stream_update_ts(q, r, ts)
         /\ ts \in 0 .. Highest
    <2>1. Typed(q)
        BY <1>0 DEF Sound
    <2>2. q.head[r] < beat.tail + q.tb[st] => ts \in 0 .. Highest
        BY <1>t, <2>1, FakeIs
    <2> QED
        BY <1>0, <2>2 DEF overflow_heartbeat
<1> HIDE DEF ts, r, st
<1>1. /\ Sound(q', ended) /\ q'.fifo = q.fifo
      /\ \A i \in Stream : q.head[i] <= q'.head[i] /\ q'.head[i] \in Stamp
      /\ q.headStream # NoStream =>
            /\ q'.headStream # NoStream
            /\ q.head[q.headStream] <= q'.head[q'.headStream]
    <2>1. CASE q' = q
        <3>1. q.headStream # NoStream => q.head[q.headStream] \in Stamp
            BY <1>0, StreamsAssumption DEF TypeOK, SyncQueueType
        <3>2. QED
            BY <1>0, <1>t, <2>1, <3>1
    <2>2. CASE r \notin q.finished /\ q' = stream_update_ts(q, r, ts) /\ ts \in 0 .. Highest
        <3> DEFINE y == stream_update_ts(q, r, ts)
        <3>1. /\ Sound(y, ended)
              /\ y.fifo = q.fifo
              /\ \A i \in Stream :
                   y.head[i] = IF i = r /\ q.head[r] < ts THEN ts ELSE q.head[i]
              /\ q.headStream # NoStream =>
                   /\ y.headStream # NoStream
                   /\ q.head[q.headStream] <= y.head[y.headStream]
            BY <1>0, <1>t, <2>2, UpdateAny
        <3> HIDE DEF y
        <3>2. q' = y
            BY <2>2 DEF y
        <3>3. \A i \in Stream : q.head[i] <= y.head[i] /\ y.head[i] \in Stamp
            <4> SUFFICES ASSUME NEW i \in Stream
                         PROVE  q.head[i] <= y.head[i] /\ y.head[i] \in Stamp
                OBVIOUS
            <4>1. q.head[i] \in Stamp /\ ts \in Nat
                BY <1>t, <2>2, HighestIs
            <4>2. y.head[i] = q.head[i] \/ (y.head[i] = ts /\ q.head[i] < ts)
                BY <3>1
            <4> QED
                BY <4>1, <4>2
        <3>4. QED
            BY <3>1, <3>2, <3>3
    <2>3. QED
        BY <1>u, <2>1, <2>2
<1>2. beat' \in [st : Stream, tail : 0 .. MaxTs, next : Stream]
    <2>1. CASE r = NbStreams
        BY <1>0, <1>t, <2>1
    <2>2. CASE r # NbStreams
        <3>1. r + 1 \in Stream
            BY <1>t, <2>2, StreamsAssumption DEF Stream, r
        <3>2. QED
            BY <1>0, <1>t, <2>2, <3>1 DEF r
    <2>3. QED
        BY <2>1, <2>2
<1>3. TypeOK' /\ BeatOK' /\ Sound(q, ended)'
    BY <1>0, <1>1, <1>2 DEF TypeOK, BeatOK, Sound, Typed
<1>4. Traced'
    BY <1>0, <1>1 DEF IInv, Traced
<1>5. GivenWithinHead'
    <2>1. q.headStream # NoStream =>
            q.head[q.headStream] \in Stamp /\ q'.head[q'.headStream] \in Stamp
        BY <1>0, <1>1, <1>3, StreamsAssumption DEF TypeOK, SyncQueueType
    <2>2. \A i \in Stream : \A j \in 1 .. Len(given[i]) : given[i][j] \in Nat
        BY <1>0 DEF TypeOK
    <2>3. QED
        BY <1>0, <1>1, <2>1, <2>2 DEF IInv, GivenWithinHead
<1>6. HeadIsTop'
    <2> SUFFICES ASSUME NEW s \in Stream, NEW i \in 1 .. Len(sent[s])
                 PROVE  sent[s][i] <= q'.head[s]
        BY <1>0 DEF HeadIsTop
    <2>1. sent[s][i] <= q.head[s]
        BY DEF IInv, HeadIsTop
    <2>2. sent[s][i] \in 0 .. MaxTs
        BY <1>0, SentIs
    <2>3. QED
        BY <1>1, <1>t, <2>1, <2>2 DEF Stamp
<1>7. EndOfQueue'
    BY <1>0 DEF EndOfQueue
<1>8. QED
    BY <1>3, <1>4, <1>5, <1>6, <1>7 DEF IInv

LEMMA InvNext == IInv /\ [Next]_vars => IInv'
<1> SUFFICES ASSUME IInv, [Next]_vars PROVE IInv'
    OBVIOUS
<1>1. ASSUME NEW s \in Stream, NEW end \in 0 .. MaxTs, SendPacket(s, end) PROVE IInv'
    BY <1>1, InvSend
<1>2. ASSUME NEW s \in Stream, SendEof(s) PROVE IInv'
    BY <1>2, InvEof
<1>3. ASSUME NEW s \in Stream, Give(s) PROVE IInv'
    BY <1>3, InvGive
<1>4. ASSUME QueueEof PROVE IInv'
    <2>1. TypeOK' /\ BeatOK' /\ Sound(q, ended)'
        BY <1>4 DEF QueueEof, IInv, TypeOK, BeatOK
    <2>2. Traced' /\ GivenWithinHead' /\ HeadIsTop'
        BY <1>4 DEF QueueEof, IInv, Traced, GivenWithinHead, HeadIsTop
    <2>3. EndOfQueue'
        BY <1>4 DEF QueueEof, Nothing, EndOfQueue
    <2>4. QED
        BY <2>1, <2>2, <2>3 DEF IInv
<1>5. CASE BeatStart
    BY <1>5, InvBeatStart
<1>6. CASE Beat
    BY <1>6, InvBeat
<1>7. ASSUME Again PROVE IInv'
    <2>1. TypeOK' /\ BeatOK' /\ Sound(q, ended)'
        BY <1>7 DEF Again, IInv, TypeOK, BeatOK
    <2>2. Traced' /\ GivenWithinHead' /\ HeadIsTop' /\ EndOfQueue'
        BY <1>7 DEF Again, IInv, Traced, GivenWithinHead, HeadIsTop, EndOfQueue
    <2>3. QED
        BY <2>1, <2>2 DEF IInv
<1>8. ASSUME UNCHANGED vars PROVE IInv'
    <2>1. TypeOK' /\ BeatOK' /\ Sound(q, ended)'
        BY <1>8 DEF vars, IInv, TypeOK, BeatOK
    <2>2. Traced' /\ GivenWithinHead' /\ HeadIsTop' /\ EndOfQueue'
        BY <1>8 DEF vars, IInv, Traced, GivenWithinHead, HeadIsTop, EndOfQueue
    <2>3. QED
        BY <2>1, <2>2 DEF IInv
<1>9. QED
    BY <1>1, <1>2, <1>3, <1>4, <1>5, <1>6, <1>7, <1>8 DEF Next

-----------------------------------------------------------------------------
(* The inductive invariant holds in every reachable state. *)
THEOREM Invariant == Spec => []IInv
<1>1. Init => IInv
    BY InvInit
<1>2. IInv /\ [Next]_vars => IInv'
    BY InvNext
<1>3. QED
    BY <1>1, <1>2, PTL DEF Spec

(* The types: a queue only remembers limiting streams, and a heartbeat names a
   stream and a time that has been seen. *)
THEOREM TypeCorrect == Spec => []TypeOK
<1>1. IInv => TypeOK
    BY DEF IInv
<1>2. QED
    BY <1>1, Invariant, PTL

(* The remembered head of the queue is the limiting stream furthest behind,
   although it is looked for only when that stream moves. *)
THEOREM HeadIsTrailingAlways == Spec => []HeadIsTrailing
<1>1. IInv => HeadIsTrailing
    BY DEF IInv, Sound, HeadTrails, HeadIsTrailing
<1>2. QED
    BY <1>1, Invariant, PTL

(* As long as no heartbeat was faked a stream has come as far as its time stamp. *)
LEMMA ReachesHead ==
    ASSUME IInv, ~faked, NEW r \in Stream
    PROVE  /\ \A e \in Nat : Reaches(r, e) <=> e <= q.head[r]
           /\ sent[r] # <<>> <=> q.head[r] # NoPts
           /\ sent[r] # <<>> => \E i \in 1 .. Len(sent[r]) : sent[r][i] = q.head[r]
           /\ q.head[r] \in Stamp
<1>1. /\ q.head[r] \in Stamp /\ sent[r] \in Seq(0 .. MaxTs)
      /\ \A i \in 1 .. Len(sent[r]) : sent[r][i] <= q.head[r] /\ sent[r][i] \in 0 .. MaxTs
      /\ \/ sent[r] = <<>> /\ q.head[r] = NoPts
         \/ \E i \in 1 .. Len(sent[r]) : sent[r][i] = q.head[r]
    BY SentIs DEF IInv, TypeOK, SyncQueueType, HeadIsTop, Stamp
<1>2. CASE sent[r] = <<>>
    <2>1. 1 .. Len(sent[r]) = {}
        BY <1>2
    <2> QED
        BY <1>1, <1>2, <2>1 DEF Reaches, Stamp
<1>3. CASE sent[r] # <<>>
    <2>1. PICK i \in 1 .. Len(sent[r]) : sent[r][i] = q.head[r]
        BY <1>1, <1>3
    <2>2. q.head[r] \in 0 .. MaxTs
        BY <1>1, <2>1
    <2> QED
        <3>1. q.head[r] \in Nat /\ q.head[r] # NoPts
            BY <2>2, HighestIs
        <3>2. \A e \in Nat : e <= q.head[r] => Reaches(r, e)
            BY <2>1 DEF Reaches
        <3>3. ASSUME NEW e \in Nat, Reaches(r, e) PROVE e <= q.head[r]
            <4>1. PICK j \in 1 .. Len(sent[r]) : e <= sent[r][j]
                BY <3>3 DEF Reaches
            <4>2. sent[r][j] <= q.head[r] /\ sent[r][j] \in 0 .. MaxTs
                BY <1>1
            <4> QED
                BY <3>1, <4>1, <4>2, HighestIs
        <3> QED
            BY <1>1, <1>3, <2>1, <3>1, <3>2, <3>3
<1> QED
    BY <1>2, <1>3

(* A stream that has come as far as one that has ended is told to stop. *)
THEOREM ToldToStopAlways == Spec => []ToldToStop
<1>1. IInv => ToldToStop
    <2> SUFFICES ASSUME IInv, ~faked,
                        NEW s \in Stream \ q.finished, NEW r \in ended \cap Limiting,
                        sent[r] # <<>>
                 PROVE  \E i \in 1 .. Len(sent[r]) : ~Reaches(s, sent[r][i])
        BY DEF ToldToStop
    <2>0. /\ TypeOK /\ HeadIsTop /\ r \in Stream
          /\ CutIsEnded(q, ended) /\ CutIsFirst(q, ended) /\ FinishedPast(q)
          /\ q.head \in [Stream -> Stamp]
          /\ Limiting \subseteq Stream
        BY StreamsAssumption DEF IInv, Sound, TypeOK, SyncQueueType
    <2>1. PICK i \in 1 .. Len(sent[r]) : sent[r][i] = q.head[r]
        BY <2>0, ReachesHead
    <2>2. q.head[r] # NoPts /\ q.head[r] \in Nat
        BY <2>0, ReachesHead DEF Stamp
    <2>3. q.headFinished # NoStream /\ q.head[q.headFinished] <= q.head[r]
        BY <2>0, <2>2 DEF CutIsFirst
    <2>4. q.headFinished \in Stream
        BY <2>0, <2>3 DEF CutIsEnded
    <2>5. ~(q.head[q.headFinished] <= q.head[s])
        BY <2>3 DEF FinishedPast, IInv, Sound
    <2>6. ~Reaches(s, q.head[r])
        <3>1. /\ q.head[q.headFinished] \in Stamp /\ q.head[s] \in Stamp
              /\ Reaches(s, q.head[r]) <=> q.head[r] <= q.head[s]
            BY <2>0, <2>2, <2>4, ReachesHead
        <3> QED
            BY <2>2, <2>3, <2>5, <3>1 DEF Stamp
    <2>7. QED
        BY <2>1, <2>6
<1>2. QED
    BY <1>1, Invariant, PTL

(* -shortest: when the queue ends, every stream was given out exactly up to the
   end of the shortest one. *)
THEOREM ShortestCutsAlways == Spec => []ShortestCuts
<1>1. IInv => ShortestCuts
    <2> SUFFICES ASSUME IInv, phase = "eof", ~faked, NEW s \in Stream
                 PROVE  /\ \A i \in 1 .. Len(given[s]) : given[s][i] = sent[s][i]
                        /\ \A i \in 1 .. Len(sent[s]) :
                             i <= Len(given[s]) <=> \A k \in 1 .. i : Within(sent[s][k])
                        /\ \/ s \in ended
                           \/ \E r \in ended \cap Limiting :
                                 /\ sent[r] # <<>>
                                 /\ \A i \in 1 .. Len(sent[r]) : Reaches(s, sent[r][i])
        BY DEF ShortestCuts
    <2> USE DEF NoPts
    <2>0. /\ TypeOK /\ q.finished = Stream /\ Limiting \subseteq Stream
          /\ CutIsEnded(q, ended) /\ OnlyPastFinished(q, ended)
          /\ HeadTrails(q) /\ HeadKnown(q)
          /\ q.head \in [Stream -> Stamp] /\ q.fifo \in [Stream -> Seq(Nat)]
          /\ given \in [Stream -> Seq(Nat)] /\ sent \in [Stream -> Seq(0 .. MaxTs)]
          /\ HeadIsTop
        BY StreamsAssumption DEF IInv, Sound, TypeOK, SyncQueueType, EndOfQueue, Eof, Stamp
    <2>1. ~Releasable(q, s)
        BY NothingReleasable DEF IInv, EndOfQueue
    <2>2. /\ Joins(sent[s], given[s], q.fifo[s])
          /\ \A i \in 1 .. Len(given[s]) : given[s][i] = sent[s][i]
        BY DEF IInv, Traced, Joins
    (* Every stream has come as far as a limiting one that has ended. *)
    <2>3. \A r \in Stream :
            r \in ended \/ \E h \in ended \cap Limiting :
                              q.head[h] # NoPts /\ q.head[h] <= q.head[r]
        BY <2>0 DEF OnlyPastFinished, CutIsEnded
    <2>4. ASSUME s \notin ended
          PROVE  \E r \in ended \cap Limiting :
                    sent[r] # <<>> /\ \A i \in 1 .. Len(sent[r]) : Reaches(s, sent[r][i])
        <3>1. PICK r \in ended \cap Limiting : q.head[r] # NoPts /\ q.head[r] <= q.head[s]
            BY <2>3, <2>4
        <3>2. sent[r] # <<>> /\ r \in Stream /\ q.head[r] \in Stamp /\ q.head[s] \in Stamp
            BY <2>0, <3>1, ReachesHead
        <3>3. ASSUME NEW i \in 1 .. Len(sent[r]) PROVE Reaches(s, sent[r][i])
            <4>1. sent[r][i] \in 0 .. MaxTs /\ sent[r][i] <= q.head[r]
                BY <2>0, <3>2, SentIs DEF HeadIsTop
            <4>2. sent[r][i] \in Nat /\ sent[r][i] <= q.head[s]
                BY <3>1, <3>2, <4>1, MaxAssumption DEF Stamp
            <4> QED
                BY <4>2, ReachesHead
        <3> QED
            BY <3>1, <3>2, <3>3
    <2>5. ASSUME NEW i \in 1 .. Len(sent[s]), i <= Len(given[s])
          PROVE  Within(sent[s][i])
        <3> SUFFICES ASSUME NEW r \in ended \cap Limiting PROVE Reaches(r, sent[s][i])
            BY DEF Within
        <3>1. i \in 1 .. Len(given[s]) /\ given[s][i] = sent[s][i] /\ given[s][i] \in Nat
            BY <2>0, <2>2, <2>5
        <3>2. q.headStream # NoStream /\ given[s][i] <= q.head[q.headStream]
            BY <3>1 DEF IInv, GivenWithinHead
        <3>3. q.headStream \in Stream /\ q.head[q.headStream] <= q.head[r]
            BY <2>0, <3>2 DEF HeadTrails, Trailing
        <3>4. sent[s][i] <= q.head[r] /\ r \in Stream
            <4>1. r \in Stream /\ q.head[r] \in Stamp /\ q.head[q.headStream] \in Stamp
                BY <2>0, <3>3
            <4> QED
                BY <3>1, <3>2, <3>3, <4>1
        <3>5. QED
            BY <3>1, <3>4, ReachesHead
    <2>6. ASSUME NEW i \in 1 .. Len(sent[s]), ~(i <= Len(given[s])),
                 \A k \in 1 .. i : Within(sent[s][k])
          PROVE  FALSE
        <3> DEFINE k == Len(given[s]) + 1
        <3>1. /\ k \in 1 .. Len(sent[s]) /\ k <= i
              /\ 1 \in 1 .. Len(q.fifo[s]) /\ q.fifo[s][1] = sent[s][k]
            BY <2>2, <2>6, Behind
        <3>2. q.fifo[s] # <<>> /\ Head(q.fifo[s]) = sent[s][k]
            <4>1. q.fifo[s] \in Seq(Nat)
                BY <2>0
            <4>2. q.fifo[s] # <<>>
                BY <3>1, <4>1
            <4>3. QED
                BY <3>1, <4>1, <4>2
        <3>3. sent[s][k] \in 0 .. MaxTs /\ sent[s][k] \in Nat /\ Within(sent[s][k])
            <4>1. k \in 1 .. i
                BY <3>1
            <4> QED
                BY <2>0, <2>6, <3>1, <4>1, SentIs, MaxAssumption
        <3> HIDE DEF k
        <3>4. \A r \in ended \cap Limiting : sent[s][k] <= q.head[r]
            BY <2>0, <3>3, ReachesHead DEF Within
        (* A limiting stream before the packet contradicts the end of every one. *)
        <3>5. ASSUME NEW l \in Limiting, q.head[l] < sent[s][k] PROVE FALSE
            <4>1. l \in Stream /\ q.head[l] \in Stamp
                BY <2>0
            <4>2. CASE l \in ended
                BY <3>3, <3>4, <3>5, <4>1, <4>2 DEF Stamp
            <4>3. CASE l \notin ended
                <5>1. PICK h \in ended \cap Limiting : q.head[h] <= q.head[l]
                    BY <2>3, <4>1, <4>3
                <5>2. sent[s][k] <= q.head[h] /\ q.head[h] \in Stamp
                    BY <2>0, <3>4
                <5>3. QED
                    BY <3>3, <3>5, <4>1, <5>1, <5>2 DEF Stamp
            <4>4. QED
                BY <4>2, <4>3
        <3>6. /\ Limiting # {}
              /\ q.headStream # NoStream => ~(sent[s][k] <= q.head[q.headStream])
            BY <2>1, <3>2 DEF Releasable
        <3>7. CASE q.headStream = NoStream
            <4>1. PICK l \in Limiting : q.head[l] = NoPts
                BY <2>0, <3>6, <3>7 DEF HeadKnown
            <4>2. QED
                BY <3>3, <3>5, <4>1
        <3>8. CASE q.headStream # NoStream
            <4>1. q.headStream \in Limiting /\ q.head[q.headStream] \in Stamp
                BY <2>0, <3>8 DEF HeadTrails, Trailing
            <4>2. q.head[q.headStream] < sent[s][k]
                BY <3>3, <3>6, <3>8, <4>1 DEF Stamp
            <4>3. QED
                BY <3>5, <4>1, <4>2
        <3>9. QED
            BY <3>7, <3>8
    <2>7. ASSUME NEW i \in 1 .. Len(sent[s])
          PROVE  i <= Len(given[s]) <=> \A k \in 1 .. i : Within(sent[s][k])
        <3>1. i \in Nat /\ Len(given[s]) \in Nat /\ Len(sent[s]) \in Nat
            BY <2>0
        <3>2. \A k \in 1 .. i : k \in 1 .. Len(sent[s]) /\ (i <= Len(given[s]) => k <= Len(given[s]))
            BY <3>1
        <3> QED
            BY <2>5, <2>6, <3>2
    <2>8. QED
        BY <2>2, <2>4, <2>7
<1>2. QED
    BY <1>1, Invariant, PTL

-----------------------------------------------------------------------------
(* Stream i has come to less than half a unit before the packet that waits, or further,
   or will not come any more. *)
Told(i) ==
    \/ i \in q.finished
    \/ q.head[i] # NoPts /\ 2 * beat.tail < 2 * q.head[i] + q.tb[i]

(* What waits, of two streams.  A heartbeat that is under way, its loop variable at
   n, or over (3): the other stream has come as far or will not come any more. *)
BeatTold(n) ==
    /\ q.fifo[beat.st] # <<>> /\ beat.tail = Head(q.fifo[beat.st])
    /\ \A i \in Stream : i < n /\ i # beat.st => Told(i)

Waits ==
    /\ phase = "beat" => BeatTold(beat.next)
    /\ phase = "again" => BeatTold(3)
    /\ Bounded

(* A stream that is finished without having come so far as a stream that is not:
   neither a cut nor an end with a packet did that. *)
LEMMA NotFinishedBehind ==
    ASSUME IInv, \A e \in ended : sent[e] # <<>>,
           NEW s \in Stream \ q.finished, NEW r \in Stream, q.head[r] < q.head[s],
           r \in Limiting
    PROVE  r \notin q.finished
<1> SUFFICES ASSUME r \in q.finished PROVE FALSE
    OBVIOUS
<1> USE DEF NoPts, NoStream
<1>1. /\ CutIsEnded(q, ended) /\ CutIsFirst(q, ended) /\ FinishedPast(q)
      /\ OnlyPastFinished(q, ended)
      /\ q.head \in [Stream -> Stamp] /\ Limiting \subseteq Stream
    BY StreamsAssumption DEF IInv, Sound, TypeOK, SyncQueueType
<1>2. ASSUME q.headFinished # NoStream, q.head[q.headFinished] <= q.head[r]
      PROVE  FALSE
    <2>1. q.head[q.headFinished] \in Stamp
        BY <1>1, <1>2 DEF CutIsEnded
    <2>2. q.head[q.headFinished] <= q.head[s]
        BY <1>1, <1>2, <2>1 DEF Stamp
    <2> QED
        BY <1>1, <1>2, <2>2 DEF FinishedPast
<1>3. r \in ended
    BY <1>1, <1>2 DEF OnlyPastFinished
<1>4. sent[r] # <<>> /\ sent[r] \in Seq(0 .. MaxTs)
    BY <1>3 DEF IInv, TypeOK
<1>5. Len(sent[r]) \in 1 .. Len(sent[r])
    BY <1>4
<1>6. sent[r][Len(sent[r])] \in 0 .. MaxTs /\ sent[r][Len(sent[r])] <= q.head[r]
    BY <1>5, SentIs DEF IInv, HeadIsTop
<1>7. q.head[r] # NoPts
    BY <1>1, <1>6, MaxAssumption
<1> QED
    BY <1>1, <1>2, <1>3, <1>7 DEF CutIsFirst

(* When the queue asks for more it has nothing to release, and has nothing to fake or
   has faked it in vain. *)
LEMMA IdleBounded ==
    ASSUME NbStreams = 2, BufSize > 0, IInv, \A e \in ended : sent[e] # <<>>,
           Released(q) = {}, BeatTold(3) \/ ~Overflows(q), beat.st \in Stream,
           NEW s \in Stream \ q.finished, q.fifo[s] # <<>>
    PROVE  \/ WaitsFor(q, s) < BufSize * Micro
           \/ \E r \in Limiting \ (q.finished \union {s}) :
                 /\ q.head[r] # NoPts
                 /\ 2 * (Head(q.fifo[s]) - q.head[r]) < q.tb[r]
<1> USE DEF NoPts, NoStream
<1> DEFINE r == 3 - s
<1>1. /\ s \in Stream /\ r \in Stream /\ \A i \in Stream : i = s \/ i = r
      /\ r # s /\ BufSize \in Nat
    BY StreamsAssumption DEF Stream
<1>2. /\ q.head \in [Stream -> Stamp] /\ Limiting \subseteq Stream /\ 0 \notin Stream
      /\ HeadTrails(q) /\ HeadKnown(q) /\ Typed(q)
    BY StreamsAssumption DEF IInv, Sound, TypeOK, SyncQueueType, Stream
<1>3. /\ Head(q.fifo[s]) \in Nat /\ q.head[s] \in Nat /\ Head(q.fifo[s]) <= q.head[s]
    BY FifoHead, MaxAssumption
<1> HIDE DEF r
<1>4. ~Releasable(q, s) /\ ~Releasable(q, r)
    BY <1>1, NothingReleasable
<1>5. r \in Limiting /\ q.head[r] < Head(q.fifo[s]) /\ (q.fifo[r] # <<>> => Releasable(q, r))
    <2>1. Limiting # {} /\ (q.headStream = 0 \/ q.head[q.headStream] < Head(q.fifo[s]))
        <3>1. q.headStream # 0 => q.headStream \in Limiting
            BY <1>2 DEF HeadTrails, Trailing
        <3> QED
            BY <1>2, <1>3, <1>4, <3>1 DEF Releasable
    <2>2. CASE q.headStream = 0
        <3>1. PICK l \in Limiting : q.head[l] = NoPts
            BY <1>2, <2>1, <2>2 DEF HeadKnown
        <3>2. l = r
            BY <1>1, <1>2, <1>3, <3>1
        <3>3. q.fifo[r] = <<>>
            BY <1>1, <3>1, <3>2, FifoHead
        <3>4. q.head[r] = -1
            BY <3>1, <3>2
        <3> QED
            BY <1>3, <3>1, <3>2, <3>3, <3>4
    <2>3. CASE q.headStream # 0
        <3>1. q.headStream \in Limiting
            BY <2>3, <1>2 DEF HeadTrails, Trailing
        <3>2. q.headStream = r
            BY <1>1, <1>2, <1>3, <2>1, <2>3, <3>1
        <3>3. q.fifo[r] # <<>> => Releasable(q, r)
            BY <1>1, <2>3, <3>2, FifoHead DEF Releasable
        <3> QED
            BY <2>1, <2>3, <3>1, <3>2, <3>3
    <2> QED
        BY <2>2, <2>3
<1>6. q.head[r] < q.head[s]
    BY <1>1, <1>2, <1>3, <1>5
<1>7. CASE BeatTold(3)
    <2>1. beat.st = s
        BY <1>1, <1>4, <1>5, <1>7 DEF BeatTold
    <2>2. r < 3
        BY <1>1 DEF Stream, r
    <2>3. Told(r) /\ beat.tail = Head(q.fifo[s])
        BY <1>1, <1>7, <2>1, <2>2 DEF BeatTold
    <2>4. r \notin q.finished
        BY <1>1, <1>5, <1>6, NotFinishedBehind
    <2>5. q.head[r] # NoPts /\ 2 * Head(q.fifo[s]) < 2 * q.head[r] + q.tb[r]
        BY <2>3, <2>4 DEF Told
    <2>6. q.head[r] \in Int /\ q.tb[r] \in Int
        BY <1>1, <1>2 DEF Stamp, Typed, SyncQueueType
    <2>7. 2 * (Head(q.fifo[s]) - q.head[r]) < q.tb[r]
        BY <1>3, <2>5, <2>6
    <2> QED
        BY <1>1, <1>5, <2>4, <2>5, <2>7
<1>8. CASE ~Overflows(q)
    <2>1. Ahead(q) = s
        BY <1>1, <1>2, <1>6, AheadIn
    <2>2. ~(Head(q.fifo[s]) < q.head[s]) \/ ~(WaitsFor(q, s) >= BufSize * Micro)
        BY <1>8, <2>1 DEF Overflows
    <2>3. Micro \in Nat \ {0} /\ q.head[s] - Head(q.fifo[s]) \in Nat
        BY <1>3, TimeBaseAssumption
    <2>4. WaitsFor(q, s) \in Nat
        BY <2>3, NearIs DEF WaitsFor
    <2>5. BufSize * Micro \in Nat /\ 0 < BufSize * Micro
        BY <1>1, <2>3
    <2>6. q.head[s] = Head(q.fifo[s]) => WaitsFor(q, s) = 0
        <3>1. 0 % Micro = 0
            BY <2>3
        <3> QED
            BY <1>3, <2>3, <3>1 DEF WaitsFor, Near
    <2>7. WaitsFor(q, s) < BufSize * Micro
        <3> DEFINE w == WaitsFor(q, s)
                   m == BufSize * Micro
        <3>1. w \in Nat /\ m \in Nat /\ 0 < m /\ (q.head[s] = Head(q.fifo[s]) => w = 0)
              /\ (~(Head(q.fifo[s]) < q.head[s]) \/ ~(w >= m))
            BY <2>2, <2>4, <2>5, <2>6
        <3> HIDE DEF w, m
        <3>2. w < m
            BY <1>3, <3>1
        <3> QED
            BY <3>2 DEF w, m
    <2> QED
        BY <2>7
<1> QED
    BY <1>7, <1>8

(* One turn of the loop over the two streams. *)
LEMMA BeatStep ==
    ASSUME NbStreams = 2, IInv, Waits, Beat
    PROVE  Waits'
<1> DEFINE n == beat.next
           tail == beat.tail
           st == beat.st
           ts == FakeTs(q, st, tail, n)
<1>1. /\ phase = "beat" /\ BeatTold(n)
      /\ q' = overflow_heartbeat(q, st, tail, n)
      /\ beat' = IF n = 2 THEN beat ELSE [beat EXCEPT !.next = @ + 1]
      /\ phase' = IF n = 2 THEN "again" ELSE "beat"
    BY DEF Beat, Waits, IInv, BeatOK
<1>2. /\ beat \in [st : Stream, tail : 0 .. MaxTs, next : Stream]
      /\ Sound(q, ended) /\ q.head \in [Stream -> Stamp] /\ Typed(q)
      /\ q.tb \in [Stream -> 1 .. Second] /\ Second \in Nat
      /\ \A i \in Stream : i = 1 \/ i = 2
    BY TimeBaseAssumption DEF IInv, TypeOK, SyncQueueType, Stream, Stamp, Sound
<1>3. /\ n \in Stream /\ st \in Stream /\ tail \in 0 .. MaxTs
      /\ n \in Nat /\ tail \in Nat
    BY <1>1, <1>2, MaxAssumption DEF Stream
<1>4. /\ beat'.st = st /\ beat'.tail = tail
      /\ phase' = "beat" => beat'.next = n + 1
      /\ phase' = "again" => n + 1 = 3
    BY <1>1, <1>2
<1>f. q.head[n] < tail + q.tb[st] => /\ ts \in 0 .. Highest /\ q.head[n] < ts
                                    /\ 2 * tail < 2 * ts + q.tb[n]
    BY <1>2, <1>3, FakeIs
<1> HIDE DEF n, tail, st, ts
<1> DEFINE Fine(x, i) == i \in x.finished
                         \/ (x.head[i] # NoPts /\ 2 * tail < 2 * x.head[i] + x.tb[i])
<1>5. /\ q'.fifo = q.fifo
      /\ \A i \in Stream : i < n + 1 /\ i # st => Fine(q', i)
    <2>1. \A i \in Stream : i < n /\ i # st => Fine(q, i)
        BY <1>1 DEF BeatTold, Told, n, tail, st
    <2>2. CASE n = st
        <3>1. q' = q
            BY <1>1, <2>2 DEF overflow_heartbeat
        <3>2. \A i \in Stream : i < n + 1 /\ i # st => i < n
            BY <1>2, <1>3, <2>2
        <3> QED
            BY <2>1, <3>1, <3>2
    <2>3. CASE n # st
        <3>1. \A i \in Stream : i < n + 1 /\ i # st => i = n
            BY <1>2, <1>3, <2>3
        <3>2. CASE n \notin q.finished /\ q.head[n] < tail + q.tb[st]
            <4> DEFINE y == stream_update_ts(q, n, ts)
            <4>1. y.fifo = q.fifo /\ y.head[n] = ts /\ y.tb = q.tb
                BY <1>2, <1>3, <1>f, <3>2, UpdateAny
            <4>2. q' = y
                BY <1>1, <2>3, <3>2 DEF overflow_heartbeat, ts
            <4> HIDE DEF y
            <4>3. ts # NoPts
                BY <1>f, <3>2
            <4>4. Fine(q', n)
                BY <1>f, <3>2, <4>1, <4>2, <4>3
            <4> QED
                BY <3>1, <4>1, <4>2, <4>4
        <3>3. CASE ~(n \notin q.finished /\ q.head[n] < tail + q.tb[st])
            <4>1. q' = q
                BY <1>1, <3>3 DEF overflow_heartbeat
            <4>2. q.head[n] \in Stamp /\ q.tb[st] \in 1 .. Second /\ q.tb[n] \in 1 .. Second
                BY <1>2, <1>3
            <4>3. Fine(q, n)
                BY <1>2, <1>3, <3>3, <4>2 DEF Stamp
            <4> QED
                BY <3>1, <4>1, <4>3
        <3> QED
            BY <3>2, <3>3
    <2> QED
        BY <2>2, <2>3
<1>6. q.fifo[st] # <<>> /\ tail = Head(q.fifo[st])
    BY <1>1 DEF BeatTold, tail, st
<1>7. phase' = "beat" => BeatTold(beat.next)'
    BY <1>4, <1>5, <1>6 DEF BeatTold, Told
<1>8. phase' = "again" => BeatTold(3)'
    BY <1>4, <1>5, <1>6 DEF BeatTold, Told
<1>9. phase' # "idle"
    BY <1>1
<1> QED
    BY <1>7, <1>8, <1>9 DEF Waits, Bounded

LEMMA WaitsNext ==
    ASSUME NbStreams = 2, BufSize > 0, IInv, Waits, [Next]_vars
    PROVE  Waits'
<1>1. ASSUME phase' \in {"drain", "eof"} PROVE Waits'
    BY <1>1 DEF Waits, Bounded
<1>2. ASSUME NEW s \in Stream, NEW end \in 0 .. MaxTs, SendPacket(s, end) PROVE Waits'
    BY <1>1, <1>2 DEF SendPacket
<1>3. ASSUME NEW s \in Stream, SendEof(s) \/ Give(s) PROVE Waits'
    BY <1>1, <1>3 DEF SendEof, Give
<1>4. ASSUME QueueEof PROVE Waits'
    BY <1>1, <1>4 DEF QueueEof
<1>5. ASSUME BeatStart PROVE Waits'
    <2>1. /\ beat' = [st |-> Ahead(q), tail |-> Head(q.fifo[Ahead(q)]), next |-> 1]
          /\ phase' = "beat" /\ q' = q /\ q.fifo[Ahead(q)] # <<>>
        BY <1>5 DEF BeatStart, Overflows
    <2>2. beat'.st = Ahead(q) /\ beat'.tail = Head(q.fifo[Ahead(q)]) /\ beat'.next = 1
        BY <2>1
    <2>3. \A i \in Stream : ~(i < 1)
        BY DEF Stream
    <2>4. BeatTold(beat.next)'
        BY <2>1, <2>2, <2>3 DEF BeatTold
    <2> QED
        BY <2>1, <2>4 DEF Waits, Bounded
<1>6. ASSUME Beat PROVE Waits'
    BY <1>6, BeatStep
<1>7. ASSUME Again PROVE Waits'
    <2>1. /\ phase' = "idle" /\ UNCHANGED <<q, beat, ended, sent>>
          /\ Released(q) = {} /\ beat.st \in Stream
          /\ BeatTold(3) \/ ~Overflows(q)
        BY <1>7 DEF Again, Nothing, Waits, IInv, TypeOK
    <2> SUFFICES ASSUME \A e \in ended : sent[e] # <<>>,
                        NEW s \in Stream \ q.finished, q.fifo[s] # <<>>
                 PROVE  \/ WaitsFor(q, s) < BufSize * Micro
                        \/ \E r \in Limiting \ (q.finished \union {s}) :
                              /\ q.head[r] # NoPts
                              /\ 2 * (Head(q.fifo[s]) - q.head[r]) < q.tb[r]
        BY <2>1 DEF Waits, Bounded
    <2> QED
        BY <2>1, IdleBounded
<1>8. ASSUME UNCHANGED vars PROVE Waits'
    BY <1>8 DEF vars, Waits, Bounded, BeatTold, Told
<1> QED
    BY <1>2, <1>3, <1>4, <1>5, <1>6, <1>7, <1>8 DEF Next

(* Of two streams the one ahead waits for less than the buffer's duration: a heartbeat
   is faked for the other one in time, before it has begun and after; only its time
   stamp may be rounded to less than half a unit before the packet that waits. *)
THEOREM BoundedAlways ==
    ASSUME NbStreams = 2, BufSize > 0
    PROVE  Spec => []Bounded
<1>1. Init => Waits
    <2> SUFFICES ASSUME Init PROVE Waits
        OBVIOUS
    <2>1. phase = "idle" /\ \A s \in Stream : q.fifo[s] = <<>>
        BY DEF Init, sq_alloc
    <2> QED
        BY <2>1 DEF Waits, Bounded
<1>2. IInv /\ Waits /\ [Next]_vars => Waits'
    BY WaitsNext
<1>3. Waits => Bounded
    BY DEF Waits
<1> QED
    BY <1>1, <1>2, <1>3, Invariant, PTL DEF Spec

=============================================================================
