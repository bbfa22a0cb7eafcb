-------------------------- MODULE ThreadQueue_proof ---------------------------
(* Proofs about ThreadQueue, for any number of streams, capacity and number of
   items: types, no lost wake-up, the contents of the fifo, and that every stream
   is a channel of its own. *)
EXTENDS ThreadQueue, SequenceTheorems, TLAPS

(* Broadcasting keeps the types and leaves nobody waiting. *)
LEMMA WakeType ==
    ASSUME NEW w \in Where
    PROVE  Wake(w) \in Where /\ Wake(w) # "waiting"
BY DEF Where, Wake

LEMMA WakeSendersType ==
    ASSUME TypeOK
    PROVE  /\ WakeSenders \in [Streams -> Where]
           /\ \A s \in Streams : WakeSenders[s] # "waiting"
BY WakeType DEF TypeOK, WakeSenders

LEMMA WakeIfReadType ==
    ASSUME TypeOK
    PROVE  WakeIfRead \in [Streams -> Where]
BY WakeSendersType DEF TypeOK, WakeIfRead

(* What is left of a fifo of which k + 1 items have been read. *)
LEMMA RestOfFifo ==
    ASSUME NEW q \in Seq(Item), NEW k \in 0 .. Len(q) - 1
    PROVE  LET r == SubSeq(q, k + 2, Len(q))
           IN  /\ r \in Seq(Item)
               /\ Len(r) = Len(q) - k - 1
               /\ \A i \in 1 .. Len(r) : r[i] = q[i + k + 1] /\ i + k + 1 \in 1 .. Len(q)
<1>1. /\ k + 2 \in Int /\ Len(q) \in Int
      /\ \A i \in k + 2 .. Len(q) : q[i] \in Item
    OBVIOUS
<1>2. /\ SubSeq(q, k + 2, Len(q)) \in Seq(Item)
      /\ Len(SubSeq(q, k + 2, Len(q))) = IF k + 2 <= Len(q) THEN Len(q) - (k + 2) + 1 ELSE 0
      /\ \A i \in 1 .. Len(q) - (k + 2) + 1 : SubSeq(q, k + 2, Len(q))[i] = q[k + 2 + i - 1]
    BY ONLY <1>1, SubSeqProperties
<1>3. Len(SubSeq(q, k + 2, Len(q))) = Len(q) - k - 1
    BY <1>2
<1>4. QED
    BY <1>2, <1>3

(* A fifo with one more item. *)
LEMMA LongerFifo ==
    ASSUME NEW q \in Seq(Item), NEW e \in Item
    PROVE  /\ Append(q, e) \in Seq(Item)
           /\ Len(Append(q, e)) = Len(q) + 1
           /\ \A i \in 1 .. Len(q) : Append(q, e)[i] = q[i]
           /\ Append(q, e)[Len(q) + 1] = e
OBVIOUS

-----------------------------------------------------------------------------
(* The types hold in the first state and are kept by every step. *)
LEMMA TypeInit == Init => TypeOK
<1> SUFFICES ASSUME Init PROVE TypeOK
    OBVIOUS
<1>1. <<>> \in Seq(Item) /\ Len(<<>>) = 0
    OBVIOUS
<1>2. fifo \in Seq(Item) /\ Len(fifo) <= QueueSize
    BY <1>1, SizesAssumption DEF Init
<1>3. /\ finished \in [Streams -> SUBSET {"send", "recv"}] /\ choked \in BOOLEAN
      /\ sender \in [Streams -> Where] /\ receiver \in Where
    BY DEF Init, Where
<1>4. accepted \in [Streams -> 0 .. MaxItems] /\ got \in [Streams -> 0 .. MaxItems]
    BY SizesAssumption DEF Init
<1>5. QED
    BY <1>2, <1>3, <1>4 DEF Init, TypeOK

LEMMA TypeNext == TypeOK /\ [Next]_vars => TypeOK'
<1> SUFFICES ASSUME TypeOK, [Next]_vars PROVE TypeOK'
    OBVIOUS
<1> USE SizesAssumption
<1>0. /\ WakeSenders \in [Streams -> Where]
      /\ WakeIfRead \in [Streams -> Where]
      /\ Wake(receiver) \in Where
    BY WakeType, WakeSendersType, WakeIfReadType DEF TypeOK
<1>e. <<>> \in Seq(Item) /\ Len(<<>>) = 0
    OBVIOUS
<1>1. ASSUME NEW s \in Streams, SendWait(s) PROVE TypeOK'
    BY <1>1 DEF SendWait, TypeOK, Where
<1>2. ASSUME NEW s \in Streams, SendDrop(s) PROVE TypeOK'
    BY <1>2 DEF SendDrop, TypeOK, Where
<1>3. ASSUME NEW s \in Streams, SendWrite(s) PROVE TypeOK'
    <2>1. [stream |-> s, n |-> accepted[s] + 1] \in Item
        BY <1>3 DEF SendWrite, AtSend, TypeOK, Item
    <2>2. fifo' \in Seq(Item) /\ Len(fifo') <= QueueSize
        BY <1>3, <2>1, LongerFifo DEF SendWrite, HasRoom, TypeOK
    <2>3. accepted' \in [Streams -> 0 .. MaxItems]
        BY <1>3 DEF SendWrite, AtSend, TypeOK
    <2>4. sender' \in [Streams -> Where] /\ receiver' \in Where
        BY <1>0, <1>3 DEF SendWrite, Where
    <2>5. QED
        BY <1>3, <2>2, <2>3, <2>4 DEF SendWrite, TypeOK
<1>4. ASSUME NEW s \in Streams, SendFinish(s) PROVE TypeOK'
    BY <1>0, <1>4 DEF SendFinish, TypeOK
<1>5. ASSUME NEW s \in Streams, ReceiveFinish(s) PROVE TypeOK'
    BY <1>0, <1>5 DEF ReceiveFinish, TypeOK
<1>6. CASE ReceiveItem
    <2>1. PICK k \in 0 .. Len(fifo) - 1 :
            /\ got' = [got EXCEPT ![fifo[k + 1].stream] = fifo[k + 1].n]
            /\ fifo' = SubSeq(fifo, k + 2, Len(fifo))
        BY <1>6 DEF ReceiveItem
    <2>2. fifo' \in Seq(Item) /\ Len(fifo') <= QueueSize
        <3>1. fifo' \in Seq(Item) /\ Len(fifo') = Len(fifo) - k - 1
            BY <2>1, RestOfFifo DEF TypeOK
        <3>2. QED
            BY <3>1 DEF TypeOK
    <2>3. fifo[k + 1] \in Item
        BY DEF TypeOK
    <2>4. got' \in [Streams -> 0 .. MaxItems]
        BY <2>1, <2>3 DEF TypeOK, Item
    <2>5. sender' \in [Streams -> Where] /\ receiver' \in Where
        BY <1>0, <1>6 DEF ReceiveItem, Where
    <2>6. QED
        BY <1>6, <2>2, <2>4, <2>5 DEF ReceiveItem, TypeOK
<1>7. ASSUME NEW s \in Streams, ReceiveEof(s) PROVE TypeOK'
    BY <1>0, <1>e, <1>7 DEF ReceiveEof, TypeOK, Where
<1>8. CASE ReceiveEnd
    BY <1>0, <1>e, <1>8 DEF ReceiveEnd, TypeOK, Where
<1>9. CASE ReceiveWait
    <2>1. fifo' \in Seq(Item) /\ Len(fifo') <= QueueSize
        <3>1. fifo' = fifo \/ fifo' = <<>>
            BY <1>9 DEF ReceiveWait
        <3>2. CASE fifo' = fifo
            BY <3>2 DEF TypeOK
        <3>3. CASE fifo' = <<>>
            BY <1>e, <3>3
        <3>4. QED
            BY <3>1, <3>2, <3>3
    <2>2. sender' \in [Streams -> Where]
        BY <1>0, <1>9 DEF ReceiveWait, TypeOK
    <2>3. QED
        BY <1>9, <2>1, <2>2 DEF ReceiveWait, TypeOK, Where
<1>10. ASSUME NEW c \in BOOLEAN, Choke(c) PROVE TypeOK'
    BY <1>0, <1>10 DEF Choke, TypeOK
<1>11. CASE UNCHANGED vars
    BY <1>11 DEF vars, TypeOK
<1>12. QED
    BY <1>1, <1>2, <1>3, <1>4, <1>5, <1>6, <1>7, <1>8, <1>9, <1>10, <1>11
    DEF Next, Send, Receive
-----------------------------------------------------------------------------
(* Types: the fifo never holds more than its capacity, and nothing but items. *)
THEOREM TypeCorrect == Spec => []TypeOK
BY TypeInit, TypeNext, PTL DEF Spec

-----------------------------------------------------------------------------
LEMMA WakeupInit == Init => NoLostWakeup
BY DEF Init, NoLostWakeup

(* Whoever might have to go on is woken by the step that lets it. *)
LEMMA WakeupNext == TypeOK /\ NoLostWakeup /\ [Next]_vars => NoLostWakeup'
<1> SUFFICES ASSUME TypeOK, NoLostWakeup, [Next]_vars PROVE NoLostWakeup'
    OBVIOUS
<1>0. /\ \A s \in Streams : WakeSenders[s] # "waiting"
      /\ Wake(receiver) # "waiting"
    BY WakeSendersType, WakeType DEF TypeOK
<1>d. DOMAIN WakeSenders = Streams
    BY DEF WakeSenders
<1>1. ASSUME NEW s \in Streams, SendWait(s) PROVE NoLostWakeup'
    BY <1>1 DEF SendWait, NoLostWakeup, TypeOK, Reading, HasRoom, NothingEnds, AllEnded
<1>2. ASSUME NEW s \in Streams, SendDrop(s) PROVE NoLostWakeup'
    <2>1. \A r \in Streams : Reading(r)' = Reading(r)
        BY <1>2 DEF SendDrop, Reading, TypeOK
    <2>2. finished'[s] # {"send"}
        BY <1>2 DEF SendDrop, Reading, TypeOK
    <2>3. NothingEnds => NothingEnds'
        BY <1>2, <2>2 DEF SendDrop, NothingEnds, TypeOK
    <2>4. QED
        BY <1>2, <2>1, <2>3 DEF SendDrop, NoLostWakeup, TypeOK, HasRoom, AllEnded
<1>3. ASSUME NEW s \in Streams, SendWrite(s) PROVE NoLostWakeup'
    BY <1>0, <1>d, <1>3 DEF SendWrite, NoLostWakeup
<1>4. ASSUME NEW s \in Streams, SendFinish(s) PROVE NoLostWakeup'
    BY <1>0, <1>4 DEF SendFinish, NoLostWakeup
<1>5. ASSUME NEW s \in Streams, ReceiveFinish(s) PROVE NoLostWakeup'
    BY <1>0, <1>5 DEF ReceiveFinish, NoLostWakeup
<1>6. CASE ReceiveItem
    BY <1>0, <1>6 DEF ReceiveItem, NoLostWakeup
<1>7. ASSUME NEW s \in Streams, ReceiveEof(s) PROVE NoLostWakeup'
    <2>1. CASE fifo # <<>>
        BY <1>0, <1>7, <2>1 DEF ReceiveEof, WakeIfRead, NoLostWakeup
    <2>2. CASE fifo = <<>>
        <3>1. \A r \in Streams : sender[r] # "waiting"
            BY <2>2, SizesAssumption DEF NoLostWakeup, HasRoom
        <3>2. QED
            BY <1>7, <2>2, <3>1 DEF ReceiveEof, WakeIfRead, NoLostWakeup
    <2>3. QED
        BY <2>1, <2>2
<1>8. CASE ReceiveEnd \/ (ReceiveWait /\ ~choked)
    <2>1. \A r \in Streams : sender'[r] # "waiting"
        <3>1. CASE fifo # <<>>
            BY <1>0, <1>8, <3>1 DEF ReceiveEnd, ReceiveWait, WakeIfRead
        <3>2. CASE fifo = <<>>
            <4>1. \A r \in Streams : sender[r] # "waiting"
                BY <3>2, SizesAssumption DEF NoLostWakeup, HasRoom
            <4>2. QED
                BY <1>8, <3>2, <4>1 DEF ReceiveEnd, ReceiveWait, WakeIfRead
        <3>3. QED
            BY <3>1, <3>2
    <2>2. QED
        BY <1>8, <2>1 DEF ReceiveEnd, ReceiveWait, NoLostWakeup, NothingEnds, AllEnded, Reading
<1>9. CASE ReceiveWait /\ choked
    BY <1>9 DEF ReceiveWait, NoLostWakeup, Reading, HasRoom
<1>10. ASSUME NEW c \in BOOLEAN, Choke(c) PROVE NoLostWakeup'
    BY <1>0, <1>10 DEF Choke, NoLostWakeup
<1>11. CASE UNCHANGED vars
    BY <1>11 DEF vars, NoLostWakeup, Reading, HasRoom, NothingEnds, AllEnded
<1>12. QED
    BY <1>1, <1>2, <1>3, <1>4, <1>5, <1>6, <1>7, <1>8, <1>9, <1>10, <1>11
    DEF Next, Send, Receive

(* No wake-up is lost: who waits has to. *)
THEOREM NoLostWakeupAlways == Spec => []NoLostWakeup
BY WakeupInit, WakeupNext, TypeCorrect, PTL DEF Spec

-----------------------------------------------------------------------------
LEMMA QueuedInit == Init => Queued
<1> SUFFICES ASSUME Init PROVE Queued
    OBVIOUS
<1>1. Len(fifo) = 0 /\ \A s \in Streams : got[s] = 0 /\ accepted[s] = 0 /\ sender[s] = "outside"
    BY DEF Init
<1>2. QED
    BY <1>1 DEF Queued, Numbered, Ordered, Complete, Counted

(* Nothing that Queued speaks of changes, except that streams end for the consumer
   and that producers wait, or leave, or are woken. *)
LEMMA QueuedKept ==
    ASSUME TypeOK, Queued, UNCHANGED <<fifo, accepted, got>>,
           \A s \in Streams : Reading(s)' => Reading(s),
           \A s \in Streams : sender'[s] # "outside" => Sending(s)'
    PROVE  Queued'
<1>1. Numbered' /\ Ordered'
    <2>1. \A i \in 1 .. Len(fifo) : fifo[i] \in Item
        BY DEF TypeOK
    <2>2. \A i \in 1 .. Len(fifo) : fifo[i].stream \in Streams
        BY <2>1 DEF Item
    <2>3. QED
        BY <2>2 DEF Queued, Numbered, Ordered
<1>2. Complete'
    BY DEF Queued, Complete
<1>3. Counted'
    BY DEF Queued, Counted
<1>4. QED
    BY <1>1, <1>2, <1>3 DEF Queued

(* A producer that was inside of tq_send and has not returned is still inside. *)
LEMMA WakeOutside ==
    ASSUME TypeOK
    PROVE  \A s \in Streams : WakeSenders[s] # "outside" => sender[s] # "outside"
BY DEF TypeOK, WakeSenders, Wake

(* When every item in the fifo would be dropped, each stream that is still read has
   been given out completely. *)
LEMMA NothingHeldBack ==
    ASSUME TypeOK, Queued, DropsAll, NEW s \in Streams, Reading(s)
    PROVE  got[s] = accepted[s]
<1>1. \A i \in 1 .. Len(fifo) : fifo[i].stream # s
    BY DEF DropsAll, Drops, Reading
<1>2. ASSUME NEW n \in got[s] + 1 .. accepted[s] PROVE FALSE
    <2>1. PICK i \in 1 .. Len(fifo) : fifo[i] = [stream |-> s, n |-> n]
        BY DEF Queued, Complete
    <2>2. QED
        BY <1>1, <2>1
<1>3. got[s] \in Nat /\ accepted[s] \in Nat /\ got[s] <= accepted[s]
    BY SizesAssumption DEF TypeOK, Queued, Counted
<1>4. QED
    BY <1>2, <1>3

(* The item given out is the next one of its stream. *)
LEMMA NextItem ==
    ASSUME TypeOK, Queued, NEW k \in 0 .. Len(fifo) - 1, Drops(k)
    PROVE  LET e == fifo[k + 1] IN
           e \in Item /\ Reading(e.stream) /\ e.n = got[e.stream] + 1 /\ e.n <= accepted[e.stream]
<1> DEFINE s == fifo[k + 1].stream
           n == fifo[k + 1].n
<1>1. k + 1 \in 1 .. Len(fifo) /\ fifo[k + 1] \in Item /\ s \in Streams /\ n \in Nat
    <2>1. k + 1 \in 1 .. Len(fifo) /\ fifo \in Seq(Item)
        BY DEF TypeOK
    <2>2. fifo[k + 1] \in Item
        BY <2>1
    <2>3. QED
        BY <2>1, <2>2, SizesAssumption DEF Item
<1>2. Reading(s)
    BY <1>1 DEF Drops
<1>3. got[s] \in Nat /\ accepted[s] \in Nat /\ got[s] < n /\ n <= accepted[s]
    <2>1. got[s] \in Nat /\ accepted[s] \in Nat
        BY <1>1, SizesAssumption DEF TypeOK
    <2>2. QED
        BY <2>1, <1>1, <1>2 DEF Queued, Numbered
<1>4. PICK i \in 1 .. Len(fifo) : fifo[i] = [stream |-> s, n |-> got[s] + 1]
    BY <1>1, <1>2, <1>3 DEF Queued, Complete
<1>5. i >= k + 1
    BY <1>2, <1>4 DEF Drops, Reading
<1>6. CASE i = k + 1
    BY <1>1, <1>2, <1>3, <1>4, <1>6
<1>7. CASE i > k + 1
    <2>1. n < got[s] + 1
        BY <1>1, <1>4, <1>7 DEF Queued, Ordered
    <2>2. QED
        BY <2>1, <1>1, <1>3
<1>8. QED
    BY <1>4, <1>5, <1>6, <1>7

(* An empty fifo is in order if every stream that is still read was given out. *)
LEMMA QueuedEmpty ==
    ASSUME TypeOK, Queued, DropsAll, fifo' = <<>>, UNCHANGED <<accepted, got>>,
           \A s \in Streams : Reading(s)' => Reading(s),
           \A s \in Streams : sender'[s] # "outside" => Sending(s)'
    PROVE  Queued'
<1>1. \A s \in Streams : Reading(s)' => got'[s] = accepted'[s]
    BY NothingHeldBack
<1>2. \A s \in Streams : got'[s] \in Nat /\ got'[s] <= accepted'[s]
    BY SizesAssumption DEF TypeOK, Queued, Counted
<1>3. Len(fifo') = 0
    OBVIOUS
<1>4. Numbered' /\ Ordered' /\ Complete'
    BY <1>1, <1>2, <1>3 DEF Numbered, Ordered, Complete, TypeOK
<1>5. QED
    BY <1>2, <1>4 DEF Queued, Counted

LEMMA QueuedNext == TypeOK /\ Queued /\ [Next]_vars => Queued'
<1> SUFFICES ASSUME TypeOK, Queued, [Next]_vars PROVE Queued'
    OBVIOUS
<1>0. \A s \in Streams : sender[s] # "outside" => Sending(s)
    BY DEF Queued, Counted
<1>w. \A s \in Streams : WakeSenders[s] # "outside" => Sending(s)
    BY <1>0, WakeOutside
<1>1. ASSUME NEW s \in Streams, SendWait(s) PROVE Queued'
    <2>1. Sending(s)
        BY <1>0, <1>1 DEF SendWait, AtSend
    <2>2. \A r \in Streams : sender'[r] # "outside" => Sending(r)'
        BY <1>0, <1>1, <2>1 DEF SendWait, Sending, TypeOK
    <2>3. QED
        BY <1>1, <2>2, QueuedKept DEF SendWait, Reading
<1>2. ASSUME NEW s \in Streams, SendDrop(s) PROVE Queued'
    <2>1. \A r \in Streams : sender'[r] # "outside" => Sending(r)'
        BY <1>0, <1>2 DEF SendDrop, Sending, TypeOK
    <2>2. \A r \in Streams : Reading(r)' => Reading(r)
        BY <1>2 DEF SendDrop, Reading, TypeOK
    <2>3. QED
        BY <1>2, <2>1, <2>2, QueuedKept DEF SendDrop
<1>3. ASSUME NEW s \in Streams, SendWrite(s) PROVE Queued'
    <2> DEFINE e == [stream |-> s, n |-> accepted[s] + 1]
    <2>0. accepted[s] \in Nat /\ accepted' = [accepted EXCEPT ![s] = @ + 1] /\ e \in Item
        BY <1>3, SizesAssumption DEF SendWrite, AtSend, TypeOK, Item
    <2>1. /\ Len(fifo') = Len(fifo) + 1
          /\ \A i \in 1 .. Len(fifo) : fifo'[i] = fifo[i] /\ fifo[i] \in Item
          /\ fifo'[Len(fifo) + 1] = e
          /\ Len(fifo) \in Nat
        BY <1>3, <2>0, LongerFifo DEF SendWrite, TypeOK
    <2>a. \A r \in Streams : accepted'[r] = IF r = s THEN accepted[s] + 1 ELSE accepted[r]
        BY <2>0 DEF TypeOK
    <2>t. \A r \in Streams : got[r] \in Nat /\ accepted[r] \in Nat /\ got[r] <= accepted[r]
        BY SizesAssumption DEF TypeOK, Queued, Counted
    <2>u. \A i \in 1 .. Len(fifo) : fifo[i].stream \in Streams /\ fifo[i].n \in Nat
        BY <2>1, SizesAssumption DEF Item
    <2>r. got' = got /\ finished' = finished
        BY <1>3 DEF SendWrite
    <2>2. Numbered'
        <3> SUFFICES ASSUME NEW i \in 1 .. Len(fifo')
                     PROVE  /\ fifo'[i].n <= accepted'[fifo'[i].stream]
                            /\ "recv" \notin finished'[fifo'[i].stream] => got'[fifo'[i].stream] < fifo'[i].n
            BY DEF Numbered, Reading
        <3>1. CASE i \in 1 .. Len(fifo)
            <4>1. fifo[i].n <= accepted[fifo[i].stream] /\ (Reading(fifo[i].stream) => got[fifo[i].stream] < fifo[i].n)
                BY <3>1 DEF Queued, Numbered
            <4>2. fifo[i].n <= accepted'[fifo[i].stream]
                BY <2>a, <2>t, <2>u, <3>1, <4>1
            <4>3. QED
                BY <2>1, <2>r, <3>1, <4>1, <4>2 DEF Reading
        <3>2. CASE i = Len(fifo) + 1
            BY <2>1, <2>a, <2>t, <2>r, <3>2
        <3>3. QED
            BY <2>1, <3>1, <3>2
    <2>3. Ordered'
        <3> SUFFICES ASSUME NEW i \in 1 .. Len(fifo'), NEW j \in 1 .. Len(fifo'),
                            i < j, fifo'[i].stream = fifo'[j].stream
                     PROVE  fifo'[i].n < fifo'[j].n
            BY DEF Ordered
        <3>1. i \in 1 .. Len(fifo) /\ fifo[i].n <= accepted[fifo[i].stream]
            BY <2>1 DEF Queued, Numbered
        <3>2. CASE j = Len(fifo) + 1
            <4>1. fifo'[i] = fifo[i] /\ fifo'[j] = e /\ fifo[i].stream = s
                BY <2>1, <3>1, <3>2
            <4>2. QED
                BY <2>0, <2>u, <3>1, <4>1
        <3>3. CASE j # Len(fifo) + 1
            BY <2>1, <3>1, <3>3 DEF Queued, Ordered
        <3>4. QED
            BY <3>2, <3>3
    <2>4. Complete'
        <3> SUFFICES ASSUME NEW r \in Streams, Reading(r)',
                            NEW n \in got'[r] + 1 .. accepted'[r]
                     PROVE  \E i \in 1 .. Len(fifo') : fifo'[i] = [stream |-> r, n |-> n]
            BY DEF Complete
        <3>1. CASE n \in got[r] + 1 .. accepted[r]
            <4>1. PICK i \in 1 .. Len(fifo) : fifo[i] = [stream |-> r, n |-> n]
                BY <2>r, <3>1 DEF Queued, Complete, Reading
            <4>2. QED
                BY <2>1, <4>1
        <3>2. CASE n \notin got[r] + 1 .. accepted[r]
            <4>1. r = s /\ n = accepted[s] + 1
                BY <2>a, <2>t, <2>r, <3>2
            <4>2. QED
                BY <2>1, <4>1
        <3>3. QED
            BY <3>1, <3>2
    <2>5. Counted'
        BY <1>3, <1>w, <2>a, <2>t, <2>r, WakeSendersType DEF SendWrite, Sending, Counted
    <2>6. QED
        BY <2>2, <2>3, <2>4, <2>5 DEF Queued
<1>4. ASSUME NEW s \in Streams, SendFinish(s) PROVE Queued'
    <2>1. \A r \in Streams : sender'[r] # "outside" => Sending(r)'
        <3>1. \A r \in Streams : sender'[r] # "outside" => r # s /\ Sending(r)
            BY <1>4, <1>w, WakeOutside DEF SendFinish
        <3>2. QED
            BY <1>4, <3>1 DEF SendFinish, Sending, TypeOK
    <2>2. \A r \in Streams : Reading(r)' => Reading(r)
        BY <1>4 DEF SendFinish, Reading, TypeOK
    <2>3. QED
        BY <1>4, <2>1, <2>2, QueuedKept DEF SendFinish
<1>5. ASSUME NEW s \in Streams, ReceiveFinish(s) PROVE Queued'
    <2>1. \A r \in Streams : sender'[r] # "outside" => Sending(r)'
        BY <1>5, <1>w DEF ReceiveFinish, Sending, TypeOK
    <2>2. \A r \in Streams : Reading(r)' => Reading(r)
        BY <1>5 DEF ReceiveFinish, Reading, TypeOK
    <2>3. QED
        BY <1>5, <2>1, <2>2, QueuedKept DEF ReceiveFinish
<1>6. CASE ReceiveItem
    <2>1. PICK k \in 0 .. Len(fifo) - 1 :
            /\ Drops(k)
            /\ got' = [got EXCEPT ![fifo[k + 1].stream] = fifo[k + 1].n]
            /\ fifo' = SubSeq(fifo, k + 2, Len(fifo))
        BY <1>6 DEF ReceiveItem
    <2> DEFINE s == fifo[k + 1].stream
    <2>2. s \in Streams /\ Reading(s) /\ fifo[k + 1].n = got[s] + 1 /\ got[s] + 1 <= accepted[s]
        BY <2>1, NextItem DEF Item
    <2>3. /\ Len(fifo') = Len(fifo) - k - 1
          /\ \A i \in 1 .. Len(fifo') : fifo'[i] = fifo[i + k + 1] /\ i + k + 1 \in 1 .. Len(fifo)
          /\ Len(fifo) \in Nat
        BY <2>1, RestOfFifo DEF TypeOK
    <2>g. \A r \in Streams : got'[r] = IF r = s THEN got[s] + 1 ELSE got[r]
        BY <2>1, <2>2 DEF TypeOK
    <2>t. \A r \in Streams : got[r] \in Nat /\ accepted[r] \in Nat /\ got[r] <= accepted[r]
        BY SizesAssumption DEF TypeOK, Queued, Counted
    <2>u. \A i \in 1 .. Len(fifo) : fifo[i].stream \in Streams /\ fifo[i].n \in Nat
        <3>1. \A i \in 1 .. Len(fifo) : fifo[i] \in Item
            BY DEF TypeOK
        <3>2. QED
            BY <3>1, SizesAssumption DEF Item
    <2>r. accepted' = accepted /\ finished' = finished
        BY <1>6 DEF ReceiveItem
    <2>4. Numbered'
        <3> SUFFICES ASSUME NEW i \in 1 .. Len(fifo')
                     PROVE  /\ fifo'[i].n <= accepted'[fifo'[i].stream]
                            /\ "recv" \notin finished'[fifo'[i].stream] => got'[fifo'[i].stream] < fifo'[i].n
            BY DEF Numbered, Reading
        <3> DEFINE j == i + k + 1
        <3>1. j \in 1 .. Len(fifo) /\ k + 1 < j /\ k + 1 \in 1 .. Len(fifo) /\ fifo'[i] = fifo[j]
            BY <2>3
        <3>2. fifo[j].n <= accepted[fifo[j].stream] /\ (Reading(fifo[j].stream) => got[fifo[j].stream] < fifo[j].n)
            BY <3>1 DEF Queued, Numbered
        <3>3. fifo[j].stream = s => got[s] + 1 < fifo[j].n
            BY <2>2, <3>1 DEF Queued, Ordered
        <3>4. QED
            BY <2>g, <2>r, <2>u, <3>1, <3>2, <3>3 DEF Reading
    <2>5. Ordered'
        <3> SUFFICES ASSUME NEW i \in 1 .. Len(fifo'), NEW j \in 1 .. Len(fifo'),
                            i < j, fifo'[i].stream = fifo'[j].stream
                     PROVE  fifo'[i].n < fifo'[j].n
            BY DEF Ordered
        <3>1. i + k + 1 < j + k + 1
            OBVIOUS
        <3>2. QED
            BY <2>3, <3>1 DEF Queued, Ordered
    <2>6. Complete'
        <3> SUFFICES ASSUME NEW r \in Streams, Reading(r)',
                            NEW n \in got'[r] + 1 .. accepted'[r]
                     PROVE  \E i \in 1 .. Len(fifo') : fifo'[i] = [stream |-> r, n |-> n]
            BY DEF Complete
        <3>1. n \in got[r] + 1 .. accepted[r] /\ (r = s => n # got[s] + 1) /\ Reading(r)
            BY <2>g, <2>r, <2>t DEF Reading
        <3>2. PICK i \in 1 .. Len(fifo) : fifo[i] = [stream |-> r, n |-> n]
            BY <3>1 DEF Queued, Complete
        <3>3. i # k + 1
            BY <2>2, <3>1, <3>2
        <3>4. ~(i \in 1 .. k)
            BY <2>1, <3>1, <3>2 DEF Drops, Reading
        <3>5. i - k - 1 \in 1 .. Len(fifo')
            BY <2>3, <3>3, <3>4
        <3>7. fifo'[i - k - 1] = fifo[i]
            BY <2>3, <3>5
        <3>6. QED
            BY <3>2, <3>5, <3>7
    <2>7. Counted'
        BY <1>6, <1>w, <2>2, <2>g, <2>t, <2>r DEF ReceiveItem, Sending, Counted
    <2>8. QED
        BY <2>4, <2>5, <2>6, <2>7 DEF Queued
<1>7. ASSUME NEW s \in Streams, ReceiveEof(s) PROVE Queued'
    <2>1. \A r \in Streams : sender'[r] # "outside" => Sending(r)'
        BY <1>0, <1>w, <1>7 DEF ReceiveEof, WakeIfRead, Sending, TypeOK
    <2>2. \A r \in Streams : Reading(r)' => Reading(r)
        BY <1>7 DEF ReceiveEof, Reading, TypeOK
    <2>3. QED
        BY <1>7, <2>1, <2>2, QueuedEmpty DEF ReceiveEof
<1>8. CASE ReceiveEnd \/ (ReceiveWait /\ ~choked)
    <2>1. \A r \in Streams : sender'[r] # "outside" => Sending(r)'
        BY <1>0, <1>w, <1>8 DEF ReceiveEnd, ReceiveWait, WakeIfRead, Sending
    <2>2. DropsAll /\ fifo' = <<>> /\ UNCHANGED <<accepted, got, finished>>
        BY <1>8 DEF ReceiveEnd, ReceiveWait
    <2>3. QED
        BY <2>1, <2>2, QueuedEmpty DEF Reading
<1>9. CASE ReceiveWait /\ choked
    BY <1>0, <1>9, QueuedKept DEF ReceiveWait, Reading, Sending
<1>10. ASSUME NEW c \in BOOLEAN, Choke(c) PROVE Queued'
    BY <1>w, <1>10, QueuedKept DEF Choke, Reading, Sending
<1>11. CASE UNCHANGED vars
    BY <1>0, <1>11, QueuedKept DEF vars, Reading, Sending
<1>12. QED
    BY <1>1, <1>2, <1>3, <1>4, <1>5, <1>6, <1>7, <1>8, <1>9, <1>10, <1>11
    DEF Next, Send, Receive

(* The fifo holds, of every stream that is read, what was accepted and not given out. *)
THEOREM QueuedAlways == Spec => []Queued
BY QueuedInit, QueuedNext, TypeCorrect, PTL DEF Spec

-----------------------------------------------------------------------------
(* Steps that leave flags and counters alone are not seen from outside. *)
LEMMA Stutter ==
    ASSUME UNCHANGED <<finished, accepted, got, eof>>
    PROVE  [C!Next]_(C!vars)
BY DEF C!vars, Reading, Sending

(* Finishing a stream for sending, from either place, closes its channel or does nothing. *)
LEMMA CloseStep ==
    ASSUME TypeOK, NEW s \in Streams,
           finished' = [finished EXCEPT ![s] = @ \union {"send"}],
           UNCHANGED <<accepted, got, eof>>
    PROVE  [C!Next]_(C!vars)
<1>1. /\ \A r \in Streams : Reading(r)' = Reading(r)
      /\ \A r \in Streams : Sending(r)' = IF r = s THEN FALSE ELSE Sending(r)
    BY DEF Reading, Sending, TypeOK
<1>2. [r \in Streams |-> Reading(r)]' = [r \in Streams |-> Reading(r)]
    BY <1>1
<1>3. [r \in Streams |-> Sending(r)]' = [[r \in Streams |-> Sending(r)] EXCEPT ![s] = FALSE]
    BY <1>1
<1>4. CASE Sending(s)
    BY <1>2, <1>3, <1>4 DEF C!Next, C!Close
<1>5. CASE ~Sending(s)
    <2>1. finished' = finished
        BY <1>5 DEF Sending, TypeOK
    <2>2. QED
        BY <2>1, Stutter
<1>6. QED
    BY <1>4, <1>5

(* Every stream is a channel of its own: the queue implements Channels. *)
THEOREM Refinement == Spec => ImplementsChannels
<1>1. Init => C!Init
    BY DEF Init, C!Init, Reading, Sending
<1>2. ASSUME TypeOK, Queued, [Next]_vars
      PROVE  [C!Next]_(C!vars)
    <2>1. ASSUME NEW s \in Streams, SendWait(s) PROVE [C!Next]_(C!vars)
        BY <2>1, Stutter DEF SendWait
    <2>2. ASSUME NEW s \in Streams, SendDrop(s) PROVE [C!Next]_(C!vars)
        BY <1>2, <2>2, CloseStep DEF SendDrop
    <2>3. ASSUME NEW s \in Streams, SendWrite(s) PROVE [C!Next]_(C!vars)
        <3>1. Sending(s) /\ Reading(s)
            BY <1>2, <2>3 DEF SendWrite, AtSend, Queued, Counted
        <3>2. /\ [r \in Streams |-> Reading(r)]' = [r \in Streams |-> Reading(r)]
              /\ [r \in Streams |-> Sending(r)]' = [r \in Streams |-> Sending(r)]
            BY <2>3 DEF SendWrite, Reading, Sending
        <3>3. C!Put(s)
            BY <2>3, <3>1, <3>2 DEF C!Put, SendWrite
        <3>4. QED
            BY <3>3 DEF C!Next
    <2>4. ASSUME NEW s \in Streams, SendFinish(s) PROVE [C!Next]_(C!vars)
        BY <1>2, <2>4, CloseStep DEF SendFinish
    <2>5. ASSUME NEW s \in Streams, ReceiveFinish(s) PROVE [C!Next]_(C!vars)
        <3>1. /\ \A r \in Streams : Sending(r)' = Sending(r)
              /\ \A r \in Streams : Reading(r)' = IF r = s THEN FALSE ELSE Reading(r)
            BY <1>2, <2>5 DEF ReceiveFinish, Reading, Sending, TypeOK
        <3>2. [r \in Streams |-> Sending(r)]' = [r \in Streams |-> Sending(r)]
            BY <3>1
        <3>3. [r \in Streams |-> Reading(r)]' = [[r \in Streams |-> Reading(r)] EXCEPT ![s] = FALSE]
            BY <3>1
        <3>4. CASE Reading(s)
            BY <2>5, <3>2, <3>3, <3>4 DEF C!Next, C!Abandon, ReceiveFinish
        <3>5. CASE ~Reading(s)
            <4>1. finished' = finished
                BY <1>2, <2>5, <3>5 DEF ReceiveFinish, Reading, TypeOK
            <4>2. QED
                BY <2>5, <4>1, Stutter DEF ReceiveFinish
        <3>6. QED
            BY <3>4, <3>5
    <2>6. CASE ReceiveItem
        <3>1. PICK k \in 0 .. Len(fifo) - 1 :
                Drops(k) /\ got' = [got EXCEPT ![fifo[k + 1].stream] = fifo[k + 1].n]
            BY <2>6 DEF ReceiveItem
        <3> DEFINE s == fifo[k + 1].stream
        <3>2. s \in Streams /\ Reading(s) /\ fifo[k + 1].n = got[s] + 1 /\ got[s] + 1 <= accepted[s]
            BY <1>2, <3>1, NextItem DEF Item
        <3>3. got[s] < accepted[s]
            BY <1>2, <3>2, SizesAssumption DEF TypeOK
        <3>4. got' = [got EXCEPT ![s] = @ + 1]
            BY <3>1, <3>2
        <3>5. /\ [r \in Streams |-> Reading(r)]' = [r \in Streams |-> Reading(r)]
              /\ [r \in Streams |-> Sending(r)]' = [r \in Streams |-> Sending(r)]
            BY <2>6 DEF ReceiveItem, Reading, Sending
        <3> HIDE DEF s
        <3>6. C!Get(s)
            BY <2>6, <3>2, <3>3, <3>4, <3>5 DEF C!Get, ReceiveItem
        <3>7. QED
            BY <3>2, <3>6 DEF C!Next
    <2>7. ASSUME NEW s \in Streams, ReceiveEof(s) PROVE [C!Next]_(C!vars)
        <3>1. DropsAll /\ Reading(s) /\ ~Sending(s)
            BY <2>7 DEF ReceiveEof, EndsNext, Reading, Sending
        <3>2. got[s] = accepted[s]
            BY <1>2, <3>1, NothingHeldBack
        <3>3. /\ \A r \in Streams : Sending(r)' = Sending(r)
              /\ \A r \in Streams : Reading(r)' = IF r = s THEN FALSE ELSE Reading(r)
            BY <1>2, <2>7 DEF ReceiveEof, Reading, Sending, TypeOK
        <3>4. [r \in Streams |-> Sending(r)]' = [r \in Streams |-> Sending(r)]
            BY <3>3
        <3>5. [r \in Streams |-> Reading(r)]' = [[r \in Streams |-> Reading(r)] EXCEPT ![s] = FALSE]
            BY <3>3
        <3>6. C!End(s)
            BY <2>7, <3>1, <3>2, <3>4, <3>5 DEF C!End, ReceiveEof
        <3>7. QED
            BY <3>6 DEF C!Next
    <2>8. CASE ReceiveEnd
        BY <2>8, Stutter DEF ReceiveEnd
    <2>9. CASE ReceiveWait
        BY <2>9, Stutter DEF ReceiveWait
    <2>10. ASSUME NEW c \in BOOLEAN, Choke(c) PROVE [C!Next]_(C!vars)
        BY <2>10, Stutter DEF Choke
    <2>11. CASE UNCHANGED vars
        BY <2>11, Stutter DEF vars
    <2>12. QED
        BY <1>2, <2>1, <2>2, <2>3, <2>4, <2>5, <2>6, <2>7, <2>8, <2>9, <2>10, <2>11
        DEF Next, Send, Receive
<1>3. QED
    BY <1>1, <1>2, TypeCorrect, QueuedAlways, PTL DEF Spec, ImplementsChannels, C!Spec
=============================================================================
