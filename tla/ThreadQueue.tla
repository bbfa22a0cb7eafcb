----------------------------- MODULE ThreadQueue ------------------------------
(* The queue between two threads of the ffmpeg sidecar
   (dependencies/ffmpeg/fftools/thread_queue.c).  One consumer reads the items
   of several streams from one bounded fifo; every stream has a producer.  All
   of them share a mutex and a condition variable: one action is what a thread
   does from taking the mutex until it gives it back, by returning or by waiting. *)
EXTENDS Integers, Sequences

CONSTANTS
    NbStreams,   \* nb_streams
    QueueSize,   \* queue_size, the capacity of fifo_stream_index
    MaxItems     \* bound: items a producer sends at most

ASSUME SizesAssumption ==
    NbStreams \in Nat \ {0} /\ QueueSize \in Nat \ {0} /\ MaxItems \in Nat

Streams == 1 .. NbStreams

VARIABLES
    fifo,       \* fifo and fifo_stream_index, which are read and written together
    finished,   \* finished: the flags FINISHED_SEND ("send") and FINISHED_RECV ("recv")
    choked,     \* choked
    sender,     \* per stream: its producer is outside of tq_send, waits on cond, or was woken
    receiver,   \* the same of the consumer and tq_receive
    accepted,   \* items of a stream that tq_send has taken
    got,        \* the last item of a stream that tq_receive has given out
    eof         \* tq_receive has returned EOF for the stream

vars == <<fifo, finished, choked, sender, receiver, accepted, got, eof>>

Where == {"outside", "waiting", "woken"}
Item == [stream : Streams, n : 1 .. MaxItems]

Init ==
    /\ fifo = <<>>
    /\ finished = [s \in Streams |-> {}]
    /\ choked = FALSE
    /\ sender = [s \in Streams |-> "outside"]
    /\ receiver = "outside"
    /\ accepted = [s \in Streams |-> 0]
    /\ got = [s \in Streams |-> 0]
    /\ eof = [s \in Streams |-> FALSE]

Sending(s) == "send" \notin finished[s]
Reading(s) == "recv" \notin finished[s]

(* pthread_cond_broadcast: every waiting thread goes for the mutex again. *)
Wake(w) == IF w = "waiting" THEN "woken" ELSE w
WakeSenders == [s \in Streams |-> Wake(sender[s])]

-----------------------------------------------------------------------------
(* tq_send.  A stream that is finished for sending refuses (EINVAL): not a step. *)

AtSend(s) ==
    /\ accepted[s] < MaxItems
    /\ sender[s] = "woken" \/ (sender[s] = "outside" /\ Sending(s))

(* A mistake: off by one. *)
HasRoomForOne == Len(fifo) <= QueueSize

HasRoom == Len(fifo) < QueueSize

SendWait(s) ==
    /\ AtSend(s)
    /\ Reading(s) /\ ~HasRoom
    /\ sender' = [sender EXCEPT ![s] = "waiting"]
    /\ UNCHANGED <<fifo, finished, choked, receiver, accepted, got, eof>>

(* Nobody reads the stream any more: EOF to the producer, and the end of sending. *)
SendDrop(s) ==
    /\ AtSend(s)
    /\ ~Reading(s)
    /\ finished' = [finished EXCEPT ![s] = @ \union {"send"}]
    /\ sender' = [sender EXCEPT ![s] = "outside"]
    /\ UNCHANGED <<fifo, choked, receiver, accepted, got, eof>>

SendWrite(s) ==
    /\ AtSend(s)
    /\ Reading(s) /\ HasRoom
    /\ fifo' = Append(fifo, [stream |-> s, n |-> accepted[s] + 1])
    /\ accepted' = [accepted EXCEPT ![s] = @ + 1]
    /\ sender' = [WakeSenders EXCEPT ![s] = "outside"]
    /\ receiver' = Wake(receiver)
    /\ UNCHANGED <<finished, choked, got, eof>>

SendFinish(s) ==
    /\ sender[s] = "outside"
    /\ finished' = [finished EXCEPT ![s] = @ \union {"send"}]
    /\ choked' = FALSE
    /\ sender' = WakeSenders
    /\ receiver' = Wake(receiver)
    /\ UNCHANGED <<fifo, accepted, got, eof>>

-----------------------------------------------------------------------------
(* tq_receive.  The whole of receive_locked is one step: it reads over the items
   of streams that are finished for receiving, gives out the first other one, and
   if there is none the end of a stream, the end of all of them, or nothing.     *)

AtReceive == receiver # "waiting"

(* A mistake: finished is tested as a whole, not for FINISHED_RECV. *)
DropsFinished(k) ==
    /\ \A i \in 1 .. k : finished[fifo[i].stream] # {}
    /\ k < Len(fifo) => finished[fifo[k + 1].stream] = {}

(* The first k items are read and dropped. *)
Drops(k) ==
    /\ \A i \in 1 .. k : ~Reading(fifo[i].stream)
    /\ k < Len(fifo) => Reading(fifo[k + 1].stream)

DropsAll == Drops(Len(fifo))

(* A mistake: only an item that is given out is worth a broadcast. *)
WakeNobody == sender

(* The consumer broadcasts when it has read something. *)
WakeIfRead == IF fifo = <<>> THEN sender ELSE WakeSenders

(* A mistake: no broadcast after an item that was read. *)
ReceiveItemSilent ==
    /\ AtReceive /\ ~choked
    /\ \E k \in 0 .. Len(fifo) - 1 :
        /\ Drops(k)
        /\ got' = [got EXCEPT ![fifo[k + 1].stream] = fifo[k + 1].n]
        /\ fifo' = SubSeq(fifo, k + 2, Len(fifo))
    /\ receiver' = "outside"
    /\ UNCHANGED <<finished, choked, sender, accepted, eof>>

ReceiveItem ==
    /\ AtReceive /\ ~choked
    /\ \E k \in 0 .. Len(fifo) - 1 :
        /\ Drops(k)
        /\ got' = [got EXCEPT ![fifo[k + 1].stream] = fifo[k + 1].n]
        /\ fifo' = SubSeq(fifo, k + 2, Len(fifo))
    /\ sender' = WakeSenders
    /\ receiver' = "outside"
    /\ UNCHANGED <<finished, choked, accepted, eof>>

(* The first stream that has ended for its producer only. *)
EndsNext(s) ==
    /\ finished[s] = {"send"}
    /\ \A r \in 1 .. s - 1 : finished[r] # {"send"}

ReceiveEof(s) ==
    /\ AtReceive /\ ~choked
    /\ DropsAll
    /\ EndsNext(s)
    /\ fifo' = <<>>
    /\ finished' = [finished EXCEPT ![s] = @ \union {"recv"}]
    /\ eof' = [eof EXCEPT ![s] = TRUE]
    /\ sender' = WakeIfRead
    /\ receiver' = "outside"
    /\ UNCHANGED <<choked, accepted, got>>

NothingEnds == \A s \in Streams : finished[s] # {"send"}
AllEnded == \A s \in Streams : ~Reading(s)

(* EOF of the whole queue. *)
ReceiveEnd ==
    /\ AtReceive /\ ~choked
    /\ DropsAll /\ AllEnded
    /\ fifo' = <<>>
    /\ sender' = WakeIfRead
    /\ receiver' = "outside"
    /\ UNCHANGED <<finished, choked, accepted, got, eof>>

ReceiveWait ==
    /\ AtReceive
    /\ \/ choked /\ UNCHANGED <<fifo, sender>>
       \/ /\ ~choked
          /\ DropsAll /\ NothingEnds /\ ~AllEnded
          /\ fifo' = <<>>
          /\ sender' = WakeIfRead
    /\ receiver' = "waiting"
    /\ UNCHANGED <<finished, choked, accepted, got, eof>>

(* The consumer wants no more of the stream. *)
ReceiveFinish(s) ==
    /\ receiver = "outside"
    /\ finished' = [finished EXCEPT ![s] = @ \union {"recv"}]
    /\ sender' = WakeSenders
    /\ UNCHANGED <<fifo, choked, receiver, accepted, got, eof>>

(* The scheduler holds the consumer back, or lets it go on. *)
Choke(c) ==
    /\ choked # c
    /\ choked' = c
    /\ sender' = WakeSenders
    /\ receiver' = Wake(receiver)
    /\ UNCHANGED <<fifo, finished, accepted, got, eof>>

-----------------------------------------------------------------------------
Send(s) == SendWait(s) \/ SendDrop(s) \/ SendWrite(s)
Receive == ReceiveItem \/ (\E s \in Streams : ReceiveEof(s)) \/ ReceiveEnd \/ ReceiveWait

Next ==
    \/ \E s \in Streams : Send(s) \/ SendFinish(s) \/ ReceiveFinish(s)
    \/ Receive
    \/ \E c \in BOOLEAN : Choke(c)

Spec == Init /\ [][Next]_vars

(* A thread that was woken gets the mutex, the consumer comes back for more, and
   every producer ends its stream some day (task_wrapper sees to that). *)
FairSpec ==
    /\ Spec
    /\ WF_vars(Receive)
    /\ \A s \in Streams : WF_vars(sender[s] = "woken" /\ Send(s)) /\ WF_vars(SendFinish(s))

-----------------------------------------------------------------------------
TypeOK ==
    /\ fifo \in Seq(Item)
    /\ Len(fifo) <= QueueSize
    /\ finished \in [Streams -> SUBSET {"send", "recv"}]
    /\ choked \in BOOLEAN
    /\ sender \in [Streams -> Where]
    /\ receiver \in Where
    /\ accepted \in [Streams -> 0 .. MaxItems]
    /\ got \in [Streams -> 0 .. MaxItems]
    /\ eof \in [Streams -> BOOLEAN]

(* No wake-up is lost on the one condition variable: a producer waits in tq_send
   only while the fifo is full and its stream is read, the consumer in tq_receive
   only while it is choked, or there is neither an item nor an end to give out. *)
NoLostWakeup ==
    /\ \A s \in Streams : sender[s] = "waiting" => Reading(s) /\ ~HasRoom
    /\ receiver = "waiting" => choked \/ (fifo = <<>> /\ NothingEnds /\ ~AllEnded)

Numbered ==
    \A i \in 1 .. Len(fifo) :
        /\ fifo[i].n <= accepted[fifo[i].stream]
        /\ Reading(fifo[i].stream) => got[fifo[i].stream] < fifo[i].n

Ordered ==
    \A i, j \in 1 .. Len(fifo) :
        i < j /\ fifo[i].stream = fifo[j].stream => fifo[i].n < fifo[j].n

Complete ==
    \A s \in Streams : Reading(s) =>
        \A n \in got[s] + 1 .. accepted[s] :
            \E i \in 1 .. Len(fifo) : fifo[i] = [stream |-> s, n |-> n]

Counted ==
    \A s \in Streams : got[s] <= accepted[s] /\ (sender[s] # "outside" => Sending(s))

(* The items of a stream that are still in the fifo are those accepted and not yet
   given out, in order; a producer inside of tq_send has not ended its stream. *)
Queued == Numbered /\ Ordered /\ Complete /\ Counted

(* Streams that share the fifo, the mutex and the end-of-file logic behave as
   channels of their own: no item is lost, doubled, reordered or given out after
   the end, and the end comes only after the last item. *)
C == INSTANCE Channels WITH
        Channel <- Streams,
        sent <- accepted,
        writing <- [s \in Streams |-> Sending(s)],
        reading <- [s \in Streams |-> Reading(s)],
        ended <- eof

ImplementsChannels == C!Spec

(* Once the consumer is not held back any more, whoever waits in tq_send or
   tq_receive returns: with one condition variable for everybody, a full fifo, an
   ended stream or a reader that gave up leaves nobody behind. *)
CallsReturn ==
    <>[]~choked =>
        /\ \A s \in Streams : sender[s] = "waiting" ~> sender[s] = "outside"
        /\ receiver = "waiting" ~> receiver = "outside"
=============================================================================
