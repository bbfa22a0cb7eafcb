------------------------------- MODULE Channels --------------------------------
(* What a thread queue of fftools promises its users: every stream is a channel
   of its own, whose writer and whose reader may each close it, and which ends
   for the reader when the writer has closed it and everything sent was got.
   Items are numbered per stream.  ThreadQueue implements this with one fifo,
   one mutex and one condition variable for all streams. *)
EXTENDS Integers

CONSTANT Channel

VARIABLES
    sent,      \* how many items the writer has put into a channel
    got,       \* the number of the last item the reader took out
    writing,   \* the writer has not closed it
    reading,   \* the reader has neither closed it nor seen its end
    ended      \* the reader has seen its end

vars == <<sent, got, writing, reading, ended>>

Init ==
    /\ sent = [c \in Channel |-> 0]
    /\ got = [c \in Channel |-> 0]
    /\ writing = [c \in Channel |-> TRUE]
    /\ reading = [c \in Channel |-> TRUE]
    /\ ended = [c \in Channel |-> FALSE]

(* tq_send accepts an item as long as neither side is closed. *)
Put(c) ==
    /\ writing[c] /\ reading[c]
    /\ sent' = [sent EXCEPT ![c] = @ + 1]
    /\ UNCHANGED <<got, writing, reading, ended>>

(* tq_receive gives the reader the next item. *)
Get(c) ==
    /\ reading[c]
    /\ got[c] < sent[c]
    /\ got' = [got EXCEPT ![c] = @ + 1]
    /\ UNCHANGED <<sent, writing, reading, ended>>

(* tq_send_finish; also a tq_send that is told that nobody reads any more. *)
Close(c) ==
    /\ writing[c]
    /\ writing' = [writing EXCEPT ![c] = FALSE]
    /\ UNCHANGED <<sent, got, reading, ended>>

(* tq_receive_finish: what is left in the channel is dropped. *)
Abandon(c) ==
    /\ reading[c]
    /\ reading' = [reading EXCEPT ![c] = FALSE]
    /\ UNCHANGED <<sent, got, writing, ended>>

(* tq_receive returns EOF for a stream. *)
End(c) ==
    /\ reading[c] /\ ~writing[c]
    /\ got[c] = sent[c]
    /\ reading' = [reading EXCEPT ![c] = FALSE]
    /\ ended' = [ended EXCEPT ![c] = TRUE]
    /\ UNCHANGED <<sent, got, writing>>

Next == \E c \in Channel : Put(c) \/ Get(c) \/ Close(c) \/ Abandon(c) \/ End(c)

Spec == Init /\ [][Next]_vars
=============================================================================
