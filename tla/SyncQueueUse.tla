----------------------------- MODULE SyncQueueUse ------------------------------
(* A sync queue as sync_queue_process of the muxer uses it
   (dependencies/ffmpeg/fftools/ffmpeg_mux.c): after every packet or end of a
   stream it takes out packets until there is none.  What the streams bring, and
   in which order, is left open: the packets of a stream come in the order of
   decoding, so that their ends may go up and down. *)
EXTENDS SyncQueue

CONSTANTS
    MaxTs,       \* bound: a packet ends at this time at the latest
    MaxPackets   \* bound: packets of a stream

ASSUME MaxAssumption == MaxTs \in Nat /\ MaxPackets \in Nat

VARIABLES
    q,       \* the queue
    phase,   \* "idle", "drain": in the loop around sq_receive, "beat": in the loop
             \* of overflow_heartbeat, "again": in the second try of one sq_receive,
             \* "eof": the queue has ended
    beat,    \* overflow_heartbeat: its stream and tail_ts, and the loop variable
    ended,   \* streams whose producer has signalled the end
    sent,    \* the packets sq_send has taken, by their ends, per stream
    given,   \* the packets sq_receive has given out, per stream
    faked    \* a heartbeat was faked

vars == <<q, phase, beat, ended, sent, given, faked>>

Init ==
    /\ q = sq_alloc
    /\ phase = "idle"
    /\ beat = [st |-> 1, tail |-> 0, next |-> 1]
    /\ ended = {}
    /\ sent = [s \in Stream |-> <<>>]
    /\ given = [s \in Stream |-> <<>>]
    /\ faked = FALSE

SendPacket(s, end) ==
    /\ phase = "idle" /\ s \notin ended
    /\ s \notin q.finished
    /\ end % TimeBase[s] = 0
    /\ Len(sent[s]) < MaxPackets
    /\ q' = sq_send(q, s, end)
    /\ sent' = [sent EXCEPT ![s] = Append(@, end)]
    /\ phase' = "drain"
    /\ UNCHANGED <<beat, ended, given, faked>>

SendEof(s) ==
    /\ phase = "idle" /\ s \notin ended
    /\ q' = finish_stream(q, s)
    /\ ended' = ended \union {s}
    /\ phase' = "drain"
    /\ UNCHANGED <<beat, sent, given, faked>>

Give(s) ==
    /\ phase \in {"drain", "again"}
    /\ s \in Released(q)
    /\ q' = sq_receive(q, s)
    /\ given' = [given EXCEPT ![s] = Append(@, Head(q.fifo[s]))]
    /\ phase' = "drain"
    /\ UNCHANGED <<beat, ended, sent, faked>>

Nothing(from) == phase \in from /\ Released(q) = {}

QueueEof ==
    /\ Nothing({"drain", "again"}) /\ Eof(q)
    /\ phase' = "eof"
    /\ UNCHANGED <<q, beat, ended, sent, given, faked>>

(* sq_receive fakes time stamps and tries again, once. *)
BeatStart ==
    /\ Nothing({"drain"}) /\ ~Eof(q) /\ Overflows(q)
    /\ beat' = [st |-> Ahead(q), tail |-> Head(q.fifo[Ahead(q)]), next |-> 1]
    /\ phase' = "beat"
    /\ faked' = TRUE
    /\ UNCHANGED <<q, ended, sent, given>>

Beat ==
    /\ phase = "beat"
    /\ q' = overflow_heartbeat(q, beat.st, beat.tail, beat.next)
    /\ IF beat.next = NbStreams
       THEN phase' = "again" /\ UNCHANGED beat
       ELSE beat' = [beat EXCEPT !.next = @ + 1] /\ UNCHANGED phase
    /\ UNCHANGED <<ended, sent, given, faked>>

(* EAGAIN: the user of the queue brings the next packet. *)
Again ==
    /\ ~Eof(q)
    /\ Nothing({"again"}) \/ (Nothing({"drain"}) /\ ~Overflows(q))
    /\ phase' = "idle"
    /\ UNCHANGED <<q, beat, ended, sent, given, faked>>

Next ==
    \/ \E s \in Stream, end \in 0 .. MaxTs : SendPacket(s, end)
    \/ \E s \in Stream : SendEof(s) \/ Give(s)
    \/ QueueEof \/ BeatStart \/ Beat \/ Again

Spec == Init /\ [][Next]_vars

-----------------------------------------------------------------------------
TypeOK ==
    /\ q \in SyncQueueType
    /\ phase \in {"idle", "drain", "beat", "again", "eof"}
    /\ beat \in [st : Stream, tail : 0 .. MaxTs, next : Stream]
    /\ ended \subseteq Stream
    /\ sent \in [Stream -> Seq(0 .. MaxTs)]
    /\ given \in [Stream -> Seq(Nat)]
    /\ faked \in BOOLEAN

(* head_stream is remembered, and looked for again only when that very stream
   moves: it is still the limiting stream that is furthest behind. *)
HeadIsTrailing == q.headStream = NoStream \/ q.headStream \in Trailing(q)

(* Stream s has come as far as e: one of its packets ends then or later. *)
Reaches(s, e) == \E i \in 1 .. Len(sent[s]) : e <= sent[s][i]

(* What ends at e lasts no longer than any limiting stream that has ended. *)
Within(e) == \A r \in ended \cap Limiting : Reaches(r, e)

(* -shortest: when the queue ends, every stream was given out whole up to its first
   packet that lasts longer than the shortest stream, and not further, whichever
   ended first and however far the others had come (as long as no heartbeat was
   faked); and no stream was told to stop before it had come that far. *)
ShortestCuts ==
    phase = "eof" /\ ~faked =>
        \A s \in Stream :
            /\ \A i \in 1 .. Len(given[s]) : given[s][i] = sent[s][i]
            /\ \A i \in 1 .. Len(sent[s]) :
                  i <= Len(given[s]) <=> \A k \in 1 .. i : Within(sent[s][k])
            /\ \/ s \in ended
               \/ \E r \in ended \cap Limiting :
                     sent[r] # <<>> /\ \A i \in 1 .. Len(sent[r]) : Reaches(s, sent[r][i])

(* A stream is told to stop as soon as it has come as far as one that has ended. *)
ToldToStop ==
    ~faked => \A s \in Stream \ q.finished, r \in ended \cap Limiting :
                 sent[r] # <<>> => \E i \in 1 .. Len(sent[r]) : ~Reaches(s, sent[r][i])

(* Of the two streams the one ahead waits for less than buf_size_us, unless it is cut
   off already or the other one has ended without a single packet; or else the time
   stamp faked for the other one was rounded down below the packet that waits, by less
   than half a unit of its time base: the next one, a unit later, lets it go. *)
Bounded ==
    phase = "idle" /\ (\A r \in ended : sent[r] # <<>>) =>
        \A s \in Stream \ q.finished :
            q.fifo[s] # <<>> =>
                \/ WaitsFor(q, s) < BufSize * Micro
                \/ \E r \in Limiting \ (q.finished \union {s}) :
                      /\ q.head[r] # NoPts
                      /\ 2 * (Head(q.fifo[s]) - q.head[r]) < q.tb[r]
=============================================================================
