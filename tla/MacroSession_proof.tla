-------------------------- MODULE MacroSession_proof ---------------------------
(* Proofs about the recorder: the ring of snapshots stays on the way the game   *)
(* has come, no replay is cut short, every macro is in order and says exactly   *)
(* what the game was given, and a replay gives it that again, in whatever order *)
(* sessions, replays, edits, steps back and level changes follow each other.    *)
EXTENDS MacroSession, FiniteSetTheorems, TLAPS

-------------------------------------------------------------------------------
(* Sequences of anything *)

(* What the game is given and what a snapshot holds does not matter here. *)
IsSeq(s) == \E S : s \in Seq(S)

(* Appending to a sequence. *)
LEMMA SeqAppend ==
    ASSUME NEW s, IsSeq(s), NEW x
    PROVE  /\ IsSeq(Append(s, x))
           /\ Len(s) \in Nat /\ Len(Append(s, x)) = Len(s) + 1
           /\ \A j \in 1 .. Len(s) : Append(s, x)[j] = s[j]
           /\ Append(s, x)[Len(s) + 1] = x
           /\ \A n \in 0 .. Len(s) : SubSeq(Append(s, x), 1, n) = SubSeq(s, 1, n)
<1>1. PICK S : s \in Seq(S)
    BY DEF IsSeq
<1> DEFINE T == S \cup {x}
<1>2. s \in Seq(T) /\ x \in T
    BY <1>1
<1> HIDE DEF T
<1>3. Append(s, x) \in Seq(T)
    BY <1>2
<1>4. /\ Len(s) \in Nat /\ Len(Append(s, x)) = Len(s) + 1
      /\ \A j \in 1 .. Len(s) : Append(s, x)[j] = s[j]
      /\ Append(s, x)[Len(s) + 1] = x
    BY <1>2
<1>5. ASSUME NEW n \in 0 .. Len(s)
      PROVE  SubSeq(Append(s, x), 1, n) = SubSeq(s, 1, n)
    BY <1>2, <1>3, <1>4
<1> QED
    BY <1>3, <1>4, <1>5 DEF IsSeq

(* The tail of a sequence. *)
LEMMA SeqTail ==
    ASSUME NEW s, IsSeq(s), Len(s) > 0
    PROVE  /\ IsSeq(Tail(s))
           /\ Len(s) \in Nat /\ Len(Tail(s)) = Len(s) - 1
           /\ \A j \in 1 .. Len(s) - 1 : Tail(s)[j] = s[j + 1]
<1>1. PICK S : s \in Seq(S)
    BY DEF IsSeq
<1>2. s # <<>> /\ Tail(s) \in Seq(S)
    BY <1>1
<1> QED
    BY <1>1, <1>2 DEF IsSeq

(* The beginning of a sequence, and of that. *)
LEMMA SeqPrefix ==
    ASSUME NEW s, IsSeq(s), NEW n \in 0 .. Len(s)
    PROVE  /\ IsSeq(SubSeq(s, 1, n)) /\ Len(SubSeq(s, 1, n)) = n
           /\ \A j \in 1 .. n : SubSeq(s, 1, n)[j] = s[j]
           /\ \A m \in 0 .. n : SubSeq(SubSeq(s, 1, n), 1, m) = SubSeq(s, 1, m)
           /\ n = Len(s) => SubSeq(s, 1, n) = s
<1>1. PICK S : s \in Seq(S)
    BY DEF IsSeq
<1>2. Len(s) \in Nat /\ n \in Nat
    BY <1>1
<1>3. SubSeq(s, 1, n) \in Seq(S) /\ Len(SubSeq(s, 1, n)) = n
    BY <1>1, <1>2
<1>4. \A j \in 1 .. n : SubSeq(s, 1, n)[j] = s[j]
    BY <1>1, <1>2, <1>3
<1>5. ASSUME NEW m \in 0 .. n
      PROVE  SubSeq(SubSeq(s, 1, n), 1, m) = SubSeq(s, 1, m)
    BY <1>1, <1>2, <1>3, <1>4
<1>6. n = Len(s) => SubSeq(s, 1, n) = s
    BY <1>1, <1>2, <1>3, <1>4
<1> QED
    BY <1>3, <1>4, <1>5, <1>6 DEF IsSeq

-------------------------------------------------------------------------------
(* The invariant *)

IsGame(g) == g = [log |-> g.log, paused |-> g.paused, won |-> g.won] /\ IsSeq(g.log)

IsShot(s) == s.frame \in Nat /\ IsGame(s.game)

(* What is restored has the form of what was captured. *)
Shapes ==
    /\ frame \in Nat
    /\ IsGame(game)
    /\ IsSeq(ring) /\ \A j \in 1 .. Len(ring) : IsShot(ring[j])

(* Who may switch recording, edit and practice, and when. *)
Control ==
    /\ practstack = <<>>
    /\ mode = "record" \/ ~Does("bridge") => recording
    /\ editmode => Does("edit")
    /\ requestpractice # "no" /\ mode = "play" => Does("edit")
    /\ requestpractice # "no" /\ Does("edit") => mode # "record"

(* A snapshot of a way the game has come, and of this one. *)
OnWay(shot, log) ==
    /\ shot.frame \in 0 .. Len(log)
    /\ shot.game.log = SubSeq(log, 1, shot.frame)

Rising(r) == \A i, j \in 1 .. Len(r) : i <= j => r[i].frame <= r[j].frame

Way(f, r, log) ==
    /\ f = Len(log)
    /\ \A j \in 1 .. Len(r) : OnWay(r[j], log)
    /\ Rising(r)

Going == mode \in {"record", "play"} /\ ~fresh

IInv == Shapes /\ Control /\ (Going => Way(frame, ring, game.log))

-------------------------------------------------------------------------------
(* The pieces of a step *)

(* Pushing the present on the ring keeps its shots, drops the oldest at most, and
   keeps a rising ring rising. *)
LEMMA PushShot ==
    ASSUME Shapes, NEW log, IsSeq(log)
    PROVE  LET r == Push(ring, Capture) IN
           /\ IsSeq(r) /\ \A j \in 1 .. Len(r) : IsShot(r[j])
           /\ (\A j \in 1 .. Len(ring) : OnWay(ring[j], log)) /\ OnWay(Capture, log)
                 => \A j \in 1 .. Len(r) : OnWay(r[j], log)
           /\ Rising(ring) /\ (\A j \in 1 .. Len(ring) : ring[j].frame <= frame)
                 => Rising(r)
<1> DEFINE a == Append(ring, Capture)
           r == Push(ring, Capture)
<1>1. IsShot(Capture) /\ Capture.frame = frame
    BY DEF Shapes, IsShot, Capture
<1>2. /\ IsSeq(a) /\ Len(ring) \in Nat /\ Len(a) = Len(ring) + 1
      /\ \A j \in 1 .. Len(ring) : a[j] = ring[j]
      /\ a[Len(ring) + 1] = Capture
    BY SeqAppend DEF Shapes
<1> HIDE DEF a
<1>3. \A j \in 1 .. Len(a) : j = Len(ring) + 1 \/ j \in 1 .. Len(ring)
    BY <1>2
<1>4. \A j \in 1 .. Len(a) : IsShot(a[j])
    BY <1>1, <1>2, <1>3 DEF Shapes
<1>5. (\A j \in 1 .. Len(ring) : OnWay(ring[j], log)) /\ OnWay(Capture, log)
         => \A j \in 1 .. Len(a) : OnWay(a[j], log)
    BY <1>2, <1>3
<1>6. ASSUME Rising(ring), \A j \in 1 .. Len(ring) : ring[j].frame <= frame
      PROVE  Rising(a)
    <2> SUFFICES ASSUME NEW i \in 1 .. Len(a), NEW j \in 1 .. Len(a), i <= j
                 PROVE  a[i].frame <= a[j].frame
        BY DEF Rising
    <2>1. CASE j = Len(ring) + 1
        <3>1. a[j].frame = frame /\ frame \in Nat
            BY <2>1, <1>1, <1>2 DEF Shapes
        <3>2. CASE i = j
            BY <3>1, <3>2
        <3>3. CASE i \in 1 .. Len(ring)
            BY <3>1, <3>3, <1>2, <1>6
        <3> QED
            BY <3>2, <3>3, <2>1, <1>3
    <2>2. CASE j \in 1 .. Len(ring)
        <3>1. i \in 1 .. Len(ring)
            BY <2>2, <1>2
        <3> QED
            BY <2>2, <3>1, <1>2, <1>6 DEF Rising
    <2> QED
        BY <2>1, <2>2, <1>3
<1>7. r = IF Len(a) > RingSize THEN Tail(a) ELSE a
    BY DEF Push, a
<1> HIDE DEF r
<1>8. CASE r = a
    BY <1>8, <1>2, <1>4, <1>5, <1>6 DEF r
<1>9. CASE r = Tail(a)
    <2>1. /\ IsSeq(r) /\ Len(r) = Len(a) - 1
          /\ \A j \in 1 .. Len(a) - 1 : r[j] = a[j + 1]
        BY <1>9, <1>2, SeqTail
    <2>2. \A j \in 1 .. Len(r) : j + 1 \in 1 .. Len(a) /\ r[j] = a[j + 1]
        BY <2>1, <1>2
    <2>3. Rising(a) => Rising(r)
        <3> SUFFICES ASSUME Rising(a), NEW i \in 1 .. Len(r), NEW j \in 1 .. Len(r), i <= j
                     PROVE  r[i].frame <= r[j].frame
            BY DEF Rising
        <3>1. i + 1 <= j + 1
            OBVIOUS
        <3> QED
            BY <3>1, <2>2 DEF Rising
    <2>4. \A j \in 1 .. Len(r) : IsShot(r[j])
        BY <2>2, <1>4
    <2>5. (\A j \in 1 .. Len(a) : OnWay(a[j], log)) => \A j \in 1 .. Len(r) : OnWay(r[j], log)
        BY <2>2
    <2> QED
        BY <2>1, <2>3, <2>4, <2>5, <1>5, <1>6 DEF r
<1> QED
    BY <1>7, <1>8, <1>9

(* The present is on the way, and a frame goes on from it. *)
LEMMA FrameWay ==
    ASSUME IInv, NEW in
    PROVE  LET log == Append(game.log, in)
               r == Push(ring, Capture)
           IN  /\ IsSeq(log)
               /\ IsSeq(r) /\ \A j \in 1 .. Len(r) : IsShot(r[j])
               /\ Going => Way(frame + 1, r, log) /\ Way(frame, r, game.log)
<1> DEFINE log == Append(game.log, in)
           r == Push(ring, Capture)
<1>1. /\ IsSeq(log) /\ IsSeq(game.log)
      /\ Len(game.log) \in Nat /\ Len(log) = Len(game.log) + 1
      /\ \A n \in 0 .. Len(game.log) : SubSeq(log, 1, n) = SubSeq(game.log, 1, n)
    BY SeqAppend DEF IInv, Shapes, IsGame
<1>2. SubSeq(game.log, 1, Len(game.log)) = game.log
    BY <1>1, SeqPrefix
<1>3. Capture.frame = frame /\ Capture.game.log = game.log
    BY DEF Capture
<1> HIDE DEF log
<1>4. IsSeq(r) /\ \A j \in 1 .. Len(r) : IsShot(r[j])
    BY <1>1, PushShot DEF IInv
<1>5. ASSUME Going
      PROVE  Way(frame + 1, r, log) /\ Way(frame, r, game.log)
    <2>1. Way(frame, ring, game.log)
        BY <1>5 DEF IInv
    <2>2. OnWay(Capture, game.log) /\ OnWay(Capture, log)
        BY <2>1, <1>1, <1>2, <1>3 DEF OnWay, Way
    <2>3. \A j \in 1 .. Len(ring) : OnWay(ring[j], game.log) /\ OnWay(ring[j], log)
        BY <2>1, <1>1 DEF OnWay, Way
    <2>4. \A j \in 1 .. Len(ring) : ring[j].frame <= frame
        BY <2>1 DEF OnWay, Way
    <2>5. Rising(r)
        BY <2>1, <2>4, <1>1, PushShot DEF Way, IInv
    <2>6. \A j \in 1 .. Len(r) : OnWay(r[j], log)
        BY <2>2, <2>3, <1>1, PushShot DEF IInv
    <2>7. \A j \in 1 .. Len(r) : OnWay(r[j], game.log)
        BY <2>2, <2>3, <1>1, PushShot DEF IInv
    <2> QED
        BY <2>1, <2>5, <2>6, <2>7, <1>1 DEF Way
<1> QED
    BY <1>1, <1>4, <1>5 DEF log

(* A new session and a new replay begin with an empty ring. *)
LEMMA Beginning ==
    /\ IsSeq(<<>>) /\ Len(<<>>) = 0
    /\ Way(0, <<>>, <<>>)
    /\ IsGame(NewGame)
<1>1. IsSeq(<<>>) /\ Len(<<>>) = 0
    <2>1. <<>> \in Seq({})
        OBVIOUS
    <2> QED
        BY <2>1 DEF IsSeq
<1> QED
    BY <1>1 DEF Way, Rising, OnWay, IsGame, NewGame

(* The newest snapshot is a state this way has been in, and the snapshots before it
   are on the way to it. *)
LEMMA BackWay ==
    ASSUME IInv, ring # <<>>
    PROVE  LET shot == Last(ring) IN
           /\ IsShot(shot)
           /\ IsSeq(Front(ring)) /\ \A j \in 1 .. Len(Front(ring)) : IsShot(Front(ring)[j])
           /\ Going => Way(shot.frame, Front(ring), shot.game.log)
<1> DEFINE shot == Last(ring)
           n == Len(ring) - 1
<1>1. IsSeq(ring) /\ IsSeq(game.log) /\ frame \in Nat
    BY DEF IInv, Shapes, IsGame
<1>2. Len(ring) \in Nat \ {0}
    BY <1>1 DEF IsSeq
<1>3. /\ n \in 0 .. Len(ring) /\ n = Len(ring) - 1
      /\ Front(ring) = SubSeq(ring, 1, n) /\ shot = ring[Len(ring)]
    BY <1>2 DEF Front, Last
<1> HIDE DEF n
<1>4. /\ IsSeq(Front(ring)) /\ Len(Front(ring)) = n
      /\ \A j \in 1 .. n : Front(ring)[j] = ring[j]
    BY <1>1, <1>3, SeqPrefix
<1>5. IsShot(shot) /\ \A j \in 1 .. n : IsShot(Front(ring)[j])
    BY <1>2, <1>3, <1>4 DEF IInv, Shapes
<1>6. ASSUME Going
      PROVE  Way(shot.frame, Front(ring), shot.game.log)
    <2>1. Way(frame, ring, game.log)
        BY <1>6 DEF IInv
    <2>2. OnWay(shot, game.log)
        BY <2>1, <1>2, <1>3 DEF Way
    <2>3. shot.frame \in 0 .. Len(game.log) /\ shot.game.log = SubSeq(game.log, 1, shot.frame)
        BY <2>2 DEF OnWay
    <2>4. Len(shot.game.log) = shot.frame
        BY <2>3, <1>1, SeqPrefix
    <2>5. ASSUME NEW j \in 1 .. n
          PROVE  OnWay(Front(ring)[j], shot.game.log)
        <3>1. OnWay(ring[j], game.log) /\ ring[j].frame <= shot.frame
            BY <2>1, <1>2, <1>3 DEF Way, Rising
        <3>2. ring[j].frame \in 0 .. shot.frame
            BY <3>1, <2>3 DEF OnWay
        <3>3. SubSeq(shot.game.log, 1, ring[j].frame) = SubSeq(game.log, 1, ring[j].frame)
            BY <3>2, <2>3, <1>1, SeqPrefix
        <3> QED
            BY <3>1, <3>2, <3>3, <2>4, <1>4 DEF OnWay
    <2>6. Rising(Front(ring))
        <3>1. \A j \in 1 .. n : j \in 1 .. Len(ring)
            BY <1>2, <1>3
        <3> QED
            BY <3>1, <2>1, <1>4 DEF Way, Rising
    <2> QED
        BY <2>4, <2>5, <2>6, <1>4 DEF Way
<1> QED
    BY <1>4, <1>5, <1>6

(* What the game makes of an input. *)
LEMMA RunsLog ==
    ASSUME IInv, NEW in, Runs(in)
    PROVE  /\ IsGame(game')
           /\ fresh' \/ (fresh' = fresh /\ game'.log = Append(game.log, in))
<1>1. /\ game = [log |-> game.log, paused |-> game.paused, won |-> game.won]
      /\ IsSeq(game.log) /\ IsSeq(Append(game.log, in))
    BY SeqAppend DEF IInv, Shapes, IsGame
<1>2. CASE game' = NewGame /\ fresh' = TRUE
    BY <1>2, Beginning
<1>3. CASE game' = [game EXCEPT !.log = Append(@, in)] /\ UNCHANGED fresh
    BY <1>1, <1>3 DEF IsGame
<1>4. CASE game' = [game EXCEPT !.log = Append(@, in), !.won = TRUE] /\ UNCHANGED fresh
    BY <1>1, <1>4 DEF IsGame
<1> QED
    BY <1>2, <1>3, <1>4 DEF Runs

-------------------------------------------------------------------------------
(* The actions *)

(* A step that touches neither the game nor the ring. *)
LEMMA StillInv ==
    ASSUME IInv, Control', UNCHANGED <<frame, ring, game>>, Going' => Going
    PROVE  IInv'
BY DEF IInv, Shapes, Way, Rising, OnWay

(* Nothing is recorded or replayed any more, or the level has restarted. *)
LEMMA NotGoingInv ==
    ASSUME Control', ~Going', Shapes'
    PROVE  IInv'
BY DEF IInv

LEMMA UserInv ==
    ASSUME IInv, OneRun, User
    PROVE  IInv'
<1>1. CASE StepBack
    <2>1. Control'
        BY <1>1 DEF StepBack, Control, IInv, Does, session, bound, replay, prac
    <2> QED
        BY <1>1, <2>1, StillInv DEF StepBack, Going, session, bound
<1>2. CASE PlayMacro
    <2>1. Control'
        BY <1>2 DEF PlayMacro, Control, IInv, Does, bound, prac
    <2> QED
        BY <1>2, <2>1, StillInv DEF PlayMacro, Going, bound
<1>3. CASE Practice
    <2>1. Control'
        BY <1>3 DEF Practice, Control, IInv, OneRun, Does, session, bound, prac
    <2> QED
        BY <1>3, <2>1, StillInv DEF Practice, Going, session, bound
<1>4. CASE Record /\ (recording \/ mode = "record")
    <2>1. Control'
        BY <1>4 DEF Record, Control, IInv, OneRun, Does, bound, prac, requests
    <2> QED
        BY <1>4, <2>1, StillInv DEF Record, Going, bound
<1>5. CASE Record /\ ~(recording \/ mode = "record")
    <2>1. Control'
        BY <1>5 DEF Record, StartSession, Control, IInv, OneRun, Does, bound, prac, requests
    <2>2. frame' = 0 /\ ring' = <<>> /\ game'.log = <<>> /\ IsGame(game')
        BY <1>5, Beginning DEF Record, StartSession, IInv, Shapes, IsGame
    <2> QED
        BY <2>1, <2>2, Beginning DEF IInv, Shapes
<1>6. CASE ChangeLevel
    <2>1. Control'
        BY <1>6 DEF ChangeLevel, Control, IInv, Does, bound
    <2>2. Shapes' /\ ~Going'
        BY <1>6, Beginning DEF ChangeLevel, Shapes, IInv, Going, bound
    <2> QED
        BY <2>1, <2>2, NotGoingInv
<1> QED
    BY <1>1, <1>2, <1>3, <1>4, <1>5, <1>6 DEF User

LEMMA TickInv ==
    ASSUME IInv, OneRun, Tick
    PROVE  IInv'
<1>1. CASE TickRestarted
    <2>1. Control'
        BY <1>1 DEF TickRestarted, EndPlayback, Control, IInv, Does, bound, prac, requests
    <2> QED
        BY <1>1, <2>1, StillInv DEF TickRestarted, EndPlayback, Going, bound
<1>2. CASE TickSession
    <2>1. Control'
        BY <1>2 DEF TickSession, SessionDue, StartSession, Control, IInv, Does, bound, prac, requests
    <2>2. frame' = 0 /\ ring' = <<>> /\ game'.log = <<>> /\ IsGame(game')
        BY <1>2, Beginning DEF TickSession, StartSession, IInv, Shapes, IsGame
    <2> QED
        BY <2>1, <2>2, Beginning DEF IInv, Shapes
<1>3. CASE TickSeen
    <2>1. Control'
        BY <1>3 DEF TickSeen, Control, IInv, Does, session, bound, prac, requests
    <2>2. mode \notin {"record", "play"} /\ mode' = mode
        BY <1>3 DEF TickSeen, SessionDue, Control, IInv, session
    <2> QED
        BY <1>3, <2>1, <2>2, StillInv DEF TickSeen, Going, session
<1>4. CASE TickWin
    <2>1. Control'
        BY <1>4 DEF TickWin, Control, IInv, Does, bound, prac, requests
    <2> QED
        BY <1>4, <2>1, StillInv DEF TickWin, Going, bound
<1>5. CASE TickWon
    <2>1. Control'
        BY <1>5 DEF TickWon, Control, IInv, Does, session, bound, prac, requests
    <2> QED
        BY <1>5, <2>1, StillInv DEF TickWon, Going, session
<1>6. CASE TickOver
    <2>1. Control'
        BY <1>6 DEF TickOver, EndPlayback, Control, IInv, Does, bound, prac, requests
    <2> QED
        BY <1>6, <2>1, StillInv DEF TickOver, EndPlayback, Going, bound
<1>7. CASE TickEdit
    <2>1. Control'
        BY <1>7 DEF TickEdit, Edit, ClearPractice, Control, IInv, OneRun, Does, bound
    <2>2. /\ UNCHANGED <<frame, ring, fresh>> /\ mode = "play"
          /\ game'.log = game.log /\ IsGame(game')
        BY <1>7 DEF TickEdit, IInv, Shapes, IsGame
    <2> QED
        BY <2>1, <2>2 DEF IInv, Shapes, Going
<1>8. CASE TickEditPractice
    BY <1>8 DEF TickEditPractice, Control, IInv
<1>9. CASE TickPractice
    <2>1. Control'
        BY <1>9 DEF TickPractice, ClearPractice, Control, IInv, Does, bound
    <2>2. Shapes' /\ ~Going'
        BY <1>9, Beginning DEF TickPractice, Shapes, IInv, Going, bound
    <2> QED
        BY <2>1, <2>2, NotGoingInv
<1>10. CASE TickRestart
    <2>1. Control'
        BY <1>10 DEF TickRestart, ClearPractice, Control, IInv, Does, bound
    <2>2. frame' = 0 /\ ring' = <<>> /\ game' = NewGame
        BY <1>10 DEF TickRestart
    <2> QED
        BY <2>1, <2>2, Beginning DEF IInv, Shapes, NewGame
<1>11. CASE TickBack
    <2>1. Control'
        BY <1>11 DEF TickBack, Control, IInv, Does, bound, prac
    <2>2. CASE ring = <<>>
        BY <1>11, <2>1, <2>2, StillInv DEF TickBack, Going, bound
    <2>3. CASE ring # <<>>
        <3>1. /\ ring' = Front(ring) /\ frame' = Last(ring).frame
              /\ game' = Last(ring).game /\ UNCHANGED <<mode, fresh>>
            BY <1>11, <2>3 DEF TickBack, Restore
        <3> QED
            BY <2>1, <2>3, <3>1, BackWay DEF IInv, Shapes, Going, IsShot
    <2> QED
        BY <2>2, <2>3
<1> QED
    BY <1>1, <1>2, <1>3, <1>4, <1>5, <1>6, <1>7, <1>8, <1>9, <1>10, <1>11 DEF Tick

(* A frame pushes the present and gives the game an input; if the level does not
   restart, the way goes on. *)
LEMMA FrameGoesOn ==
    ASSUME IInv, Control', NEW in, ring' = Push(ring, Capture), frame' = frame + 1, Runs(in),
           Going' /\ ~fresh => Going
    PROVE  IInv'
<1>1. IsGame(game') /\ (fresh' \/ (fresh' = fresh /\ game'.log = Append(game.log, in)))
    BY RunsLog
<1>2. Shapes'
    BY <1>1, FrameWay DEF IInv, Shapes
<1>3. ASSUME Going'
      PROVE  Way(frame', ring', game'.log)
    <2>1. ~fresh'
        BY <1>3 DEF Going
    <2>2. fresh' = fresh /\ game'.log = Append(game.log, in)
        BY <1>1, <2>1
    <2>3. ~fresh
        BY <2>1, <2>2
    <2>4. Going
        BY <1>3, <2>3
    <2> QED
        BY <2>2, <2>4, FrameWay
<1> QED
    BY <1>2, <1>3 DEF IInv

(* The same for a replay, which may be paused in the frame. *)
GivenNow(in) ==
    /\ ring' = Push(ring, Capture) /\ frame' = frame + 1 /\ mode' = mode
    /\ \/ Runs(in)
       \/ /\ game' = [game EXCEPT !.log = Append(@, in), !.paused = TRUE]
          /\ UNCHANGED fresh

LEMMA FramePlays ==
    ASSUME FramePlay
    PROVE  \E in : GivenNow(in)
<1> DEFINE q == StopAt(playm.events, playing.pos, frame)
           at == Play(playm.events, playing.pos, q, playing.at)
           P(in) == \/ Runs(in)
                    \/ /\ game' = [game EXCEPT !.log = Append(@, in), !.paused = TRUE]
                       /\ UNCHANGED fresh
<1>1. ring' = Push(ring, Capture) /\ frame' = frame + 1 /\ mode' = mode
    BY DEF FramePlay
<1>2. \E in \in Given(playm.events, q, at) : P(in)
    BY DEF FramePlay
<1>3. ASSUME NEW in, P(in)
      PROVE  GivenNow(in)
    BY <1>1, <1>3 DEF GivenNow
<1> HIDE DEF P
<1> QED
    BY <1>2, <1>3

LEMMA FrameInv ==
    ASSUME IInv, OneRun, Frame
    PROVE  IInv'
<1>1. CASE FrameRecord
    <2>1. Control'
        BY <1>1 DEF FrameRecord, Control, IInv, Does, bound, prac, requests
    <2>2. PICK in \in scenario.inputs : Runs(in)
        BY <1>1 DEF FrameRecord
    <2> QED
        BY <1>1, <2>1, <2>2, FrameGoesOn DEF FrameRecord, Going, bound
<1>2. CASE FramePlay
    <2>1. Control'
        BY <1>2 DEF FramePlay, Control, IInv, Does, bound, prac, requests
    <2>2. PICK in : GivenNow(in)
        BY <1>2, FramePlays
    <2> USE DEF GivenNow
    <2>3. CASE Runs(in)
        BY <2>1, <2>2, <2>3, FrameGoesOn DEF Going
    <2>4. CASE game' = [game EXCEPT !.log = Append(@, in), !.paused = TRUE] /\ UNCHANGED fresh
        <3>1. IsGame(game') /\ game'.log = Append(game.log, in)
            BY <2>4, FrameWay DEF IInv, Shapes, IsGame
        <3> QED
            BY <3>1, <2>1, <2>2, <2>4, FrameWay DEF IInv, Shapes, Going
    <2> QED
        BY <2>2, <2>3, <2>4
<1>3. CASE FramePaused
    <2>1. Control'
        BY <1>3 DEF FramePaused, Control, IInv, Does, session, bound, prac, requests
    <2>2. /\ ring' = Push(ring, Capture) /\ UNCHANGED <<frame, mode, fresh>>
          /\ IsGame(game') /\ game'.log = game.log
        BY <1>3 DEF FramePaused, session, IInv, Shapes, IsGame
    <2> QED
        BY <2>1, <2>2, FrameWay DEF IInv, Shapes, Going
<1>4. CASE FrameEnd
    <2>1. Control'
        BY <1>4 DEF FrameEnd, EndPlayback, Control, IInv, Does, bound, prac, requests
    <2> QED
        BY <1>4, <2>1, FrameGoesOn DEF FrameEnd, EndPlayback, Going, bound
<1>5. CASE FrameIdle
    <2>1. Control'
        BY <1>5 DEF FrameIdle, Control, IInv, Does, bound, prac, requests
    <2>2. IsGame(game') /\ ~Going'
        BY <1>5, Beginning DEF FrameIdle, IInv, Shapes, IsGame, Going, bound
    <2>3. Shapes'
        BY <1>5, <2>2, FrameWay DEF FrameIdle, IInv, Shapes
    <2> QED
        BY <2>1, <2>2, <2>3, NotGoingInv
<1>6. CASE FramePractice \/ FrameRespawn
    <2>1. practstack = <<>> /\ Len(practstack) = 0 /\ scenario.points = 0
        BY Beginning DEF IInv, Control, OneRun
    <2> QED
        BY <1>6, <2>1 DEF FramePractice, FrameRespawn, PlacePoint, ErasePoint, ArmRespawn
<1> QED
    BY <1>1, <1>2, <1>3, <1>4, <1>5, <1>6 DEF Frame

LEMMA InitInv == Init => IInv
<1> SUFFICES ASSUME Init PROVE IInv
    OBVIOUS
<1>1. Shapes
    BY Beginning DEF Init, Shapes
<1>2. Control
    BY DEF Init, Control
<1> QED
    BY <1>1, <1>2 DEF Init, IInv, Going

(* The scenario never changes. *)
LEMMA SameScenario == [Next]_vars => scenario' = scenario
<1>1. User => scenario' = scenario
    BY DEF User, StepBack, PlayMacro, Practice, Record, StartSession, ChangeLevel, session, bound
<1>2. Tick => scenario' = scenario
    BY DEF Tick, TickRestarted, TickSession, StartSession, TickSeen, TickWin, TickWon, TickOver,
           TickEdit, TickEditPractice, TickPractice, TickRestart, TickBack, session, bound
<1>3. Frame => scenario' = scenario
    BY DEF Frame, FrameRecord, FramePlay, FramePaused, FrameEnd, FrameIdle, FramePractice,
           FrameRespawn, session, bound
<1> QED
    BY <1>1, <1>2, <1>3 DEF Next, vars, session, bound

(* The invariant of the argument: while the run, the frames and the recorder go
   together, frame counter, game and ring agree. *)
THEOREM Invariant == Spec => [](OneRun => IInv)
<1>1. Init => (OneRun => IInv)
    BY InitInv
<1>2. (OneRun => IInv) /\ [Next]_vars => (OneRun => IInv)'
    <2> SUFFICES ASSUME OneRun => IInv, [Next]_vars, OneRun'
                 PROVE  IInv'
        OBVIOUS
    <2>1. OneRun
        BY SameScenario DEF OneRun, Does
    <2>2. CASE User
        BY <2>1, <2>2, UserInv
    <2>3. CASE Tick
        BY <2>1, <2>3, TickInv
    <2>4. CASE Frame
        BY <2>1, <2>4, FrameInv
    <2>5. CASE UNCHANGED vars
        <3>1. Control'
            BY <2>1, <2>5 DEF vars, session, bound, prac, requests, IInv, Control, Does
        <3>2. UNCHANGED <<frame, ring, game>> /\ (Going' => Going)
            BY <2>5 DEF vars, session, Going
        <3> QED
            BY <2>1, <3>1, <3>2, StillInv
    <2> QED
        BY <2>2, <2>3, <2>4, <2>5 DEF Next
<1> QED
    BY <1>1, <1>2, PTL DEF Spec

(* A step back leads to a state this run of the level has been in: stack.step pushes
   and pops snapshots, restore rewinds, startsession and a replay clear the ring. *)
THEOREM OneTimelineAlways == Spec => []OneTimeline
<1>1. (OneRun => IInv) => OneTimeline
    <2> SUFFICES ASSUME IInv, Going, NEW j \in 1 .. Len(ring)
                 PROVE  /\ ring[j].frame <= frame
                        /\ ring[j].game.log = SubSeq(game.log, 1, ring[j].frame)
        BY DEF OneTimeline, Going
    <2> QED
        BY DEF IInv, Way, OnWay
<1> QED
    BY <1>1, Invariant, PTL

-------------------------------------------------------------------------------
(* No replay is cut short *)

Direct == ~Does("rollback") /\ ~Does("bridge")

(* The end timer belongs to a replay that is won; a replay waits for no other one, and
   whoever asks to edit it has paused it before it was won. *)
Timer ==
    /\ mode = "play" =>
           game = [log |-> game.log, paused |-> game.paused, won |-> game.won]
    /\ pendingrollback = 0
    /\ playend => mode = "play" /\ (game.won \/ fresh)
    /\ mode = "play" => ~requestrestart
    /\ mode = "play" /\ requestpractice # "no" => ~game.won

LEMMA RunsTimer ==
    ASSUME Timer, mode = "play", NEW in, Runs(in)
    PROVE  /\ game' = [log |-> game'.log, paused |-> game'.paused, won |-> game'.won]
           /\ game.won \/ fresh => game'.won \/ fresh'
<1>1. game = [log |-> game.log, paused |-> game.paused, won |-> game.won]
    BY DEF Timer
<1>2. CASE game' = NewGame /\ fresh' = TRUE
    BY <1>2 DEF NewGame
<1>3. CASE game' = [game EXCEPT !.log = Append(@, in)] /\ UNCHANGED fresh
    BY <1>1, <1>3
<1>4. CASE game' = [game EXCEPT !.log = Append(@, in), !.won = TRUE] /\ UNCHANGED fresh
    BY <1>1, <1>4
<1> QED
    BY <1>2, <1>3, <1>4 DEF Runs

LEMMA UserTimer ==
    ASSUME Timer, Direct, User
    PROVE  Timer'
<1>1. CASE StepBack
    BY <1>1 DEF StepBack, Direct
<1>2. CASE PlayMacro
    BY <1>2 DEF PlayMacro, Direct, Timer, replay
<1>3. CASE Practice
    BY <1>3 DEF Practice, Timer, session, replay
<1>4. CASE Record
    BY <1>4 DEF Record, Direct
<1>5. CASE ChangeLevel
    BY <1>5 DEF ChangeLevel, Timer, NewGame
<1> QED
    BY <1>1, <1>2, <1>3, <1>4, <1>5 DEF User

LEMMA TickTimer ==
    ASSUME Timer, Direct, Tick
    PROVE  Timer'
<1>1. CASE TickRestarted \/ TickOver
    BY <1>1 DEF TickRestarted, TickOver, EndPlayback, Timer, requests
<1>2. CASE TickSession
    BY <1>2 DEF TickSession, StartSession, Timer, replay, requests
<1>3. CASE TickSeen
    BY <1>3 DEF TickSeen, Timer, session, replay, requests
<1>4. CASE TickWon
    BY <1>4 DEF TickWon, WonDue, Timer, session, requests
<1>5. CASE TickEdit
    BY <1>5 DEF TickEdit, Edit, Settled, Timer, replay
<1>6. CASE TickEditPractice \/ TickPractice
    BY <1>6 DEF TickEditPractice, TickPractice, Timer, NewGame, session, replay
<1>7. CASE TickRestart
    BY <1>7 DEF TickRestart, Timer, NewGame
<1>8. CASE TickBack
    BY <1>8 DEF TickBack, Timer
<1>9. CASE TickWin
    BY <1>9 DEF TickWin, WinDue, Timer, replay, requests
<1> QED
    BY <1>1, <1>2, <1>3, <1>4, <1>5, <1>6, <1>7, <1>8, <1>9 DEF Tick

LEMMA FrameTimer ==
    ASSUME Timer, Direct, Frame
    PROVE  Timer'
<1>1. CASE FrameRecord
    BY <1>1 DEF FrameRecord, Timer, replay, requests, bound
<1>2. CASE FramePlay
    BY <1>2, RunsTimer DEF FramePlay, FrameDue, Served, Timer, requests
<1>3. CASE FramePaused
    BY <1>3 DEF FramePaused, Served, Timer, session, replay, requests
<1>4. CASE FrameEnd
    BY <1>4, RunsTimer DEF FrameEnd, EndPlayback, FrameDue, Served, Timer, requests
<1>5. CASE FrameIdle
    BY <1>5 DEF FrameIdle, Timer, NewGame, replay, requests
<1>6. CASE FramePractice
    BY <1>6 DEF FramePractice, PlacePoint, ErasePoint, ArmRespawn, Timer, replay, requests, bound
<1>7. CASE FrameRespawn
    BY <1>7 DEF FrameRespawn, Timer, replay, requests, bound
<1> QED
    BY <1>1, <1>2, <1>3, <1>4, <1>5, <1>6, <1>7 DEF Frame

THEOREM TimerAlways == Spec => [](Direct => Timer)
<1>1. Init => (Direct => Timer)
    BY DEF Init, Timer, NewGame
<1>2. (Direct => Timer) /\ [Next]_vars => (Direct => Timer)'
    <2> SUFFICES ASSUME Direct => Timer, [Next]_vars, Direct'
                 PROVE  Timer'
        OBVIOUS
    <2>1. Direct /\ Timer
        BY SameScenario DEF Direct, Does
    <2>2. CASE Next
        BY <2>1, <2>2, UserTimer, TickTimer, FrameTimer DEF Next
    <2>3. CASE UNCHANGED vars
        BY <2>1, <2>3 DEF vars, session, replay, requests, Timer
    <2> QED
        BY <2>2, <2>3
<1> QED
    BY <1>1, <1>2, PTL DEF Spec

(* A replay ends when the level is won, its macro is over, or the user restarts or
   leaves the level: t.playend is of this replay and not of an earlier one. *)
THEOREM NotCutShortAlways == Spec => NotCutShort
<1> DEFINE Short == mode = "play" /\ mode' = "idle" /\ ~Does("rollback") /\ ~Does("bridge")
           Why == \/ game.won \/ frame >= playm.length
                  \/ fresh \/ requestrestart' \/ macro' = NoMacro
<1>1. (Direct => Timer) /\ [Next]_vars => [Short => Why]_vars
    <2> SUFFICES ASSUME Timer, Next, mode = "play", mode' = "idle", Direct
                 PROVE  Why
        BY DEF Direct
    <2>1. CASE User
        BY <2>1 DEF User, StepBack, PlayMacro, Practice, Record, ChangeLevel, Direct, session
    <2>2. CASE Tick
        BY <2>2 DEF Tick, TickRestarted, TickSession, TickSeen, TickWin, WinDue, TickWon, TickOver,
                    TickEdit, Edit, TickEditPractice, TickPractice, TickRestart, TickBack,
                    Timer, session
    <2>3. CASE Frame
        BY <2>3 DEF Frame, FrameRecord, FramePlay, FramePaused, FrameEnd, FrameIdle,
                    FramePractice, FrameRespawn, session
    <2> QED
        BY <2>1, <2>2, <2>3 DEF Next
<1> QED
    BY <1>1, TimerAlways, PTL DEF Spec, NotCutShort

-------------------------------------------------------------------------------
(* Sets and sequences *)

(* Every set of naturals that is not empty has a least member. *)
LEMMA LeastIn ==
    ASSUME NEW S, S \subseteq Nat, S # {}
    PROVE  \E m \in S : \A y \in S : m <= y
<1>1. PICK m \in S : \A y \in S : ~ (<<y, m>> \in OpToRel(<, Nat))
    BY NatLessThanWellFounded, WFMin
<1>2. \A y \in S : ~ (y < m)
    BY <1>1 DEF OpToRel
<1> QED
    BY <1>2

(* A bounded one has a greatest member. *)
LEMMA GreatestIn ==
    ASSUME NEW n \in Nat, NEW S, S \subseteq 0 .. n, S # {}
    PROVE  \E m \in S : \A y \in S : y <= m
<1> DEFINE T == {n - y : y \in S}
<1>1. T \subseteq Nat /\ T # {}
    <2>1. \A y \in S : n - y \in Nat
        OBVIOUS
    <2> QED
        BY <2>1
<1>2. PICK k \in T : \A y \in T : k <= y
    BY <1>1, LeastIn
<1>3. PICK m \in S : k = n - m
    OBVIOUS
<1>4. ASSUME NEW y \in S
      PROVE  y <= m
    <2>1. n - y \in T
        OBVIOUS
    <2>2. n - m <= n - y
        BY <2>1, <1>2, <1>3
    <2> QED
        BY <2>2
<1> QED
    BY <1>4

(* A function on 1 .. n is a sequence. *)
LEMMA FcnSeq ==
    ASSUME NEW n \in Nat, NEW s, s = [j \in 1 .. n |-> s[j]]
    PROVE  IsSeq(s) /\ Len(s) = n
<1> DEFINE S == {s[j] : j \in 1 .. n}
<1>1. s \in [1 .. n -> S]
    OBVIOUS
<1> HIDE DEF S
<1>2. s \in Seq(S)
    BY <1>1
<1> QED
    BY <1>1, <1>2 DEF IsSeq

LEMMA SeqLen ==
    ASSUME NEW s, IsSeq(s)
    PROVE  Len(s) \in Nat /\ DOMAIN s = 1 .. Len(s) /\ s = [j \in 1 .. Len(s) |-> s[j]]
BY DEF IsSeq

(* A concatenation. *)
LEMMA SeqConcat ==
    ASSUME NEW s, NEW t, IsSeq(s), IsSeq(t)
    PROVE  /\ IsSeq(s \o t)
           /\ Len(s) \in Nat /\ Len(t) \in Nat
           /\ Len(s \o t) = Len(s) + Len(t)
           /\ \A j \in 1 .. Len(s) : (s \o t)[j] = s[j]
           /\ \A j \in 1 .. Len(t) : (s \o t)[Len(s) + j] = t[j]
<1>1. PICK S : s \in Seq(S)
    BY DEF IsSeq
<1>2. PICK T : t \in Seq(T)
    BY DEF IsSeq
<1> DEFINE U == S \cup T
<1>3. s \in Seq(U) /\ t \in Seq(U)
    BY <1>1, <1>2
<1> HIDE DEF U
<1>4. s \o t \in Seq(U)
    BY <1>3
<1> QED
    BY <1>3, <1>4 DEF IsSeq

(* SetToSeq lists a finite set, each member once. *)
LEMMA Listed ==
    ASSUME NEW S, IsFiniteSet(S)
    PROVE  LET l == SetToSeq(S) IN
           /\ Cardinality(S) \in Nat
           /\ l \in [1 .. Cardinality(S) -> S]
           /\ \A m, n \in 1 .. Cardinality(S) : l[m] = l[n] => m = n
           /\ \A x \in S : \E n \in 1 .. Cardinality(S) : l[n] = x
<1> DEFINE D == 1 .. Cardinality(S)
           l == SetToSeq(S)
<1>1. Cardinality(S) \in Nat /\ ExistsBijection(D, S)
    BY FS_CardinalityType
<1>2. PICK b : b \in Bijection(D, S)
    BY <1>1 DEF ExistsBijection
<1>3. b \in [D -> S] /\ IsInjective(b)
    BY <1>2 DEF Bijection, Injection
<1>4. l \in [D -> S] /\ IsInjective(l)
    BY <1>3 DEF SetToSeq
<1>5. l \in Injection(D, S)
    BY <1>4 DEF Injection
<1>6. IsFiniteSet(D) /\ Cardinality(D) = Cardinality(S)
    BY <1>1, FS_Interval
<1>7. l \in Surjection(D, S)
    BY <1>5, <1>6, FS_Injection
<1> QED
    BY <1>1, <1>4, <1>7 DEF Surjection, IsInjective

-------------------------------------------------------------------------------
(* Macros in order *)

(* The events are noted in the order of their frames. *)
Ordered(events) ==
    /\ IsSeq(events)
    /\ \A j \in 1 .. Len(events) : events[j].at \in Nat
    /\ \A j, k \in 1 .. Len(events) : j <= k => events[j].at <= events[k].at

LEMMA OrderedShape ==
    ASSUME NEW events, Ordered(events)
    PROVE  /\ Len(events) \in Nat
           /\ \A j \in 1 .. Len(events) : events[j].at \in Nat
           /\ \A j, k \in 1 .. Len(events) : j <= k => events[j].at <= events[k].at
BY SeqLen DEF Ordered

(* The first places are those of a prefix. *)
LEMMA Prefix ==
    ASSUME NEW events, IsSeq(events), NEW c \in 0 .. Len(events)
    PROVE  Those(events, 1 .. c) = SubSeq(events, 1, c)
<1> DEFINE nth(n) == CHOOSE j \in 1 .. c : Cardinality({k \in 1 .. c : k <= j}) = n
           s == SubSeq(events, 1, c)
<1>0. Len(events) \in Nat /\ c \in Nat
    BY SeqLen
<1>1. Cardinality(1 .. c) = c
    BY <1>0, FS_Interval
<1>2. IsSeq(s) /\ Len(s) = c /\ \A j \in 1 .. c : s[j] = events[j]
    BY SeqPrefix
<1>3. s = [n \in 1 .. c |-> s[n]]
    BY <1>2, SeqLen
<1>4. ASSUME NEW n \in 1 .. c
      PROVE  nth(n) = n
    <2>1. \A j \in 1 .. c : {k \in 1 .. c : k <= j} = 1 .. j
        OBVIOUS
    <2>2. \A j \in 1 .. c : Cardinality(1 .. j) = j
        BY FS_Interval
    <2>3. \A j \in 1 .. c : Cardinality({k \in 1 .. c : k <= j}) = j
        BY <2>1, <2>2
    <2> QED
        BY <2>3
<1>5. Those(events, 1 .. c) = [n \in 1 .. Cardinality(1 .. c) |-> events[nth(n)]]
    BY DEF Those
<1> HIDE DEF nth, s
<1> QED
    BY <1>1, <1>2, <1>3, <1>4, <1>5

(* Where the events of a frame begin: what rebuildplaystate finds, and what the filter
   of restore and edit keeps. *)
LEMMA Parted ==
    ASSUME NEW events, Ordered(events), NEW f \in Nat
    PROVE  LET q == RebuiltAt(events, f) IN
           /\ q \in 1 .. Len(events) + 1
           /\ \A j \in 1 .. q - 1 : events[j].at < f
           /\ \A j \in q .. Len(events) : events[j].at >= f
           /\ Before(events, f) = SubSeq(events, 1, q - 1)
<1> DEFINE n == Len(events)
           P(q) == /\ \A j \in 1 .. q - 1 : events[j].at < f
                   /\ q <= n => events[q].at >= f
           late == {j \in 1 .. n + 1 : j = n + 1 \/ events[j].at >= f}
           r == RebuiltAt(events, f)
<1>0. /\ n \in Nat /\ \A j \in 1 .. n : events[j].at \in Nat
      /\ \A j, k \in 1 .. n : j <= k => events[j].at <= events[k].at
    BY OrderedShape
<1> HIDE DEF n
<1>1. \E q \in 1 .. n + 1 : P(q)
    <2>1. n + 1 \in late /\ late \subseteq Nat
        BY <1>0
    <2>2. PICK q \in late : \A y \in late : q <= y
        BY <2>1, LeastIn
    <2>3. q \in 1 .. n + 1 /\ (q <= n => events[q].at >= f)
        BY <1>0, <2>2
    <2>4. ASSUME NEW j \in 1 .. q - 1
          PROVE  events[j].at < f
        <3>1. j \notin late /\ j \in 1 .. n
            BY <2>2, <2>3, <1>0
        <3> QED
            BY <3>1, <1>0
    <2> QED
        BY <2>3, <2>4
<1>2. r = CHOOSE q \in 1 .. n + 1 : P(q)
    BY DEF RebuiltAt, n
<1> HIDE DEF r
<1>3. r \in 1 .. n + 1 /\ P(r)
    BY <1>1, <1>2
<1>4. ASSUME NEW j \in r .. n
      PROVE  events[j].at >= f
    <2>1. r \in 1 .. n /\ j \in 1 .. n /\ r <= j
        BY <1>0, <1>3
    <2>2. events[r].at >= f /\ events[r].at <= events[j].at
        BY <1>0, <1>3, <2>1
    <2> QED
        BY <1>0, <2>1, <2>2
<1>5. {j \in 1 .. n : events[j].at < f} = 1 .. r - 1
    <2>1. ASSUME NEW j \in 1 .. n
          PROVE  events[j].at < f <=> j \in 1 .. r - 1
        <3>1. CASE j \in r .. n
            BY <1>4, <3>1, <1>0, <1>3
        <3>2. CASE j \in 1 .. r - 1
            BY <1>3, <3>2
        <3> QED
            BY <3>1, <3>2, <1>0, <1>3
    <2> QED
        BY <2>1, <1>0, <1>3
<1>6. Before(events, f) = Those(events, 1 .. r - 1)
    BY <1>5 DEF Before, n
<1>7. r - 1 \in 0 .. n
    BY <1>0, <1>3
<1>8. Before(events, f) = SubSeq(events, 1, r - 1)
    BY <1>6, <1>7, Prefix DEF Ordered, n
<1> QED
    BY <1>3, <1>4, <1>8 DEF r, n

(* What is kept is in order, and before that frame. *)
LEMMA Kept ==
    ASSUME NEW events, Ordered(events), NEW f \in Nat
    PROVE  /\ Ordered(Before(events, f))
           /\ \A j \in 1 .. Len(Before(events, f)) : Before(events, f)[j].at < f
<1> DEFINE q == RebuiltAt(events, f)
           b == Before(events, f)
<1>1. /\ q \in 1 .. Len(events) + 1
      /\ \A j \in 1 .. q - 1 : events[j].at < f
      /\ b = SubSeq(events, 1, q - 1)
    BY Parted
<1>2. IsSeq(events) /\ Len(events) \in Nat
    BY SeqLen DEF Ordered
<1> HIDE DEF q, b
<1>3. q - 1 \in 0 .. Len(events)
    BY <1>1, <1>2
<1>4. IsSeq(b) /\ Len(b) = q - 1 /\ \A j \in 1 .. q - 1 : b[j] = events[j]
    BY <1>1, <1>2, <1>3, SeqPrefix
<1>5. \A j \in 1 .. Len(b) : j \in 1 .. Len(events) /\ b[j] = events[j] /\ b[j].at < f
    BY <1>1, <1>3, <1>4, <1>2
<1>6. Ordered(b)
    BY <1>4, <1>5 DEF Ordered
<1> QED
    BY <1>5, <1>6 DEF b

(* playframe goes on to the events of the next frame. *)
LEMMA Stopped ==
    ASSUME NEW events, Ordered(events), NEW f \in Nat, NEW pos \in 1 .. Len(events) + 1,
           \A j \in 1 .. pos - 1 : events[j].at < f,
           \A j \in pos .. Len(events) : events[j].at >= f
    PROVE  LET q == StopAt(events, pos, f) IN
           /\ q \in pos .. Len(events) + 1
           /\ \A j \in 1 .. q - 1 : events[j].at < f + 1
           /\ \A j \in q .. Len(events) : events[j].at >= f + 1
<1> DEFINE n == Len(events)
           P(q) == /\ \A j \in pos .. q - 1 : events[j].at = f
                   /\ q <= n => events[q].at # f
           other == {j \in pos .. n + 1 : j = n + 1 \/ events[j].at # f}
           r == StopAt(events, pos, f)
<1>0. /\ n \in Nat /\ \A j \in 1 .. n : events[j].at \in Nat
      /\ \A j, k \in 1 .. n : j <= k => events[j].at <= events[k].at
    BY OrderedShape
<1>00. pos \in 1 .. n + 1 /\ \A j \in pos .. n : events[j].at >= f
    OBVIOUS
<1> HIDE DEF n
<1>1. \E q \in pos .. n + 1 : P(q)
    <2>1. n + 1 \in other /\ other \subseteq Nat
        BY <1>0, <1>00
    <2>2. PICK q \in other : \A y \in other : q <= y
        BY <2>1, LeastIn
    <2>3. q \in pos .. n + 1 /\ (q <= n => events[q].at # f)
        BY <1>0, <1>00, <2>2
    <2>4. ASSUME NEW j \in pos .. q - 1
          PROVE  events[j].at = f
        <3>1. j \notin other /\ j \in pos .. n
            BY <2>2, <2>3, <1>0, <1>00
        <3> QED
            BY <3>1, <1>0
    <2> QED
        BY <2>3, <2>4
<1>2. r = CHOOSE q \in pos .. n + 1 : P(q)
    BY DEF StopAt, n
<1> HIDE DEF r
<1>3. r \in pos .. n + 1 /\ P(r)
    BY <1>1, <1>2
<1>4. ASSUME NEW j \in 1 .. r - 1
      PROVE  events[j].at < f + 1
    <2>1. CASE j \in 1 .. pos - 1
        <3>1. events[j].at < f /\ events[j].at \in Nat
            BY <2>1, <1>0, <1>00
        <3> QED
            BY <3>1
    <2>2. CASE j \in pos .. r - 1
        BY <2>2, <1>3
    <2> QED
        BY <2>1, <2>2, <1>00, <1>3
<1>5. ASSUME NEW j \in r .. n
      PROVE  events[j].at >= f + 1
    <2>1. r \in 1 .. n /\ j \in 1 .. n /\ r <= j /\ r \in pos .. n
        BY <1>0, <1>00, <1>3
    <2>2. events[r].at # f /\ events[r].at >= f /\ events[r].at <= events[j].at
        BY <1>0, <1>00, <1>3, <2>1
    <2>3. events[r].at \in Nat /\ events[j].at \in Nat
        BY <1>0, <2>1
    <2> QED
        BY <2>2, <2>3
<1> QED
    BY <1>3, <1>4, <1>5 DEF r, n

(* recordframe notes every item that changed, once, at this frame. *)
LEMMA Noted ==
    ASSUME NEW in, IsInput(in)
    PROVE  LET c == Changes(in) IN
           /\ IsSeq(c) /\ Len(c) \in Nat
           /\ \A n \in 1 .. Len(c) :
                 /\ c[n].at = frame /\ c[n].of \in Items /\ c[n].to = in[c[n].of]
                 /\ in[c[n].of] # prev[c[n].of]
           /\ \A m, n \in 1 .. Len(c) : c[m].of = c[n].of => m = n
           /\ \A i \in Items : in[i] # prev[i] => \E n \in 1 .. Len(c) : c[n].of = i
<1> DEFINE S == {i \in Items : in[i] # prev[i]}
           l == SetToSeq(S)
           c == Changes(in)
           k == Cardinality(S)
<1>1. IsFiniteSet(S)
    <2>1. IsFiniteSet({"mouse", "cursor"})
        <3>1. IsFiniteSet({}) /\ {"mouse", "cursor"} = ({} \cup {"mouse"}) \cup {"cursor"}
            BY FS_EmptySet
        <3>2. IsFiniteSet({} \cup {"mouse"})
            BY <3>1, FS_AddElement
        <3>3. IsFiniteSet(({} \cup {"mouse"}) \cup {"cursor"})
            BY <3>2, FS_AddElement
        <3> QED
            BY <3>1, <3>3
    <2>2. IsFiniteSet(Items)
        BY <2>1, KeysAssumption, FS_Union DEF Items
    <2>3. S \in SUBSET Items
        OBVIOUS
    <2> QED
        BY <2>2, <2>3, FS_Subset
<1>2. /\ k \in Nat /\ l \in [1 .. k -> S]
      /\ \A m, n \in 1 .. k : l[m] = l[n] => m = n
      /\ \A x \in S : \E n \in 1 .. k : l[n] = x
    BY <1>1, Listed
<1>3. c = [n \in DOMAIN l |-> [at |-> frame, of |-> l[n], to |-> in[l[n]]]]
    BY DEF Changes
<1> HIDE DEF c, l, k
<1>4. c = [n \in 1 .. k |-> [at |-> frame, of |-> l[n], to |-> in[l[n]]]]
    BY <1>2, <1>3
<1>5. \A n \in 1 .. k : c[n] = [at |-> frame, of |-> l[n], to |-> in[l[n]]]
    BY <1>4
<1>6. IsSeq(c) /\ Len(c) = k
    BY <1>2, <1>4, FcnSeq
<1>7. /\ \A n \in 1 .. k : c[n].at = frame /\ c[n].of = l[n] /\ c[n].to = in[l[n]]
      /\ \A n \in 1 .. k : l[n] \in S
    <2> HIDE DEF S
    <2>1. ASSUME NEW n \in 1 .. k
          PROVE  c[n].at = frame /\ c[n].of = l[n] /\ c[n].to = in[l[n]]
        <3>1. c[n] = [at |-> frame, of |-> l[n], to |-> in[l[n]]]
            BY <1>5
        <3> DEFINE x == l[n]
                   y == in[l[n]]
        <3>2. c[n] = [at |-> frame, of |-> x, to |-> y]
            BY <3>1
        <3> HIDE DEF x, y
        <3>3. c[n].at = frame /\ c[n].of = x /\ c[n].to = y
            BY <3>2
        <3> QED
            BY <3>3 DEF x, y
    <2>2. \A n \in 1 .. k : l[n] \in S
        BY <1>2
    <2> QED
        BY <2>1, <2>2
<1>8. \A n \in 1 .. k : l[n] \in Items /\ in[l[n]] # prev[l[n]]
    BY <1>7
<1>9. \A m, n \in 1 .. k : c[m].of = c[n].of => m = n
    BY <1>2, <1>7
<1>10. ASSUME NEW i \in Items, in[i] # prev[i]
       PROVE  \E n \in 1 .. k : c[n].of = i
    <2>1. i \in S
        BY <1>10
    <2>2. PICK n \in 1 .. k : l[n] = i
        BY <2>1, <1>2
    <2> QED
        BY <2>2, <1>7
<1> HIDE DEF S
<1> QED
    BY <1>2, <1>6, <1>7, <1>8, <1>9, <1>10 DEF c

-------------------------------------------------------------------------------
(* No event is noted late *)

IsMac(m) == m = [events |-> m.events, length |-> m.length] /\ Ordered(m.events)

(* Every macro is in order, and what is being recorded lies behind the frame. *)
Chronicle ==
    /\ scenario \in Scenarios
    /\ IsMac(macro) /\ IsMac(playable) /\ IsMac(playm)
    /\ frame \in Nat
    /\ IsSeq(ring) /\ \A j \in 1 .. Len(ring) : ring[j].frame \in Nat
    /\ IsSeq(practstack) /\ \A j \in 1 .. Len(practstack) : practstack[j].frame \in Nat
    /\ mode = "record" => \A j \in 1 .. Len(macro.events) : macro.events[j].at < frame

(* The events of a frame follow those of the frames before it. *)
LEMMA Noting ==
    ASSUME NEW events, Ordered(events), frame \in Nat,
           \A j \in 1 .. Len(events) : events[j].at < frame,
           NEW in, IsInput(in)
    PROVE  LET e == events \o Changes(in) IN
           /\ Ordered(e)
           /\ \A j \in 1 .. Len(e) : e[j].at < frame + 1
<1> DEFINE c == Changes(in)
           e == events \o c
           n == Len(events)
<1>1. IsSeq(c) /\ Len(c) \in Nat /\ \A j \in 1 .. Len(c) : c[j].at = frame
    BY Noted
<1>2. /\ IsSeq(events) /\ n \in Nat
      /\ \A j \in 1 .. n : events[j].at \in Nat
      /\ \A j, k \in 1 .. n : j <= k => events[j].at <= events[k].at
    BY OrderedShape DEF Ordered
<1> HIDE DEF c
<1>3. /\ IsSeq(e) /\ Len(e) = n + Len(c)
      /\ \A j \in 1 .. n : e[j] = events[j]
      /\ \A j \in 1 .. Len(c) : e[n + j] = c[j]
    BY <1>1, <1>2, SeqConcat
<1> HIDE DEF e
<1>4. \A j \in 1 .. n : events[j].at < frame
    OBVIOUS
<1> HIDE DEF n
<1>5. ASSUME NEW j \in n + 1 .. Len(e)
      PROVE  e[j].at = frame
    <2>1. j - n \in 1 .. Len(c) /\ n + (j - n) = j
        BY <1>1, <1>2, <1>3
    <2>2. e[n + (j - n)] = c[j - n]
        BY <2>1, <1>3
    <2> QED
        BY <2>1, <2>2, <1>1
<1>6. \A j \in 1 .. Len(e) : j \in 1 .. n \/ j \in n + 1 .. Len(e)
    BY <1>2
<1>7. ASSUME NEW j \in 1 .. Len(e)
      PROVE  e[j].at \in Nat /\ e[j].at < frame + 1
    <2>1. CASE j \in 1 .. n
        <3>1. e[j] = events[j] /\ events[j].at \in Nat /\ events[j].at < frame
            BY <1>2, <1>3, <1>4, <2>1
        <3> QED
            BY <3>1
    <2>2. CASE j \in n + 1 .. Len(e)
        BY <1>5, <2>2
    <2> QED
        BY <2>1, <2>2, <1>6
<1>8. ASSUME NEW j \in 1 .. Len(e), NEW k \in 1 .. Len(e), j <= k
      PROVE  e[j].at <= e[k].at
    <2>1. CASE k \in n + 1 .. Len(e)
        <3>1. e[k].at = frame /\ e[j].at < frame + 1 /\ e[j].at \in Nat
            BY <1>5, <1>7, <2>1
        <3> QED
            BY <3>1
    <2>2. CASE k \in 1 .. n
        <3>1. j \in 1 .. n
            BY <2>2, <1>2, <1>8
        <3> QED
            BY <3>1, <2>2, <1>2, <1>3, <1>8
    <2> QED
        BY <2>1, <2>2, <1>6
<1> QED
    BY <1>3, <1>7, <1>8 DEF Ordered, e, c

LEMMA NoEvents ==
    /\ Ordered(<<>>) /\ Len(<<>>) = 0
    /\ IsMac(NoMacro) /\ IsMac([events |-> <<>>, length |-> 0])
<1>1. Ordered(<<>>) /\ Len(<<>>) = 0
    BY Beginning DEF Ordered
<1> QED
    BY <1>1 DEF IsMac, NoMacro

(* The newest snapshot, and the ones below it. *)
LEMMA Popped ==
    ASSUME NEW s, IsSeq(s), s # <<>>
    PROVE  /\ Len(s) \in Nat /\ 0 < Len(s) /\ Last(s) = s[Len(s)]
           /\ IsSeq(Front(s)) /\ Len(Front(s)) = Len(s) - 1
           /\ \A j \in 1 .. Len(s) - 1 : Front(s)[j] = s[j]
<1>1. Len(s) \in Nat /\ 0 < Len(s)
    BY DEF IsSeq
<1>2. Len(s) - 1 \in 0 .. Len(s) /\ Front(s) = SubSeq(s, 1, Len(s) - 1)
    BY <1>1 DEF Front
<1> QED
    BY <1>1, <1>2, SeqPrefix DEF Last

(* The ring after a push: the newest is the present, the others were there. *)
LEMMA Pushed ==
    ASSUME NEW s, IsSeq(s), NEW x
    PROVE  LET r == Push(s, x) IN
           /\ IsSeq(r) /\ Len(r) \in Nat /\ 0 < Len(r)
           /\ Len(s) \in Nat /\ (Len(s) <= RingSize => Len(r) <= RingSize)
           /\ \A j \in 1 .. Len(r) : r[j] = x \/ \E k \in 1 .. Len(s) : r[j] = s[k]
<1> DEFINE a == Append(s, x)
           r == Push(s, x)
<1>0. RingSize \in Nat /\ 0 < RingSize
    BY RingAssumption
<1>1. /\ IsSeq(a) /\ Len(s) \in Nat /\ Len(a) = Len(s) + 1
      /\ \A j \in 1 .. Len(s) : a[j] = s[j]
      /\ a[Len(s) + 1] = x
    BY SeqAppend
<1>2. r = IF Len(a) > RingSize THEN Tail(a) ELSE a
    BY DEF Push
<1> HIDE DEF a, r
<1>3. \A j \in 1 .. Len(a) : a[j] = x \/ \E k \in 1 .. Len(s) : a[j] = s[k]
    <2> TAKE j \in 1 .. Len(a)
    <2>1. j = Len(s) + 1 \/ j \in 1 .. Len(s)
        BY <1>1
    <2> QED
        BY <2>1, <1>1
<1>4. CASE Len(a) > RingSize
    <2>1. /\ IsSeq(r) /\ Len(r) = Len(a) - 1
          /\ \A j \in 1 .. Len(a) - 1 : r[j] = a[j + 1]
        BY <1>0, <1>1, <1>2, <1>4, SeqTail
    <2>2. \A j \in 1 .. Len(r) : r[j] = a[j + 1] /\ j + 1 \in 1 .. Len(a)
        BY <2>1, <1>1
    <2>3. Len(r) \in Nat /\ 0 < Len(r)
        BY <2>1, <1>0, <1>1, <1>4
    <2>4. Len(s) <= RingSize => Len(r) <= RingSize
        BY <2>1, <1>0, <1>1, <1>4
    <2> QED
        BY <2>1, <2>2, <2>3, <2>4, <1>1, <1>3 DEF r
<1>5. CASE ~(Len(a) > RingSize)
    BY <1>0, <1>1, <1>2, <1>3, <1>5 DEF r
<1> QED
    BY <1>4, <1>5

LEMMA PushedFrames ==
    ASSUME Chronicle
    PROVE  /\ IsSeq(Push(ring, Capture))
           /\ \A j \in 1 .. Len(Push(ring, Capture)) : Push(ring, Capture)[j].frame \in Nat
<1>1. Capture.frame = frame
    BY DEF Capture
<1> QED
    BY <1>1, Pushed DEF Chronicle

(* A step that records nothing and begins no replay. *)
LEMMA ChronicleStill ==
    ASSUME Chronicle, UNCHANGED <<scenario, macro, playable, playm>>,
           frame' \in Nat,
           IsSeq(ring') /\ \A j \in 1 .. Len(ring') : ring'[j].frame \in Nat,
           IsSeq(practstack') /\ \A j \in 1 .. Len(practstack') : practstack'[j].frame \in Nat,
           mode' = "record" => mode = "record" /\ frame' = frame
    PROVE  Chronicle'
BY DEF Chronicle

LEMMA UserChronicle ==
    ASSUME Chronicle, User
    PROVE  Chronicle'
<1>0. IsMac(NoMacro) /\ IsMac([events |-> <<>>, length |-> 0]) /\ Len(<<>>) = 0 /\ IsSeq(<<>>)
    BY NoEvents, Beginning
<1>1. CASE StepBack
    BY <1>1, ChronicleStill DEF StepBack, session, bound, replay, prac, taken, Chronicle
<1>2. CASE PlayMacro
    BY <1>2, ChronicleStill DEF PlayMacro, bound, replay, prac, taken, Chronicle
<1>3. CASE Practice
    BY <1>3, ChronicleStill DEF Practice, session, bound, replay, prac, taken, Chronicle
<1>4. CASE Record /\ (recording \/ mode = "record")
    BY <1>4 DEF Record, Take, bound, replay, prac, taken, Chronicle
<1>5. CASE Record /\ ~(recording \/ mode = "record")
    <2>1. /\ macro' = [events |-> <<>>, length |-> 0] /\ frame' = 0 /\ ring' = <<>>
          /\ UNCHANGED <<scenario, playable, playm, practstack>>
        BY <1>5 DEF Record, StartSession, bound, replay, prac, taken
    <2> QED
        BY <2>1, <1>0 DEF Chronicle
<1>6. CASE ChangeLevel
    <2>1. /\ macro' = NoMacro /\ mode' = "idle" /\ practstack' = <<>>
          /\ UNCHANGED <<scenario, playable, playm, frame, ring>>
        BY <1>6 DEF ChangeLevel, bound, replay, taken
    <2> QED
        BY <2>1, <1>0 DEF Chronicle
<1> QED
    BY <1>1, <1>2, <1>3, <1>4, <1>5, <1>6 DEF User

LEMMA TickChronicle ==
    ASSUME Chronicle, Tick
    PROVE  Chronicle'
<1>0. IsMac(NoMacro) /\ IsMac([events |-> <<>>, length |-> 0]) /\ Len(<<>>) = 0 /\ IsSeq(<<>>)
    BY NoEvents, Beginning
<1>1. CASE TickRestarted \/ TickOver
    BY <1>1, ChronicleStill DEF TickRestarted, TickOver, EndPlayback, bound, prac, taken, Chronicle
<1>2. CASE TickSession
    <2>1. /\ macro' = [events |-> <<>>, length |-> 0] /\ frame' = 0 /\ ring' = <<>>
          /\ UNCHANGED <<scenario, playable, playm, practstack>>
        BY <1>2 DEF TickSession, StartSession, bound, replay, prac, taken
    <2> QED
        BY <2>1, <1>0 DEF Chronicle
<1>3. CASE TickSeen
    BY <1>3, ChronicleStill DEF TickSeen, session, bound, replay, prac, taken, Chronicle
<1>4. CASE TickWin
    BY <1>4 DEF TickWin, Take, bound, replay, prac, Chronicle
<1>5. CASE TickWon
    BY <1>5, ChronicleStill DEF TickWon, session, bound, prac, taken, Chronicle
<1>6. CASE TickEdit
    <2>1. /\ macro' = [events |-> Before(playm.events, frame), length |-> frame]
          /\ practstack' = <<>>
          /\ UNCHANGED <<scenario, playable, playm, frame, ring>>
        BY <1>6 DEF TickEdit, Edit, ClearPractice, bound, replay, taken
    <2>2. /\ Ordered(Before(playm.events, frame))
          /\ \A j \in 1 .. Len(Before(playm.events, frame)) : Before(playm.events, frame)[j].at < frame
        BY Kept DEF Chronicle, IsMac
    <2> HIDE DEF Chronicle
    <2>3. IsMac(macro') /\ \A j \in 1 .. Len(macro'.events) : macro'.events[j].at < frame
        BY <2>1, <2>2 DEF IsMac
    <2> QED
        BY <2>1, <2>3, <1>0 DEF Chronicle
<1>7. CASE TickEditPractice
    BY <1>7, <1>0, ChronicleStill DEF TickEditPractice, ClearPractice, session, bound, replay,
                                      taken, Chronicle
<1>8. CASE TickPractice
    BY <1>8, <1>0, ChronicleStill DEF TickPractice, ClearPractice, bound, replay, taken, Chronicle
<1>9. CASE TickRestart
    <2>1. /\ frame' = 0 /\ ring' = <<>> /\ practstack' = <<>> /\ mode' = "play"
          /\ playm' = playable /\ UNCHANGED <<scenario, macro, playable>>
        BY <1>9 DEF TickRestart, ClearPractice, bound, taken
    <2> QED
        BY <2>1, <1>0 DEF Chronicle
<1>10. CASE TickBack
    <2>1. UNCHANGED <<scenario, mode, playable, playm, practstack>>
        BY <1>10 DEF TickBack, bound, prac, taken
    <2>2. CASE ring = <<>>
        BY <1>10, <2>1, <2>2, ChronicleStill DEF TickBack, Chronicle
    <2>3. CASE ring # <<>>
        <3> DEFINE snap == Last(ring)
        <3>1. /\ ring' = Front(ring) /\ frame' = snap.frame
              /\ macro' = IF mode = "record"
                          THEN [macro EXCEPT !.events = Before(macro.events, snap.frame)]
                          ELSE macro
            BY <1>10, <2>3 DEF TickBack, Restore
        <3>2. /\ Len(ring) \in Nat /\ 0 < Len(ring) /\ snap = ring[Len(ring)]
              /\ IsSeq(Front(ring)) /\ Len(Front(ring)) = Len(ring) - 1
              /\ \A j \in 1 .. Len(ring) - 1 : Front(ring)[j] = ring[j]
            BY <2>3, Popped DEF Chronicle
        <3> HIDE DEF snap
        <3>3. snap.frame \in Nat
            BY <3>2 DEF Chronicle
        <3>4. IsSeq(ring') /\ \A j \in 1 .. Len(ring') : ring'[j].frame \in Nat
            BY <3>1, <3>2 DEF Chronicle
        <3>5. CASE mode = "record"
            <4> DEFINE b == Before(macro.events, snap.frame)
            <4>1. Ordered(b) /\ \A j \in 1 .. Len(b) : b[j].at < snap.frame
                BY <3>3, Kept DEF Chronicle, IsMac
            <4>2. macro = [events |-> macro.events, length |-> macro.length]
                BY DEF Chronicle, IsMac
            <4>3. macro' = [macro EXCEPT !.events = b]
                BY <3>1, <3>5
            <4> HIDE DEF b
            <4>4. macro' = [events |-> b, length |-> macro.length]
                BY <4>2, <4>3
            <4>5. IsMac(macro') /\ macro'.events = b
                BY <4>1, <4>4 DEF IsMac
            <4> QED
                BY <2>1, <3>1, <3>3, <3>4, <4>1, <4>5 DEF Chronicle
        <3>6. CASE mode # "record"
            BY <2>1, <3>1, <3>3, <3>4, <3>6, ChronicleStill DEF Chronicle
        <3> QED
            BY <3>5, <3>6
    <2> QED
        BY <2>2, <2>3
<1> QED
    BY <1>1, <1>2, <1>3, <1>4, <1>5, <1>6, <1>7, <1>8, <1>9, <1>10 DEF Tick

(* A frame that is recorded. *)
LEMMA RecordedChronicle ==
    ASSUME Chronicle, mode = "record", NEW in \in scenario.inputs
    PROVE  /\ Ordered(macro.events \o Changes(in))
           /\ \A j \in 1 .. Len(macro.events \o Changes(in)) :
                 (macro.events \o Changes(in))[j].at < frame + 1
<1>1. IsInput(in)
    BY ScenariosAssumption DEF Chronicle
<1> QED
    BY <1>1, Noting DEF Chronicle, IsMac

LEMMA FrameChronicle ==
    ASSUME Chronicle, Frame
    PROVE  Chronicle'
<1>0. /\ IsSeq(Push(ring, Capture))
      /\ \A j \in 1 .. Len(Push(ring, Capture)) : Push(ring, Capture)[j].frame \in Nat
    BY PushedFrames
<1>1. CASE FrameRecord \/ FramePractice
    <2>1. PICK in \in scenario.inputs : RecordFrame(in)
        BY <1>1 DEF FrameRecord, FramePractice
    <2>2. /\ frame' = frame + 1 /\ ring' = Push(ring, Capture) /\ mode = "record"
          /\ UNCHANGED <<scenario, playable, playm>>
        BY <1>1 DEF FrameRecord, FramePractice, bound, replay, taken
    <2> DEFINE e == macro.events \o Changes(in)
    <2>3. Ordered(e) /\ \A j \in 1 .. Len(e) : e[j].at < frame + 1
        BY <2>2, RecordedChronicle
    <2>4. macro' = [events |-> e, length |-> frame + 1]
        BY <2>1 DEF RecordFrame
    <2> HIDE DEF e
    <2>5. IsMac(macro') /\ macro'.events = e
        BY <2>3, <2>4 DEF IsMac
    <2>6. IsSeq(practstack') /\ \A j \in 1 .. Len(practstack') : practstack'[j].frame \in Nat
        <3>0. IsSeq(practstack) /\ \A j \in 1 .. Len(practstack) : practstack[j].frame \in Nat
            BY DEF Chronicle
        <3>1. CASE practstack' = practstack
            BY <3>0, <3>1
        <3>2. ASSUME NEW x, practstack' = Append(practstack, x), x.frame = frame
              PROVE  IsSeq(practstack') /\ \A j \in 1 .. Len(practstack') : practstack'[j].frame \in Nat
            <4>1. /\ IsSeq(practstack') /\ Len(practstack) \in Nat
                  /\ Len(practstack') = Len(practstack) + 1
                  /\ \A j \in 1 .. Len(practstack) : practstack'[j] = practstack[j]
                  /\ practstack'[Len(practstack) + 1] = x
                BY <3>0, <3>2, SeqAppend
            <4>2. \A j \in 1 .. Len(practstack') : j = Len(practstack) + 1 \/ j \in 1 .. Len(practstack)
                BY <4>1
            <4> QED
                BY <4>1, <4>2, <3>0, <3>2 DEF Chronicle
        <3>3. CASE practstack # <<>> /\ practstack' = Front(practstack)
            BY <3>0, <3>3, Popped
        <3>4. CASE FrameRecord
            BY <3>1, <3>4 DEF FrameRecord, prac
        <3>5. CASE FramePractice
            <4>1. PICK h \in scenario.inputs : PlacePoint(h) \/ ErasePoint(h) \/ ArmRespawn(h)
                BY <3>5 DEF FramePractice
            <4>2. CASE PlacePoint(h)
                <5> DEFINE x == [frame |-> frame, rec |-> TRUE, keys |-> h, game |-> game']
                <5>1. practstack' = Append(practstack, x) /\ x.frame = frame
                    BY <4>2 DEF PlacePoint
                <5> QED
                    BY <5>1, <3>2
            <4>3. CASE ErasePoint(h)
                BY <4>3, <3>3 DEF ErasePoint
            <4>4. CASE ArmRespawn(h)
                BY <4>4, <3>1 DEF ArmRespawn
            <4> QED
                BY <4>1, <4>2, <4>3, <4>4
        <3> QED
            BY <3>4, <3>5, <1>1
    <2> QED
        BY <1>0, <2>2, <2>3, <2>5, <2>6 DEF Chronicle
<1>2. CASE FramePlay \/ FrameIdle
    <2>1. /\ UNCHANGED <<scenario, macro, playable, playm, practstack>>
          /\ ring' = Push(ring, Capture) /\ frame' = frame + 1
          /\ mode' # "record"
        BY <1>2 DEF FramePlay, FrameIdle, bound, prac, replay, taken
    <2> QED
        BY <1>0, <2>1, ChronicleStill DEF Chronicle
<1>3. CASE FramePaused
    BY <1>0, <1>3, ChronicleStill DEF FramePaused, session, bound, prac, replay, taken, Chronicle
<1>4. CASE FrameEnd
    BY <1>0, <1>4, ChronicleStill DEF FrameEnd, EndPlayback, bound, prac, taken, Chronicle
<1>5. CASE FrameRespawn
    <2> DEFINE snap == Last(practstack)
    <2>1. PICK in \in scenario.inputs :
             macro' = [events |-> Before(macro.events \o Changes(in), snap.frame),
                       length |-> frame + 1]
        BY <1>5 DEF FrameRespawn
    <2>2. /\ frame' = snap.frame + 1 /\ ring' = Push(ring, Capture) /\ mode = "record"
          /\ practstack # <<>> /\ UNCHANGED <<scenario, playable, playm, practstack>>
        BY <1>5 DEF FrameRespawn, bound, replay, taken
    <2>3. snap.frame \in Nat
        BY <2>2, Popped DEF Chronicle
    <2> DEFINE b == Before(macro.events \o Changes(in), snap.frame)
    <2> HIDE DEF snap
    <2>4. Ordered(b) /\ \A j \in 1 .. Len(b) : b[j].at < snap.frame
        BY <2>2, <2>3, RecordedChronicle, Kept
    <2>5. macro' = [events |-> b, length |-> frame + 1]
        BY <2>1
    <2> HIDE DEF b
    <2>6. IsMac(macro') /\ macro'.events = b
        BY <2>4, <2>5 DEF IsMac
    <2>7. b = b /\ Len(b) \in Nat /\ \A j \in 1 .. Len(b) : b[j].at \in Nat
        BY <2>4, OrderedShape
    <2>8. \A j \in 1 .. Len(b) : b[j].at < snap.frame + 1
        BY <2>3, <2>4, <2>7
    <2> QED
        BY <1>0, <2>2, <2>3, <2>6, <2>8 DEF Chronicle
<1> QED
    BY <1>1, <1>2, <1>3, <1>4, <1>5 DEF Frame

LEMMA ChronicleInit == Init => Chronicle
BY NoEvents, Beginning DEF Init, Chronicle

LEMMA ChronicleNext ==
    ASSUME Chronicle, [Next]_vars
    PROVE  Chronicle'
<1>1. CASE Next
    BY <1>1, UserChronicle, TickChronicle, FrameChronicle DEF Next
<1>2. CASE UNCHANGED vars
    BY <1>2 DEF vars, session, bound, replay, prac, taken, Chronicle
<1> QED
    BY <1>1, <1>2

THEOREM ChronicleAlways == Spec => []Chronicle
BY ChronicleInit, ChronicleNext, PTL DEF Spec

(* No event is noted late: recordframe, restore, respawn and the editor keep every
   macro in the order of its frames. *)
THEOREM EventsInOrderAlways == Spec => []EventsInOrder
<1>1. Chronicle => EventsInOrder
    <2> SUFFICES ASSUME Chronicle, mode = "record"
                 PROVE  /\ \A j \in 1 .. Len(macro.events) : macro.events[j].at < frame
                        /\ \A j \in 1 .. Len(macro.events) - 1 :
                               macro.events[j].at <= macro.events[j + 1].at
        BY DEF EventsInOrder
    <2>1. /\ Len(macro.events) \in Nat
          /\ \A j, k \in 1 .. Len(macro.events) : j <= k => macro.events[j].at <= macro.events[k].at
        BY OrderedShape DEF Chronicle, IsMac
    <2>2. \A j \in 1 .. Len(macro.events) - 1 :
             j \in 1 .. Len(macro.events) /\ j + 1 \in 1 .. Len(macro.events) /\ j <= j + 1
        BY <2>1
    <2> QED
        BY <2>1, <2>2 DEF Chronicle
<1> QED
    BY <1>1, ChronicleAlways, PTL

-------------------------------------------------------------------------------
(* Types *)

(* The values of an item in scenario s, and what is made of them. *)
ValueIn(s, i) == {in[i] : in \in s.inputs} \cup {Nothing[i]}

Values(s, at) == at = [i \in Items |-> at[i]] /\ \A i \in Items : at[i] \in ValueIn(s, i)

Events(s, events) ==
    \A j \in 1 .. Len(events) :
        /\ events[j].at \in 0 .. s.frames
        /\ events[j].of \in Items /\ events[j].to \in ValueIn(s, events[j].of)

MacroIn(s, m) == m = NoMacro \/ (m.length \in 0 .. s.frames /\ Events(s, m.events))

(* A snapshot: one of a checkpoint is taken before its frame is counted. *)
ShotIn(s, x, uncounted) ==
    /\ x.frame \in 0 .. s.frames /\ x.frame + uncounted <= s.frames
    /\ x.rec \in BOOLEAN /\ Values(s, x.keys)
    /\ IsGame(x.game) /\ Len(x.game.log) <= x.frame + uncounted

Modes ==
    /\ mode \in {"idle", "record", "play"} /\ recording \in BOOLEAN
    /\ practice \in BOOLEAN /\ awaitrespawn \in BOOLEAN /\ editmode \in BOOLEAN
    /\ pendingrollback \in 0 .. scenario.back
    /\ requestrestart \in BOOLEAN /\ requestpractice \in {"no", "on", "off"}
    /\ fresh \in BOOLEAN /\ playend \in BOOLEAN

Macros ==
    /\ MacroIn(scenario, macro) /\ MacroIn(scenario, playable) /\ MacroIn(scenario, playm)
    /\ mode = "record" => macro # NoMacro
    /\ mode = "play" => playm # NoMacro
    /\ requestrestart => playable # NoMacro

HeldNow ==
    /\ Values(scenario, prev) /\ Values(scenario, playing.at)
    /\ playing.pos \in 1 .. Len(playm.events) + 1

Shots ==
    /\ frame \in 0 .. scenario.frames
    /\ IsGame(game) /\ Len(game.log) <= frame
    /\ Len(ring) <= RingSize /\ \A j \in 1 .. Len(ring) : ShotIn(scenario, ring[j], 0)
    /\ \A j \in 1 .. Len(practstack) : ShotIn(scenario, practstack[j], 1)

TInv == Chronicle /\ Modes /\ Macros /\ HeldNow /\ Shots

-------------------------------------------------------------------------------
LEMMA ScenarioIs ==
    ASSUME Chronicle
    PROVE  /\ scenario.frames \in Nat /\ scenario.back \in Nat
           /\ \A in \in scenario.inputs : IsInput(in) /\ Values(scenario, in)
           /\ Values(scenario, Nothing)
<1>1. /\ scenario.frames \in Nat /\ scenario.back \in Nat
      /\ \A in \in scenario.inputs : IsInput(in)
    BY ScenariosAssumption DEF Chronicle
<1>2. ASSUME NEW in \in scenario.inputs
      PROVE  Values(scenario, in)
    <2>1. in = [i \in Items |-> in[i]]
        BY <1>1 DEF IsInput
    <2>2. \A i \in Items : in[i] \in ValueIn(scenario, i)
        BY DEF ValueIn
    <2> QED
        BY <2>1, <2>2 DEF Values
<1>3. Values(scenario, Nothing)
    <2>1. Nothing = [i \in Items |-> Nothing[i]]
        BY DEF Nothing
    <2>2. \A i \in Items : Nothing[i] \in ValueIn(scenario, i)
        BY DEF ValueIn
    <2> QED
        BY <2>1, <2>2 DEF Values
<1> QED
    BY <1>1, <1>2, <1>3

(* Items other than the cursor are held or not. *)
LEMMA HeldOrNot ==
    ASSUME Chronicle, NEW i \in Items \ {"cursor"}
    PROVE  ValueIn(scenario, i) \subseteq BOOLEAN
<1>1. \A in \in scenario.inputs : in[i] \in BOOLEAN
    BY ScenarioIs DEF IsInput
<1>2. Nothing[i] = FALSE
    BY DEF Nothing
<1> QED
    BY <1>1, <1>2 DEF ValueIn

LEMMA EventsKept ==
    ASSUME NEW s, NEW events, Ordered(events), Events(s, events), NEW f \in Nat
    PROVE  Events(s, Before(events, f))
<1> DEFINE b == Before(events, f)
           q == RebuiltAt(events, f)
<1>1. /\ q \in 1 .. Len(events) + 1 /\ b = SubSeq(events, 1, q - 1)
      /\ IsSeq(events) /\ Len(events) \in Nat
    BY Parted, OrderedShape DEF Ordered
<1> HIDE DEF q, b
<1>2. q - 1 \in 0 .. Len(events)
    BY <1>1
<1>3. Len(b) = q - 1 /\ \A j \in 1 .. q - 1 : b[j] = events[j]
    BY <1>1, <1>2, SeqPrefix
<1>4. \A j \in 1 .. Len(b) : j \in 1 .. Len(events) /\ b[j] = events[j]
    BY <1>1, <1>3
<1> QED
    BY <1>4 DEF Events, b

LEMMA EventsNoted ==
    ASSUME Chronicle, frame \in 0 .. scenario.frames, NEW events, Ordered(events),
           Events(scenario, events), NEW in \in scenario.inputs
    PROVE  Events(scenario, events \o Changes(in))
<1> DEFINE c == Changes(in)
           e == events \o c
<1>1. IsInput(in) /\ Values(scenario, in)
    BY ScenarioIs
<1>2. /\ IsSeq(c) /\ Len(c) \in Nat
      /\ \A n \in 1 .. Len(c) : c[n].at = frame /\ c[n].of \in Items /\ c[n].to = in[c[n].of]
    BY <1>1, Noted
<1> HIDE DEF c
<1>3. IsSeq(events) /\ Len(events) \in Nat
    BY OrderedShape DEF Ordered
<1>4. /\ Len(e) = Len(events) + Len(c)
      /\ \A j \in 1 .. Len(events) : e[j] = events[j]
      /\ \A j \in 1 .. Len(c) : e[Len(events) + j] = c[j]
    BY <1>2, <1>3, SeqConcat
<1> HIDE DEF e
<1>5. ASSUME NEW j \in 1 .. Len(e)
      PROVE  /\ e[j].at \in 0 .. scenario.frames
             /\ e[j].of \in Items /\ e[j].to \in ValueIn(scenario, e[j].of)
    <2>1. CASE j \in 1 .. Len(events)
        BY <2>1, <1>4 DEF Events
    <2>2. CASE ~(j \in 1 .. Len(events))
        <3>1. j - Len(events) \in 1 .. Len(c) /\ Len(events) + (j - Len(events)) = j
            BY <2>2, <1>2, <1>3, <1>4
        <3>2. e[j] = c[j - Len(events)]
            BY <3>1, <1>4
        <3> QED
            BY <3>1, <3>2, <1>1, <1>2 DEF Values
    <2> QED
        BY <2>1, <2>2
<1> QED
    BY <1>5 DEF Events, e, c

(* What is played are values. *)
LEMMA ValuesPlayed ==
    ASSUME NEW s, NEW events, Len(events) \in Nat, Events(s, events),
           NEW p \in 1 .. Len(events) + 1, NEW q \in 1 .. Len(events) + 1,
           NEW at, Values(s, at)
    PROVE  Values(s, Play(events, p, q, at))
<1> DEFINE r == Play(events, p, q, at)
<1>1. r = [i \in Items |-> r[i]]
    BY DEF Play
<1>2. ASSUME NEW i \in Items
      PROVE  r[i] \in ValueIn(s, i)
    <2> DEFINE A == {j \in p .. q - 1 : events[j].of = i}
               m == CHOOSE j \in A : \A k \in A : k <= j
    <2>1. r[i] = IF A = {} THEN at[i] ELSE events[m].to
        BY DEF Play
    <2>2. CASE A = {}
        BY <2>1, <2>2 DEF Values
    <2>3. CASE A # {}
        <3>1. A \subseteq 0 .. Len(events)
            OBVIOUS
        <3>2. \E j \in A : \A k \in A : k <= j
            BY <3>1, <2>3, GreatestIn
        <3>3. m \in A
            BY <3>2
        <3> HIDE DEF m
        <3>4. m \in 1 .. Len(events) /\ events[m].of = i
            BY <3>3
        <3> QED
            BY <2>1, <2>3, <3>4 DEF Events
    <2> QED
        BY <2>2, <2>3
<1> QED
    BY <1>1, <1>2 DEF Values

LEMMA ValuesRebuilt ==
    ASSUME NEW s, Values(s, Nothing), NEW events, Ordered(events), Events(s, events), NEW f \in Nat
    PROVE  /\ Values(s, Rebuild(events, f).at)
           /\ Rebuild(events, f).pos \in 1 .. Len(events) + 1
<1> DEFINE q == RebuiltAt(events, f)
<1>1. q \in 1 .. Len(events) + 1 /\ Len(events) \in Nat
    BY Parted, OrderedShape
<1>2. Rebuild(events, f) = [pos |-> q, at |-> Play(events, 1, q, Nothing)]
    BY DEF Rebuild
<1> HIDE DEF q
<1>3. 1 \in 1 .. Len(events) + 1
    BY <1>1
<1> QED
    BY <1>1, <1>2, <1>3, ValuesPlayed

(* Wherever the replay stands, it stops among the events. *)
LEMMA StopsInside ==
    ASSUME NEW events, Len(events) \in Nat, NEW pos \in 1 .. Len(events) + 1, NEW f
    PROVE  StopAt(events, pos, f) \in 1 .. Len(events) + 1
<1> DEFINE n == Len(events)
           P(q) == /\ \A j \in pos .. q - 1 : events[j].at = f
                   /\ q <= n => events[q].at # f
           other == {q \in pos .. n + 1 : q <= n => events[q].at # f}
           r == StopAt(events, pos, f)
<1>0. n \in Nat
    OBVIOUS
<1>1. r = CHOOSE q \in pos .. n + 1 : P(q)
    BY DEF StopAt
<1> HIDE DEF n, r
<1>2. n + 1 \in other /\ other \subseteq Nat
    BY <1>0 DEF n
<1>3. PICK q \in other : \A y \in other : q <= y
    BY <1>2, LeastIn
<1>4. ASSUME NEW j \in pos .. q - 1
      PROVE  events[j].at = f
    <2>1. j \in pos .. n + 1 /\ j <= n /\ ~(q <= j)
        BY <1>0, <1>3 DEF n
    <2> QED
        BY <2>1, <1>3
<1>5. q \in pos .. n + 1 /\ P(q)
    BY <1>3, <1>4
<1>6. r \in pos .. n + 1
    BY <1>1, <1>5
<1> QED
    BY <1>0, <1>6 DEF n, r

(* The keys of a snapshot. *)
LEMMA ValuesBack ==
    ASSUME Chronicle, Values(scenario, prev), NEW x, x.rec \in BOOLEAN, Values(scenario, x.keys)
    PROVE  Values(scenario, PrevOf(x))
<1>1. PrevOf(x) = [i \in Items |-> PrevOf(x)[i]]
    BY DEF PrevOf
<1>2. ASSUME NEW i \in Items
      PROVE  PrevOf(x)[i] \in ValueIn(scenario, i)
    <2>1. CASE i = "cursor"
        BY <2>1 DEF PrevOf, Values
    <2>2. CASE i # "cursor"
        <3>1. PrevOf(x)[i] = (x.rec /\ x.keys[i])
            BY <2>2 DEF PrevOf
        <3>2. x.keys[i] \in ValueIn(scenario, i) /\ x.keys[i] \in BOOLEAN
            BY <2>2, HeldOrNot DEF Values
        <3>3. FALSE \in ValueIn(scenario, i)
            BY <2>2 DEF ValueIn, Nothing
        <3>4. CASE x.rec = TRUE
            <4>1. (x.rec /\ x.keys[i]) = x.keys[i]
                BY <3>2, <3>4
            <4> QED
                BY <4>1, <3>1, <3>2
        <3>5. CASE x.rec = FALSE
            <4>1. (x.rec /\ x.keys[i]) = FALSE
                BY <3>5
            <4> QED
                BY <4>1, <3>1, <3>3
        <3> QED
            BY <3>4, <3>5
    <2> QED
        BY <2>1, <2>2
<1> QED
    BY <1>1, <1>2 DEF Values

(* ... and with the cursor of an input. *)
LEMMA ValuesMoved ==
    ASSUME NEW s, NEW at, Values(s, at), NEW in \in s.inputs
    PROVE  Values(s, [at EXCEPT !["cursor"] = in["cursor"]])
<1> DEFINE a == [at EXCEPT !["cursor"] = in["cursor"]]
<1>1. at = [i \in Items |-> at[i]] /\ \A i \in Items : at[i] \in ValueIn(s, i)
    BY DEF Values
<1>2. a = [i \in Items |-> IF i = "cursor" THEN in["cursor"] ELSE at[i]]
    BY <1>1
<1>3. in["cursor"] \in ValueIn(s, "cursor")
    BY DEF ValueIn
<1> HIDE DEF a
<1>4. a = [i \in Items |-> a[i]] /\ \A i \in Items : a[i] \in ValueIn(s, i)
    BY <1>1, <1>2, <1>3
<1> QED
    BY <1>4 DEF Values, a

(* The ring after a push. *)
LEMMA ShotsPushed ==
    ASSUME TInv
    PROVE  LET r == Push(ring, Capture) IN
           Len(r) <= RingSize /\ \A j \in 1 .. Len(r) : ShotIn(scenario, r[j], 0)
<1>1. /\ Capture.frame = frame /\ Capture.rec = (mode = "record") /\ Capture.keys = prev
      /\ Capture.game = game
    BY DEF Capture
<1>2. frame + 0 = frame /\ frame <= scenario.frames
    BY ScenarioIs DEF TInv, Shots
<1>3. ShotIn(scenario, Capture, 0)
    BY <1>1, <1>2 DEF TInv, Shots, HeldNow, ShotIn
<1>4. IsSeq(ring) /\ Len(ring) <= RingSize
    BY DEF TInv, Shots, Chronicle
<1> HIDE DEF Capture
<1> DEFINE r == Push(ring, Capture)
<1>5. /\ Len(r) <= RingSize
      /\ \A j \in 1 .. Len(r) : r[j] = Capture \/ \E k \in 1 .. Len(ring) : r[j] = ring[k]
    BY <1>4, Pushed
<1> HIDE DEF r
<1> QED
    BY <1>3, <1>5 DEF TInv, Shots, r

(* The game is as it should be, whatever is done to it. *)
LEMMA GameKept ==
    ASSUME IsGame(game)
    PROVE  /\ IsGame(NewGame) /\ Len(NewGame.log) = 0 /\ Len(<<>>) = 0
           /\ IsGame([game EXCEPT !.log = <<>>]) /\ [game EXCEPT !.log = <<>>].log = <<>>
           /\ \A b \in BOOLEAN :
                 /\ IsGame([game EXCEPT !.paused = b]) /\ [game EXCEPT !.paused = b].log = game.log
                 /\ IsGame([game EXCEPT !.won = b]) /\ [game EXCEPT !.won = b].log = game.log
<1>1. /\ game = [log |-> game.log, paused |-> game.paused, won |-> game.won]
      /\ IsSeq(game.log) /\ IsSeq(<<>>) /\ Len(<<>>) = 0 /\ IsGame(NewGame)
    BY Beginning DEF IsGame
<1>2. Len(NewGame.log) = 0
    BY <1>1 DEF NewGame
<1>3. IsGame([game EXCEPT !.log = <<>>]) /\ [game EXCEPT !.log = <<>>].log = <<>>
    BY <1>1 DEF IsGame
<1>4. ASSUME NEW b \in BOOLEAN
      PROVE  /\ IsGame([game EXCEPT !.paused = b]) /\ [game EXCEPT !.paused = b].log = game.log
             /\ IsGame([game EXCEPT !.won = b]) /\ [game EXCEPT !.won = b].log = game.log
    BY <1>1 DEF IsGame
<1> QED
    BY <1>1, <1>2, <1>3, <1>4

(* ... or it is given. *)
LEMMA GameGiven ==
    ASSUME IsGame(game), Len(game.log) <= frame, frame \in Nat, NEW in,
           \/ game' = [game EXCEPT !.log = Append(@, in)]
           \/ game' = [game EXCEPT !.log = Append(@, in), !.won = TRUE]
           \/ game' = [game EXCEPT !.log = Append(@, in), !.paused = TRUE]
    PROVE  IsGame(game') /\ game'.log = Append(game.log, in) /\ Len(game'.log) <= frame + 1
<1>1. /\ game = [log |-> game.log, paused |-> game.paused, won |-> game.won]
      /\ IsSeq(Append(game.log, in)) /\ Len(game.log) \in Nat
      /\ Len(Append(game.log, in)) = Len(game.log) + 1
    BY SeqAppend DEF IsGame
<1>2. game'.log = Append(game.log, in)
    BY <1>1
<1>3. game' = [log |-> game'.log, paused |-> game'.paused, won |-> game'.won]
    BY <1>1
<1> QED
    BY <1>1, <1>2, <1>3 DEF IsGame

LEMMA RunsGame ==
    ASSUME IsGame(game), Len(game.log) <= frame, frame \in Nat, fresh \in BOOLEAN, NEW in, Runs(in)
    PROVE  IsGame(game') /\ Len(game'.log) <= frame + 1 /\ fresh' \in BOOLEAN
<1>1. CASE game' = NewGame /\ fresh' = TRUE
    BY <1>1, GameKept
<1>2. CASE /\ \/ game' = [game EXCEPT !.log = Append(@, in)]
              \/ game' = [game EXCEPT !.log = Append(@, in), !.won = TRUE]
           /\ UNCHANGED fresh
    BY <1>2, GameGiven
<1> QED
    BY <1>1, <1>2 DEF Runs

(* What of the invariant stands when nothing it speaks of has changed. *)
LEMMA MacrosKept ==
    ASSUME TInv, UNCHANGED <<scenario, macro, playable, playm>>,
           mode' = "record" => mode = "record", mode' = "play" => mode = "play",
           requestrestart' => requestrestart
    PROVE  Macros'
BY DEF TInv, Macros

LEMMA HeldKept ==
    ASSUME TInv, UNCHANGED <<scenario, prev, playing, playm>>
    PROVE  HeldNow'
BY DEF TInv, HeldNow

LEMMA ShotsKept ==
    ASSUME TInv, UNCHANGED <<scenario, frame, ring>>, IsGame(game'), Len(game'.log) <= frame,
           practstack' \in {practstack, <<>>}
    PROVE  Shots'
BY Beginning DEF TInv, Shots

(* What a session starts with. *)
LEMMA EmptyMacro ==
    ASSUME Chronicle
    PROVE  /\ MacroIn(scenario, NoMacro) /\ MacroIn(scenario, [events |-> <<>>, length |-> 0])
           /\ [events |-> <<>>, length |-> 0] # NoMacro
           /\ 1 \in 1 .. Len(NoMacro.events) + 1
<1>1. Len(<<>>) = 0 /\ scenario.frames \in Nat
    BY Beginning, ScenarioIs
<1>2. Events(scenario, <<>>)
    BY <1>1 DEF Events
<1> QED
    BY <1>1, <1>2 DEF MacroIn, NoMacro

LEMMA SessionTypes ==
    ASSUME TInv, StartSession, UNCHANGED <<playable, playm, playing, practstack, requestrestart>>
    PROVE  Macros' /\ HeldNow' /\ Shots'
<1>1. Chronicle /\ Len(<<>>) = 0 /\ scenario.frames \in Nat /\ RingSize \in Nat
    BY Beginning, ScenarioIs, RingAssumption DEF TInv
<1>2. Macros'
    BY <1>1, EmptyMacro DEF StartSession, TInv, Macros
<1>3. HeldNow'
    BY <1>1, ScenarioIs DEF StartSession, TInv, HeldNow
<1>4. IsGame(game') /\ game'.log = <<>>
    BY GameKept DEF StartSession, TInv, Shots
<1>5. Shots'
    BY <1>1, <1>4 DEF StartSession, TInv, Shots
<1> QED
    BY <1>2, <1>3, <1>5

LEMMA UserTypes ==
    ASSUME TInv, User
    PROVE  Modes' /\ Macros' /\ HeldNow' /\ Shots'
<1>0. /\ Chronicle /\ scenario.back \in Nat /\ frame \in Nat /\ scenario.frames \in Nat
      /\ IsGame(game) /\ Len(game.log) <= frame
      /\ IsGame(NewGame) /\ Len(NewGame.log) <= frame
    BY ScenarioIs, GameKept DEF TInv, Chronicle, Shots
<1>1. CASE StepBack
    <2>1. Modes'
        BY <1>0, <1>1 DEF StepBack, TInv, Modes, session, bound, replay, prac
    <2> QED
        BY <1>0, <1>1, <2>1, MacrosKept, HeldKept, ShotsKept
        DEF StepBack, session, bound, replay, prac, taken
<1>2. CASE PlayMacro
    <2>1. Modes'
        BY <1>2 DEF PlayMacro, TInv, Modes, bound, replay, prac
    <2>2. Macros'
        BY <1>2 DEF PlayMacro, TInv, Macros, bound, replay, taken
    <2> QED
        BY <1>0, <1>2, <2>1, <2>2, HeldKept, ShotsKept DEF PlayMacro, bound, replay, prac, taken
<1>3. CASE Practice
    <2>1. Modes'
        BY <1>3 DEF Practice, TInv, Modes, session, bound, replay, prac
    <2> QED
        BY <1>0, <1>3, <2>1, MacrosKept, HeldKept, ShotsKept
        DEF Practice, session, bound, replay, prac, taken
<1>4. CASE Record
    <2>1. Modes'
        BY <1>4 DEF Record, StartSession, TInv, Modes, bound, replay, prac, requests
    <2>2. CASE recording \/ mode = "record"
        <3>1. /\ UNCHANGED <<scenario, frame, macro, prev, ring, game, playm, playing, practstack,
                             requestrestart>>
              /\ \/ UNCHANGED <<mode, playable>>
                 \/ mode = "record" /\ mode' = "idle" /\ playable' = macro
            BY <1>4, <2>2 DEF Record, Take, bound, replay, prac, requests, taken
        <3>2. Macros'
            BY <3>1 DEF TInv, Macros
        <3> QED
            BY <1>0, <2>1, <3>1, <3>2, HeldKept, ShotsKept
    <2>3. CASE ~(recording \/ mode = "record")
        <3>1. StartSession /\ UNCHANGED <<playable, playm, playing, practstack, requestrestart>>
            BY <1>4, <2>3 DEF Record, replay, prac, requests, taken
        <3> QED
            BY <2>1, <3>1, SessionTypes
    <2> QED
        BY <2>2, <2>3
<1>5. CASE ChangeLevel
    <2>1. Modes'
        BY <1>5 DEF ChangeLevel, TInv, Modes, bound
    <2>2. Macros'
        BY <1>0, <1>5, EmptyMacro DEF ChangeLevel, TInv, Macros, bound, taken
    <2> QED
        BY <1>0, <1>5, <2>1, <2>2, HeldKept, ShotsKept DEF ChangeLevel, bound, taken
<1> QED
    BY <1>1, <1>2, <1>3, <1>4, <1>5 DEF User

(* A step back. *)
LEMMA BackTypes ==
    ASSUME TInv, TickBack
    PROVE  Modes' /\ Macros' /\ HeldNow' /\ Shots'
<1>0. /\ Chronicle /\ frame \in Nat /\ IsGame(game) /\ Len(game.log) <= frame /\ IsSeq(ring)
      /\ IsMac(macro) /\ Ordered(macro.events) /\ Ordered(playm.events)
    BY DEF TInv, Chronicle, Shots, IsMac
<1>1. UNCHANGED <<scenario, mode, playable, playm, practstack, requestrestart>>
    BY DEF TickBack, bound, prac, taken
<1>2. Modes'
    BY <1>0, ScenarioIs DEF TickBack, TInv, Modes, bound, prac
<1>3. CASE ring = <<>>
    BY <1>0, <1>1, <1>2, <1>3, MacrosKept, HeldKept, ShotsKept DEF TickBack
<1>4. CASE ring # <<>>
    <2> DEFINE x == Last(ring)
    <2>1. /\ ring' = Front(ring) /\ frame' = x.frame /\ game' = x.game
          /\ IF mode = "record"
             THEN /\ macro' = [macro EXCEPT !.events = Before(macro.events, x.frame)]
                  /\ prev' = PrevOf(x)
             ELSE UNCHANGED <<macro, prev>>
          /\ IF mode = "play"
             THEN playing' = Rebuild(playm.events, x.frame)
             ELSE UNCHANGED playing
        BY <1>4 DEF TickBack, Restore
    <2>2. /\ Len(ring) \in Nat /\ 0 < Len(ring) /\ x = ring[Len(ring)]
          /\ Len(Front(ring)) = Len(ring) - 1
          /\ \A j \in 1 .. Len(ring) - 1 : Front(ring)[j] = ring[j]
        BY <1>0, <1>4, Popped
    <2> HIDE DEF x
    <2>3. Len(ring) \in 1 .. Len(ring)
        BY <2>2
    <2>4. ShotIn(scenario, x, 0)
        BY <2>2, <2>3 DEF TInv, Shots
    <2>5. x.frame \in Nat /\ x.rec \in BOOLEAN /\ Values(scenario, x.keys)
        BY <1>0, <2>2, <2>3, <2>4 DEF ShotIn, Chronicle
    <2>6. Shots'
        <3>1. frame' \in 0 .. scenario.frames /\ IsGame(game') /\ Len(game'.log) <= frame'
            BY <2>1, <2>4, <2>5 DEF ShotIn
        <3>2. Len(ring') <= RingSize
            BY <2>1, <2>2, RingAssumption DEF TInv, Shots
        <3>3. \A j \in 1 .. Len(ring') : ShotIn(scenario, ring'[j], 0)
            BY <2>1, <2>2 DEF TInv, Shots
        <3> QED
            BY <1>1, <3>1, <3>2, <3>3 DEF TInv, Shots
    <2>7. Macros'
        <3>1. CASE mode # "record"
            BY <1>1, <2>1, <3>1, MacrosKept
        <3>2. CASE mode = "record"
            <4> DEFINE b == Before(macro.events, x.frame)
            <4>1. macro # NoMacro /\ MacroIn(scenario, macro)
                BY <3>2 DEF TInv, Macros
            <4>2. macro.length \in 0 .. scenario.frames /\ Events(scenario, macro.events)
                BY <4>1 DEF MacroIn
            <4>3. Events(scenario, b)
                BY <1>0, <2>5, <4>2, EventsKept
            <4>4. macro = [events |-> macro.events, length |-> macro.length]
                BY <1>0 DEF IsMac
            <4>5. macro' = [macro EXCEPT !.events = b]
                BY <2>1, <3>2
            <4> HIDE DEF b
            <4>6. macro'.events = b /\ macro'.length = macro.length
                BY <4>4, <4>5
            <4>7. MacroIn(scenario, macro')
                BY <4>2, <4>3, <4>6 DEF MacroIn
            <4>8. macro' # NoMacro
                BY <4>2, <4>6 DEF NoMacro
            <4> QED
                BY <1>1, <4>7, <4>8 DEF TInv, Macros
        <3> QED
            BY <3>1, <3>2
    <2>8. HeldNow'
        <3>1. Values(scenario, prev')
            BY <1>0, <2>1, <2>5, ValuesBack DEF TInv, HeldNow
        <3>2. Values(scenario, playing'.at) /\ playing'.pos \in 1 .. Len(playm.events) + 1
            <4>1. CASE mode # "play"
                BY <2>1, <4>1 DEF TInv, HeldNow
            <4>2. CASE mode = "play"
                <5>1. playm # NoMacro /\ MacroIn(scenario, playm)
                    BY <4>2 DEF TInv, Macros
                <5>2. Events(scenario, playm.events)
                    BY <5>1 DEF MacroIn
                <5> QED
                    BY <1>0, <2>1, <2>5, <4>2, <5>2, ScenarioIs, ValuesRebuilt
            <4> QED
                BY <4>1, <4>2
        <3> QED
            BY <1>1, <3>1, <3>2 DEF HeldNow
    <2> QED
        BY <1>2, <2>6, <2>7, <2>8
<1> QED
    BY <1>3, <1>4

LEMMA TickTypes ==
    ASSUME TInv, Tick
    PROVE  Modes' /\ Macros' /\ HeldNow' /\ Shots'
<1>0. /\ Chronicle /\ frame \in Nat /\ scenario.frames \in Nat
      /\ IsGame(game) /\ Len(game.log) <= frame
      /\ IsGame(NewGame) /\ Len(NewGame.log) = 0 /\ Len(<<>>) = 0
      /\ Ordered(playm.events) /\ Ordered(playable.events)
    BY ScenarioIs, GameKept DEF TInv, Chronicle, Shots, IsMac
<1>1. CASE TickRestarted \/ TickOver
    <2>1. Modes'
        BY <1>1 DEF TickRestarted, TickOver, EndPlayback, TInv, Modes, bound, prac, requests
    <2> QED
        BY <1>0, <1>1, <2>1, MacrosKept, HeldKept, ShotsKept
        DEF TickRestarted, TickOver, EndPlayback, bound, prac, requests, taken
<1>2. CASE TickSession
    <2>1. Modes'
        BY <1>2 DEF TickSession, StartSession, TInv, Modes, replay, prac, requests
    <2> QED
        BY <1>2, <2>1, SessionTypes DEF TickSession, replay, prac, requests, taken
<1>3. CASE TickSeen \/ TickWon
    <2>1. Modes'
        BY <1>3 DEF TickSeen, TickWon, TInv, Modes, session, bound, replay, prac, requests
    <2> QED
        BY <1>0, <1>3, <2>1, MacrosKept, HeldKept, ShotsKept
        DEF TickSeen, TickWon, session, bound, replay, prac, requests, taken
<1>4. CASE TickWin
    <2>1. Modes'
        BY <1>4 DEF TickWin, TInv, Modes, bound, replay, prac, requests
    <2>2. Macros'
        BY <1>4 DEF TickWin, WinDue, Take, TInv, Macros, bound, replay, requests
    <2> QED
        BY <1>0, <1>4, <2>1, <2>2, HeldKept, ShotsKept DEF TickWin, bound, replay, prac
<1>5. CASE TickEdit
    <2>1. Modes'
        BY <1>5 DEF TickEdit, Edit, ClearPractice, TInv, Modes, bound, replay
    <2>2. /\ UNCHANGED <<scenario, playable, playm, playing, frame, ring, requestrestart>>
          /\ macro' = [events |-> Before(playm.events, frame), length |-> frame]
          /\ prev' = playing.at /\ mode' = "record" /\ mode = "play"
          /\ game' = [game EXCEPT !.paused = FALSE] /\ practstack' = <<>>
        BY <1>5 DEF TickEdit, Edit, ClearPractice, bound, replay, taken
    <2>3. Macros'
        <3>1. Events(scenario, playm.events)
            BY <2>2 DEF TInv, Macros, MacroIn
        <3>2. Events(scenario, Before(playm.events, frame))
            BY <1>0, <3>1, EventsKept
        <3>3. MacroIn(scenario, macro') /\ macro' # NoMacro
            BY <2>2, <3>2, <1>0 DEF TInv, Shots, MacroIn, NoMacro
        <3> QED
            BY <2>2, <3>3 DEF TInv, Macros
    <2>4. HeldNow'
        BY <2>2 DEF TInv, HeldNow
    <2>5. IsGame(game') /\ game'.log = game.log
        BY <1>0, <2>2, GameKept
    <2> QED
        BY <1>0, <2>1, <2>2, <2>3, <2>4, <2>5, ShotsKept
<1>6. CASE TickEditPractice
    <2>1. Modes'
        BY <1>6 DEF TickEditPractice, ClearPractice, TInv, Modes, session, bound, replay
    <2>2. IsGame(game') /\ game'.log = game.log
        BY <1>0, <1>6, GameKept DEF TickEditPractice
    <2> QED
        BY <1>0, <1>6, <2>1, <2>2, MacrosKept, HeldKept, ShotsKept
        DEF TickEditPractice, ClearPractice, session, bound, replay, taken
<1>7. CASE TickPractice
    <2>1. Modes'
        BY <1>7 DEF TickPractice, ClearPractice, TInv, Modes, bound, replay
    <2> QED
        BY <1>0, <1>7, <2>1, MacrosKept, HeldKept, ShotsKept
        DEF TickPractice, ClearPractice, bound, replay, taken
<1>8. CASE TickRestart
    <2>1. Modes'
        BY <1>8 DEF TickRestart, ClearPractice, TInv, Modes, bound
    <2>2. /\ UNCHANGED <<scenario, playable, macro>> /\ requestrestart /\ requestrestart' = FALSE
          /\ playm' = playable /\ playing' = Rebuild(playable.events, 0) /\ mode' = "play"
          /\ game' = NewGame /\ frame' = 0 /\ ring' = <<>> /\ prev' = Nothing /\ practstack' = <<>>
        BY <1>8 DEF TickRestart, ClearPractice, bound, taken
    <2>3. playable # NoMacro /\ Events(scenario, playable.events)
        BY <2>2 DEF TInv, Macros, MacroIn
    <2>4. Macros'
        BY <2>2, <2>3 DEF TInv, Macros
    <2>5. HeldNow'
        <3>1. Values(scenario, Nothing)
            BY <1>0, ScenarioIs
        <3>2. /\ Values(scenario, Rebuild(playable.events, 0).at)
              /\ Rebuild(playable.events, 0).pos \in 1 .. Len(playable.events) + 1
            BY <1>0, <2>3, <3>1, ValuesRebuilt
        <3> QED
            BY <2>2, <3>1, <3>2 DEF HeldNow
    <2>6. Shots'
        BY <1>0, <2>2, RingAssumption DEF Shots
    <2> QED
        BY <2>1, <2>4, <2>5, <2>6
<1>9. CASE TickBack
    BY <1>9, BackTypes
<1> QED
    BY <1>1, <1>2, <1>3, <1>4, <1>5, <1>6, <1>7, <1>8, <1>9 DEF Tick

(* A frame that is recorded. *)
LEMMA RecordedTypes ==
    ASSUME TInv, mode = "record", FrameDue, NEW in \in scenario.inputs, RecordFrame(in),
           UNCHANGED <<scenario, mode, playable, playm, playing, requestrestart>>
    PROVE  Macros' /\ HeldNow'
<1> DEFINE e == macro.events \o Changes(in)
<1>1. /\ Chronicle /\ frame \in Nat /\ scenario.frames \in Nat /\ Ordered(macro.events)
      /\ Values(scenario, in)
    BY ScenarioIs DEF TInv, Chronicle, IsMac
<1>2. frame \in 0 .. scenario.frames /\ frame + 1 \in 0 .. scenario.frames
    BY <1>1 DEF FrameDue
<1>3. Events(scenario, macro.events)
    BY DEF TInv, Macros, MacroIn
<1>4. Events(scenario, e)
    BY <1>1, <1>2, <1>3, EventsNoted
<1>5. macro' = [events |-> e, length |-> frame + 1] /\ prev' = in
    BY DEF RecordFrame
<1> HIDE DEF e
<1>6. MacroIn(scenario, macro') /\ macro' # NoMacro
    BY <1>1, <1>2, <1>4, <1>5 DEF MacroIn, NoMacro
<1>7. Macros'
    BY <1>6 DEF TInv, Macros
<1>8. HeldNow'
    BY <1>1, <1>5 DEF TInv, HeldNow
<1> QED
    BY <1>7, <1>8

(* The frame is counted. *)
LEMMA CountedShots ==
    ASSUME TInv, frame < scenario.frames, frame' = frame + 1, ring' = Push(ring, Capture),
           IsGame(game'), Len(game'.log) <= frame + 1,
           UNCHANGED <<scenario, practstack>>
    PROVE  Shots'
<1>1. frame \in Nat /\ scenario.frames \in Nat
    BY ScenarioIs DEF TInv, Chronicle
<1>2. frame' \in 0 .. scenario.frames
    BY <1>1
<1>3. Len(ring') <= RingSize /\ \A j \in 1 .. Len(ring') : ShotIn(scenario, ring'[j], 0)
    BY ShotsPushed
<1> QED
    BY <1>2, <1>3 DEF TInv, Shots

(* The snapshots of the checkpoints. *)
LEMMA PointTypes ==
    ASSUME TInv, FrameDue, NEW in \in scenario.inputs, UNCHANGED scenario,
           PlacePoint(in) \/ ErasePoint(in) \/ ArmRespawn(in)
    PROVE  /\ IsGame(game') /\ Len(game'.log) <= frame + 1
           /\ \A j \in 1 .. Len(practstack') : ShotIn(scenario, practstack'[j], 1)
           /\ awaitrespawn' \in BOOLEAN
<1>1. /\ Chronicle /\ frame \in Nat /\ scenario.frames \in Nat /\ IsSeq(practstack)
      /\ IsGame(game) /\ Len(game.log) <= frame /\ Values(scenario, in)
    BY ScenarioIs DEF TInv, Shots, Chronicle
<1>2. frame \in 0 .. scenario.frames /\ frame + 1 <= scenario.frames
    BY <1>1 DEF FrameDue
<1>3. game' = [game EXCEPT !.log = Append(@, in)]
    BY DEF PlacePoint, ErasePoint, ArmRespawn
<1>4. IsGame(game') /\ Len(game'.log) <= frame + 1
    BY <1>1, <1>3, GameGiven
<1>5. awaitrespawn' \in BOOLEAN
    BY DEF PlacePoint, ErasePoint, ArmRespawn, TInv, Modes
<1>6. \A j \in 1 .. Len(practstack) : ShotIn(scenario, practstack[j], 1)
    BY DEF TInv, Shots
<1>7. CASE PlacePoint(in)
    <2> DEFINE x == [frame |-> frame, rec |-> TRUE, keys |-> in, game |-> game']
    <2>1. practstack' = Append(practstack, x)
        BY <1>7 DEF PlacePoint
    <2>2. x.frame = frame /\ x.rec = TRUE /\ x.keys = in /\ x.game = game'
        OBVIOUS
    <2> HIDE DEF x
    <2>3. ShotIn(scenario, x, 1)
        BY <1>1, <1>2, <1>4, <2>2 DEF ShotIn
    <2>4. /\ Len(practstack) \in Nat /\ Len(practstack') = Len(practstack) + 1
          /\ \A j \in 1 .. Len(practstack) : practstack'[j] = practstack[j]
          /\ practstack'[Len(practstack) + 1] = x
        BY <1>1, <2>1, SeqAppend
    <2>5. \A j \in 1 .. Len(practstack') : j = Len(practstack) + 1 \/ j \in 1 .. Len(practstack)
        BY <2>4
    <2> QED
        BY <1>4, <1>5, <1>6, <2>3, <2>4, <2>5
<1>8. CASE ErasePoint(in)
    <2>1. practstack # <<>> /\ practstack' = Front(practstack)
        BY <1>8 DEF ErasePoint
    <2>2. /\ Len(practstack) \in Nat /\ Len(practstack') = Len(practstack) - 1
          /\ \A j \in 1 .. Len(practstack) - 1 : practstack'[j] = practstack[j]
        BY <1>1, <2>1, Popped
    <2>3. \A j \in 1 .. Len(practstack') : j \in 1 .. Len(practstack) /\ practstack'[j] = practstack[j]
        BY <2>2
    <2> QED
        BY <1>4, <1>5, <1>6, <2>3
<1>9. CASE ArmRespawn(in)
    BY <1>4, <1>5, <1>6, <1>9 DEF ArmRespawn
<1> QED
    BY <1>7, <1>8, <1>9

LEMMA RespawnTypes ==
    ASSUME TInv, FrameRespawn
    PROVE  Modes' /\ Macros' /\ HeldNow' /\ Shots'
<1> DEFINE x == Last(practstack)
<1>1. PICK in \in scenario.inputs :
         /\ macro' = [events |-> Before(macro.events \o Changes(in), x.frame),
                      length |-> frame + 1]
         /\ prev' = [PrevOf(x) EXCEPT !["cursor"] = in["cursor"]]
    BY DEF FrameRespawn
<1>2. /\ FrameDue /\ mode = "record" /\ practstack # <<>> /\ ring' = Push(ring, Capture)
      /\ game' = x.game /\ frame' = x.frame + 1
      /\ UNCHANGED <<scenario, mode, playable, playm, playing, practstack, requestrestart>>
    BY DEF FrameRespawn, bound, replay, requests, taken
<1>3. /\ Chronicle /\ frame \in Nat /\ scenario.frames \in Nat /\ IsSeq(practstack)
      /\ Ordered(macro.events)
    BY ScenarioIs DEF TInv, Chronicle, IsMac
<1>4. /\ Len(practstack) \in Nat /\ 0 < Len(practstack) /\ x = practstack[Len(practstack)]
    BY <1>2, <1>3, Popped
<1> HIDE DEF x
<1>5. Len(practstack) \in 1 .. Len(practstack)
    BY <1>4
<1>6. ShotIn(scenario, x, 1) /\ x.frame \in Nat
    BY <1>4, <1>5 DEF TInv, Shots, Chronicle
<1>7. /\ x.frame + 1 <= scenario.frames /\ x.rec \in BOOLEAN /\ Values(scenario, x.keys)
      /\ IsGame(x.game) /\ Len(x.game.log) <= x.frame + 1
    BY <1>6 DEF ShotIn
<1>8. Modes'
    BY DEF FrameRespawn, TInv, Modes, bound, replay, requests
<1>9. Macros'
    <2> DEFINE e == macro.events \o Changes(in)
    <2>1. frame \in 0 .. scenario.frames /\ frame + 1 \in 0 .. scenario.frames
        BY <1>2, <1>3 DEF FrameDue
    <2>2. Events(scenario, macro.events)
        BY <1>2 DEF TInv, Macros, MacroIn
    <2>3. Events(scenario, e)
        BY <1>3, <2>1, <2>2, EventsNoted
    <2>4. Ordered(e)
        BY <1>2, <1>3, RecordedChronicle
    <2> HIDE DEF e
    <2>5. Events(scenario, Before(e, x.frame))
        BY <1>6, <2>3, <2>4, EventsKept
    <2>6. macro' = [events |-> Before(e, x.frame), length |-> frame + 1]
        BY <1>1 DEF e
    <2>7. MacroIn(scenario, macro') /\ macro' # NoMacro
        BY <1>3, <2>1, <2>5, <2>6 DEF MacroIn, NoMacro
    <2> QED
        BY <1>2, <2>7 DEF TInv, Macros
<1>10. HeldNow'
    <2>1. Values(scenario, PrevOf(x))
        BY <1>2, <1>3, <1>7, ValuesBack DEF TInv, HeldNow
    <2>2. Values(scenario, prev')
        BY <1>1, <2>1, ValuesMoved
    <2> QED
        BY <1>2, <2>2 DEF TInv, HeldNow
<1>11. Shots'
    <2>1. frame' \in 0 .. scenario.frames /\ Len(game'.log) <= frame'
        BY <1>2, <1>3, <1>6, <1>7
    <2>2. Len(ring') <= RingSize /\ \A j \in 1 .. Len(ring') : ShotIn(scenario, ring'[j], 0)
        BY <1>2, ShotsPushed
    <2> QED
        BY <1>2, <1>7, <2>1, <2>2 DEF TInv, Shots
<1> QED
    BY <1>8, <1>9, <1>10, <1>11

LEMMA FrameTypes ==
    ASSUME TInv, Frame
    PROVE  Modes' /\ Macros' /\ HeldNow' /\ Shots'
<1>0. /\ Chronicle /\ frame \in Nat /\ scenario.frames \in Nat
      /\ IsGame(game) /\ Len(game.log) <= frame /\ fresh \in BOOLEAN
      /\ IsGame(NewGame) /\ Len(NewGame.log) <= frame + 1
      /\ Len(game.log) <= frame + 1
    BY ScenarioIs, GameKept, SeqLen DEF TInv, Chronicle, Shots, Modes, IsGame
<1>1. CASE FrameRecord
    <2>1. PICK in \in scenario.inputs : RecordFrame(in) /\ Runs(in)
        BY <1>1 DEF FrameRecord
    <2>2. IsGame(game') /\ Len(game'.log) <= frame + 1 /\ fresh' \in BOOLEAN
        BY <1>0, <2>1, RunsGame
    <2>3. /\ FrameDue /\ mode = "record" /\ ring' = Push(ring, Capture) /\ frame' = frame + 1
          /\ UNCHANGED <<scenario, mode, playable, playm, playing, practstack, requestrestart>>
        BY <1>1 DEF FrameRecord, bound, replay, prac, requests, taken
    <2>4. Modes'
        BY <1>1, <2>2 DEF FrameRecord, TInv, Modes, bound, replay, prac, requests
    <2> QED
        BY <2>1, <2>2, <2>3, <2>4, RecordedTypes, CountedShots DEF FrameDue
<1>2. CASE FramePlay
    <2> DEFINE q == StopAt(playm.events, playing.pos, frame)
               at == Play(playm.events, playing.pos, q, playing.at)
    <2>0. PICK in : \/ Runs(in)
                    \/ /\ game' = [game EXCEPT !.log = Append(@, in), !.paused = TRUE]
                       /\ UNCHANGED fresh
        BY <1>2 DEF FramePlay
    <2>1. /\ FrameDue /\ mode = "play" /\ ring' = Push(ring, Capture) /\ frame' = frame + 1
          /\ playing' = [pos |-> q, at |-> at]
          /\ UNCHANGED <<scenario, mode, macro, prev, playable, playm, practstack, requestrestart>>
        BY <1>2 DEF FramePlay, bound, prac, requests, taken
    <2>2. Events(scenario, playm.events) /\ Len(playm.events) \in Nat
        BY <1>0, <2>1, OrderedShape DEF TInv, Macros, MacroIn, Chronicle, IsMac
    <2>3. q \in 1 .. Len(playm.events) + 1 /\ Values(scenario, at)
        <3>1. playing.pos \in 1 .. Len(playm.events) + 1 /\ Values(scenario, playing.at)
            BY DEF TInv, HeldNow
        <3>2. q \in 1 .. Len(playm.events) + 1
            BY <2>2, <3>1, StopsInside
        <3> QED
            BY <2>2, <3>1, <3>2, ValuesPlayed
    <2> HIDE DEF q, at
    <2>4. IsGame(game') /\ Len(game'.log) <= frame + 1 /\ fresh' \in BOOLEAN
        <3>1. CASE Runs(in)
            BY <1>0, <3>1, RunsGame
        <3>2. CASE game' = [game EXCEPT !.log = Append(@, in), !.paused = TRUE] /\ UNCHANGED fresh
            BY <1>0, <3>2, GameGiven
        <3> QED
            BY <2>0, <3>1, <3>2
    <2>5. Modes'
        BY <1>2, <2>4 DEF FramePlay, TInv, Modes, bound, prac, requests
    <2>6. Macros'
        BY <2>1, MacrosKept
    <2>7. HeldNow'
        BY <2>1, <2>3 DEF TInv, HeldNow
    <2> QED
        BY <2>1, <2>4, <2>5, <2>6, <2>7, CountedShots DEF FrameDue
<1>3. CASE FramePaused
    <2>1. Modes'
        BY <1>3 DEF FramePaused, TInv, Modes, session, bound, replay, prac, requests
    <2>2. /\ ring' = Push(ring, Capture)
          /\ UNCHANGED <<scenario, mode, frame, macro, prev, playable, playm, playing, practstack,
                         requestrestart>>
        BY <1>3 DEF FramePaused, session, bound, replay, prac, requests, taken
    <2>3. IsGame(game') /\ game'.log = game.log
        BY <1>0, <1>3, GameKept DEF FramePaused
    <2>4. Shots'
        BY <1>0, <2>2, <2>3, ShotsPushed DEF TInv, Shots
    <2> QED
        BY <2>1, <2>2, <2>4, MacrosKept, HeldKept
<1>4. CASE FrameEnd
    <2>1. IsGame(game') /\ Len(game'.log) <= frame + 1 /\ fresh' \in BOOLEAN
        BY <1>0, <1>4, RunsGame DEF FrameEnd
    <2>2. Modes'
        BY <1>4, <2>1 DEF FrameEnd, EndPlayback, TInv, Modes, bound, prac, requests
    <2>3. /\ FrameDue /\ ring' = Push(ring, Capture) /\ frame' = frame + 1
          /\ mode' \in {mode, "idle"}
          /\ UNCHANGED <<scenario, macro, prev, playable, playm, playing, practstack, requestrestart>>
        BY <1>4 DEF FrameEnd, EndPlayback, bound, prac, requests, taken
    <2> QED
        BY <2>1, <2>2, <2>3, MacrosKept, HeldKept, CountedShots DEF FrameDue
<1>5. CASE FrameIdle
    <2>1. IsGame(game') /\ Len(game'.log) <= frame + 1 /\ fresh' \in BOOLEAN
        <3>1. CASE UNCHANGED <<game, fresh>>
            BY <1>0, <3>1
        <3>2. CASE game' = [game EXCEPT !.won = TRUE] /\ UNCHANGED fresh
            <4>1. IsGame(game') /\ game'.log = game.log
                BY <1>0, <3>2, GameKept
            <4> QED
                BY <1>0, <3>2, <4>1
        <3>3. CASE game' = NewGame /\ fresh' = TRUE
            BY <1>0, <3>3
        <3> QED
            BY <1>5, <3>1, <3>2, <3>3 DEF FrameIdle
    <2>2. Modes'
        BY <1>5, <2>1 DEF FrameIdle, TInv, Modes, bound, replay, prac, requests
    <2>3. /\ FrameDue /\ ring' = Push(ring, Capture) /\ frame' = frame + 1
          /\ UNCHANGED <<scenario, mode, macro, prev, playable, playm, playing, practstack,
                         requestrestart>>
        BY <1>5 DEF FrameIdle, bound, replay, prac, requests, taken
    <2> QED
        BY <2>1, <2>2, <2>3, MacrosKept, HeldKept, CountedShots DEF FrameDue
<1>6. CASE FramePractice
    <2>1. PICK in \in scenario.inputs :
             RecordFrame(in) /\ (PlacePoint(in) \/ ErasePoint(in) \/ ArmRespawn(in))
        BY <1>6 DEF FramePractice
    <2>2. /\ FrameDue /\ mode = "record" /\ ring' = Push(ring, Capture) /\ frame' = frame + 1
          /\ UNCHANGED <<scenario, mode, playable, playm, playing, requestrestart>>
        BY <1>6 DEF FramePractice, bound, replay, requests, taken
    <2>3. /\ IsGame(game') /\ Len(game'.log) <= frame + 1
          /\ \A j \in 1 .. Len(practstack') : ShotIn(scenario, practstack'[j], 1)
          /\ awaitrespawn' \in BOOLEAN
        BY <2>1, <2>2, PointTypes
    <2>4. Modes'
        BY <1>6, <2>3 DEF FramePractice, TInv, Modes, bound, replay, requests
    <2>5. Shots'
        <3>1. frame' \in 0 .. scenario.frames /\ Len(game'.log) <= frame'
            BY <1>0, <2>2, <2>3 DEF FrameDue
        <3>2. Len(ring') <= RingSize /\ \A j \in 1 .. Len(ring') : ShotIn(scenario, ring'[j], 0)
            BY <2>2, ShotsPushed
        <3> QED
            BY <2>2, <2>3, <3>1, <3>2 DEF Shots
    <2> QED
        BY <2>1, <2>2, <2>4, <2>5, RecordedTypes
<1>7. CASE FrameRespawn
    BY <1>7, RespawnTypes
<1> QED
    BY <1>1, <1>2, <1>3, <1>4, <1>5, <1>6, <1>7 DEF Frame

LEMMA InitTypes == Init => Modes /\ Macros /\ HeldNow /\ Shots
<1> SUFFICES ASSUME Init PROVE Modes /\ Macros /\ HeldNow /\ Shots
    OBVIOUS
<1>1. Chronicle /\ Len(<<>>) = 0 /\ scenario.frames \in Nat /\ scenario.back \in Nat
    <2>1. scenario \in Scenarios
        BY DEF Init
    <2>2. Chronicle
        BY NoEvents, Beginning DEF Init, Chronicle
    <2> QED
        BY <2>2, Beginning, ScenarioIs
<1>2. Modes
    <2>1. pendingrollback \in 0 .. scenario.back
        BY <1>1 DEF Init
    <2>2. /\ mode = "idle" /\ recording = TRUE /\ practice = FALSE /\ awaitrespawn = FALSE
          /\ editmode = FALSE /\ requestrestart = FALSE /\ requestpractice = "no"
          /\ fresh = TRUE /\ playend = FALSE
        BY DEF Init
    <2> QED
        BY <2>1, <2>2 DEF Modes
<1>3. Macros
    BY <1>1, EmptyMacro DEF Init, Macros
<1>4. HeldNow
    BY <1>1, EmptyMacro, ScenarioIs DEF Init, HeldNow
<1>5. Shots
    BY <1>1, RingAssumption, GameKept, Beginning DEF Init, Shots, NewGame
<1> QED
    BY <1>2, <1>3, <1>4, <1>5

LEMMA TypesKept ==
    ASSUME TInv, [Next]_vars
    PROVE  Modes' /\ Macros' /\ HeldNow' /\ Shots'
<1>1. CASE UNCHANGED vars
    BY <1>1 DEF vars, session, bound, replay, prac, requests, taken, TInv, Modes, Macros, HeldNow, Shots
<1> QED
    BY <1>1, UserTypes, TickTypes, FrameTypes DEF Next

(* What the invariant says of the types is what TypeOK does. *)
LEMMA TypesOK ==
    ASSUME TInv
    PROVE  TypeOK
<1>1. Modes /\ Macros /\ HeldNow /\ Shots
    BY DEF TInv
<1>2. \A i \in Items : Value(i) = ValueIn(scenario, i)
    BY DEF Value, ValueIn
<1>3. ASSUME NEW m, MacroIn(scenario, m)
      PROVE  m = NoMacro \/ IsMacro(m)
    <2>1. CASE m # NoMacro
        <3>1. m.length \in 0 .. scenario.frames /\ Events(scenario, m.events)
            BY <1>3, <2>1 DEF MacroIn
        <3>2. \A j \in 1 .. Len(m.events) : IsEvent(m.events[j])
            BY <1>2, <3>1 DEF Events, IsEvent
        <3> QED
            BY <3>1, <3>2 DEF IsMacro
    <2> QED
        BY <2>1
<1>4. ASSUME NEW x, NEW more \in {0, 1}, ShotIn(scenario, x, more)
      PROVE  IsSnap(x)
    <2>1. Len(x.game.log) \in Nat /\ scenario.frames \in Nat
        BY <1>4, SeqLen, ScenarioIs DEF ShotIn, IsGame, TInv
    <2>2. Len(x.game.log) <= scenario.frames
        BY <1>4, <2>1 DEF ShotIn
    <2>3. DOMAIN x.keys = Items
        BY <1>4 DEF ShotIn, Values
    <2> QED
        BY <1>4, <2>2, <2>3 DEF ShotIn, IsSnap
<1>5. \A j \in 1 .. Len(ring) : IsSnap(ring[j])
    BY <1>1, <1>4 DEF Shots
<1>6. \A j \in 1 .. Len(practstack) : IsSnap(practstack[j])
    BY <1>1, <1>4 DEF Shots
<1>7. \A i \in Items : prev[i] \in Value(i) /\ playing.at[i] \in Value(i)
    BY <1>1, <1>2 DEF HeldNow, Values
<1>8. (macro = NoMacro \/ IsMacro(macro)) /\ (playable = NoMacro \/ IsMacro(playable))
    BY <1>1, <1>3 DEF Macros
<1> QED
    BY <1>1, <1>5, <1>6, <1>7, <1>8 DEF TypeOK, Modes, Macros, Shots

(* Events, inputs, macros and snapshots are what their names say, within the bounds of
   the scenario, and the ring never has more than t.ringsize snapshots: after step,
   restore, recordframe, playframe, the editor and the checkpoints in any order. *)
THEOREM TInvAlways == Spec => []TInv
<1>1. Init => TInv
    BY InitTypes, ChronicleInit DEF TInv
<1>2. TInv /\ [Next]_vars => TInv'
    BY TypesKept, ChronicleNext DEF TInv
<1> QED
    BY <1>1, <1>2, PTL DEF Spec

THEOREM TypeOKAlways == Spec => []TypeOK
BY TInvAlways, TypesOK, PTL

-------------------------------------------------------------------------------
(* What a macro says *)

(* The events about an item up to a frame. *)
About(events, i, f) == {j \in 1 .. Len(events) : events[j].of = i /\ events[j].at <= f}

LEMMA ReadsOf ==
    ASSUME NEW events, NEW i, NEW f
    PROVE  /\ About(events, i, f) = {} => Reads(events, i, f) = Nothing[i]
           /\ About(events, i, f) # {} =>
                 Reads(events, i, f) = events[CHOOSE j \in About(events, i, f) :
                                                  \A k \in About(events, i, f) : k <= j].to
BY DEF Reads, About

LEMMA ReadsNone ==
    ASSUME NEW events, NEW i, NEW f, About(events, i, f) = {}
    PROVE  Reads(events, i, f) = Nothing[i]
BY ReadsOf

(* The newest of these events decides. *)
LEMMA ReadsNewest ==
    ASSUME NEW events, NEW i, NEW f, Len(events) \in Nat,
           NEW m \in About(events, i, f), \A k \in About(events, i, f) : k <= m
    PROVE  Reads(events, i, f) = events[m].to
<1> DEFINE A == About(events, i, f)
           c == CHOOSE j \in A : \A k \in A : k <= j
<1>0. A \subseteq Nat
    BY DEF About
<1>1. m \in A /\ \A k \in A : k <= m
    OBVIOUS
<1>2. Reads(events, i, f) = events[c].to
    BY <1>1, ReadsOf
<1> HIDE DEF A
<1>3. c \in A /\ \A k \in A : k <= c
    BY <1>1
<1> HIDE DEF c
<1>4. c <= m /\ m <= c /\ c \in Nat /\ m \in Nat
    BY <1>0, <1>1, <1>3
<1>5. c = m
    BY <1>4
<1> QED
    BY <1>2, <1>5

(* There is one, if there are any. *)
LEMMA Newest ==
    ASSUME NEW events, NEW i, NEW f, Len(events) \in Nat, About(events, i, f) # {}
    PROVE  \E m \in About(events, i, f) : \A k \in About(events, i, f) : k <= m
<1>1. About(events, i, f) \subseteq 0 .. Len(events)
    BY DEF About
<1> QED
    BY <1>1, GreatestIn

(* Events that come later do not count. *)
LEMMA ReadsSame ==
    ASSUME NEW s, NEW t, NEW i, NEW f \in Int, Len(s) \in Nat, Len(t) \in Nat,
           NEW n \in Nat, n <= Len(s), n <= Len(t),
           \A j \in 1 .. n : s[j] = t[j],
           \A j \in n + 1 .. Len(s) : ~(s[j].at <= f),
           \A j \in n + 1 .. Len(t) : ~(t[j].at <= f)
    PROVE  Reads(s, i, f) = Reads(t, i, f) /\ About(s, i, f) = About(t, i, f)
<1>1. ASSUME NEW j \in About(s, i, f)
      PROVE  j \in 1 .. n
    <2>1. j \in 1 .. Len(s) /\ s[j].at <= f
        BY DEF About
    <2>2. j \notin n + 1 .. Len(s)
        BY <2>1
    <2> QED
        BY <2>1, <2>2
<1>2. ASSUME NEW j \in About(t, i, f)
      PROVE  j \in 1 .. n
    <2>1. j \in 1 .. Len(t) /\ t[j].at <= f
        BY DEF About
    <2>2. j \notin n + 1 .. Len(t)
        BY <2>1
    <2> QED
        BY <2>1, <2>2
<1>3. \A j \in 1 .. n : j \in 1 .. Len(s) /\ j \in 1 .. Len(t)
    OBVIOUS
<1>4. About(s, i, f) = About(t, i, f)
    <2>1. ASSUME NEW j \in 1 .. n
          PROVE  j \in About(s, i, f) <=> j \in About(t, i, f)
        <3>1. s[j] = t[j] /\ j \in 1 .. Len(s) /\ j \in 1 .. Len(t)
            BY <1>3
        <3> QED
            BY <3>1 DEF About
    <2> QED
        BY <2>1, <1>1, <1>2
<1>5. CASE About(s, i, f) = {}
    <2>1. Reads(s, i, f) = Nothing[i]
        BY <1>5, ReadsNone
    <2>2. Reads(t, i, f) = Nothing[i]
        BY <1>4, <1>5, ReadsNone
    <2> QED
        BY <2>1, <2>2, <1>4
<1>6. CASE About(s, i, f) # {}
    <2>1. PICK m \in About(s, i, f) : \A k \in About(s, i, f) : k <= m
        BY <1>6, Newest
    <2>2. Reads(s, i, f) = s[m].to
        BY <2>1, ReadsNewest
    <2>3. Reads(t, i, f) = t[m].to
        BY <2>1, <1>4, ReadsNewest
    <2> QED
        BY <2>1, <2>2, <2>3, <1>1, <1>4
<1> QED
    BY <1>4, <1>5, <1>6

(* The filter keeps what is read of the frames before. *)
LEMMA ReadsBefore ==
    ASSUME NEW events, Ordered(events), NEW f \in Nat, NEW g \in Int, g < f, NEW i
    PROVE  /\ Reads(Before(events, f), i, g) = Reads(events, i, g)
           /\ About(Before(events, f), i, g) = About(events, i, g)
<1> DEFINE q == RebuiltAt(events, f)
           b == Before(events, f)
<1>1. /\ q \in 1 .. Len(events) + 1
      /\ \A j \in q .. Len(events) : events[j].at >= f
      /\ b = SubSeq(events, 1, q - 1)
    BY Parted
<1>2. IsSeq(events) /\ Len(events) \in Nat /\ \A j \in 1 .. Len(events) : events[j].at \in Nat
    BY OrderedShape DEF Ordered
<1> HIDE DEF q, b
<1>3. q - 1 \in 0 .. Len(events)
    BY <1>1, <1>2
<1>4. Len(b) = q - 1 /\ \A j \in 1 .. q - 1 : b[j] = events[j]
    BY <1>1, <1>2, <1>3, SeqPrefix
<1> DEFINE n == q - 1
<1>5. n \in Nat /\ n <= Len(events) /\ Len(b) = n /\ \A j \in 1 .. n : b[j] = events[j]
    BY <1>3, <1>4, <1>2
<1>6. ASSUME NEW j \in n + 1 .. Len(events)
      PROVE  ~(events[j].at <= g)
    <2>1. j \in q .. Len(events) /\ j \in 1 .. Len(events)
        BY <1>1, <1>2
    <2>2. events[j].at >= f /\ events[j].at \in Nat
        BY <2>1, <1>1, <1>2
    <2> QED
        BY <2>2
<1> HIDE DEF n
<1>7. \A j \in n + 1 .. Len(b) : ~(b[j].at <= g)
    BY <1>5
<1>8. Len(b) \in Nat /\ n <= Len(b)
    BY <1>5
<1>9. Reads(b, i, g) = Reads(events, i, g) /\ About(b, i, g) = About(events, i, g)
    BY <1>2, <1>5, <1>6, <1>7, <1>8, ReadsSame
<1> QED
    BY <1>9 DEF b

(* Nothing is read before the first frame. *)
LEMMA ReadsNothing ==
    ASSUME NEW events, Ordered(events), NEW i
    PROVE  Reads(events, i, -1) = Nothing[i]
<1>1. \A j \in 1 .. Len(events) : events[j].at \in Nat
    BY DEF Ordered
<1>2. About(events, i, -1) = {}
    BY <1>1 DEF About
<1> QED
    BY <1>2, ReadsOf

(* What the events of a new frame say of the frames before, and of the new one. *)
LEMMA ReadsNoted ==
    ASSUME NEW events, Ordered(events), frame \in Nat,
           \A j \in 1 .. Len(events) : events[j].at < frame,
           NEW in, IsInput(in), NEW i \in Items
    PROVE  LET e == events \o Changes(in) IN
           /\ \A g \in Int : g < frame =>
                 Reads(e, i, g) = Reads(events, i, g) /\ About(e, i, g) = About(events, i, g)
           /\ Reads(events, i, frame - 1) = prev[i] => Reads(e, i, frame) = in[i]
<1> DEFINE c == Changes(in)
           e == events \o c
           n == Len(events)
<1>1. /\ IsSeq(c) /\ Len(c) \in Nat
      /\ \A k \in 1 .. Len(c) : c[k].at = frame /\ c[k].to = in[c[k].of] /\ in[c[k].of] # prev[c[k].of]
      /\ \A k, m \in 1 .. Len(c) : c[k].of = c[m].of => k = m
      /\ in[i] # prev[i] => \E k \in 1 .. Len(c) : c[k].of = i
    BY Noted
<1>2. IsSeq(events) /\ n \in Nat /\ \A j \in 1 .. n : events[j].at \in Nat /\ events[j].at < frame
    BY OrderedShape DEF Ordered
<1> HIDE DEF c
<1>3. /\ IsSeq(e) /\ Len(e) = n + Len(c)
      /\ \A j \in 1 .. n : e[j] = events[j]
      /\ \A j \in 1 .. Len(c) : e[n + j] = c[j]
    BY <1>1, <1>2, SeqConcat
<1> HIDE DEF e, n
<1>4. Len(events) = n /\ Len(e) \in Nat
    BY <1>1, <1>2, <1>3 DEF n
<1>5. ASSUME NEW j \in n + 1 .. Len(e)
      PROVE  j - n \in 1 .. Len(c) /\ e[j] = c[j - n] /\ e[j].at = frame
    <2>1. j - n \in 1 .. Len(c) /\ n + (j - n) = j
        BY <1>1, <1>2, <1>3
    <2>2. e[n + (j - n)] = c[j - n]
        BY <2>1, <1>3
    <2> QED
        BY <2>1, <2>2, <1>1
<1>6. ASSUME NEW g \in Int, g < frame
      PROVE  Reads(e, i, g) = Reads(events, i, g) /\ About(e, i, g) = About(events, i, g)
    <2>1. \A j \in n + 1 .. Len(e) : ~(e[j].at <= g)
        BY <1>5, <1>6
    <2>2. \A j \in n + 1 .. Len(events) : ~(events[j].at <= g)
        BY <1>4, <1>2
    <2>3. n <= Len(e) /\ n <= Len(events) /\ \A j \in 1 .. n : e[j] = events[j]
        BY <1>1, <1>2, <1>3, <1>4
    <2> QED
        BY <2>1, <2>2, <2>3, <1>2, <1>4, ReadsSame
<1>7. ASSUME Reads(events, i, frame - 1) = prev[i]
      PROVE  Reads(e, i, frame) = in[i]
    <2>1. CASE in[i] # prev[i]
        <3>1. PICK k \in 1 .. Len(c) : c[k].of = i
            BY <2>1, <1>1
        <3>2. n + k \in 1 .. Len(e) /\ e[n + k] = c[k] /\ c[k].at = frame /\ c[k].to = in[i]
            BY <3>1, <1>1, <1>2, <1>3
        <3>3. n + k \in About(e, i, frame)
            BY <3>1, <3>2 DEF About
        <3>4. ASSUME NEW j \in About(e, i, frame)
              PROVE  j <= n + k
            <4>1. j \in 1 .. Len(e) /\ e[j].of = i
                BY DEF About
            <4>2. CASE j \in n + 1 .. Len(e)
                <5>1. j - n \in 1 .. Len(c) /\ c[j - n].of = i
                    BY <4>1, <4>2, <1>5
                <5>2. j - n = k
                    BY <5>1, <3>1, <1>1
                <5> QED
                    BY <5>2, <4>1, <1>2
            <4>3. CASE ~(j \in n + 1 .. Len(e))
                BY <4>1, <4>3, <1>2, <3>1
            <4> QED
                BY <4>2, <4>3
        <3>5. Reads(e, i, frame) = e[n + k].to
            BY <3>3, <3>4, <1>4, ReadsNewest
        <3> QED
            BY <3>5, <3>2
    <2>2. CASE in[i] = prev[i]
        <3>1. ASSUME NEW j \in n + 1 .. Len(e)
              PROVE  e[j].of # i
            BY <2>2, <1>1, <1>5
        <3>2. About(e, i, frame) = About(events, i, frame - 1)
            <4>1. ASSUME NEW j \in 1 .. n
                  PROVE  /\ j \in 1 .. Len(e)
                         /\ e[j] = events[j] /\ e[j].at <= frame /\ events[j].at <= frame - 1
                BY <1>1, <1>2, <1>3
            <4>2. ASSUME NEW j \in 1 .. Len(e), e[j].of = i
                  PROVE  j \in 1 .. n
                <5>1. j \notin n + 1 .. Len(e)
                    BY <3>1, <4>2
                <5> QED
                    BY <5>1, <1>2, <1>4
            <4> QED
                BY <4>1, <4>2, <1>4 DEF About
        <3>3. CASE About(e, i, frame) = {}
            BY <3>2, <3>3, <2>2, <1>7, ReadsOf
        <3>4. CASE About(e, i, frame) # {}
            <4>1. PICK m \in About(e, i, frame) : \A k \in About(e, i, frame) : k <= m
                BY <3>4, <1>4, Newest
            <4>2. Reads(e, i, frame) = e[m].to /\ Reads(events, i, frame - 1) = events[m].to
                BY <4>1, <3>2, <1>4, <1>2, ReadsNewest
            <4>3. m \in 1 .. n
                BY <4>1, <3>2, <1>4 DEF About
            <4> QED
                BY <4>2, <4>3, <1>3, <2>2, <1>7
        <3> QED
            BY <3>3, <3>4
    <2> QED
        BY <2>1, <2>2
<1> QED
    BY <1>6, <1>7 DEF e, c

(* What is held once the events from one position to another have been played. *)
LEMMA Held ==
    ASSUME NEW events, Len(events) \in Nat, NEW f \in Nat, NEW at, NEW i \in Items,
           NEW p \in 1 .. Len(events) + 1, NEW q \in p .. Len(events) + 1,
           \A j \in 1 .. p - 1 : events[j].at <= f - 1,
           \A j \in p .. Len(events) : ~(events[j].at <= f - 1),
           \A j \in 1 .. q - 1 : events[j].at <= f,
           \A j \in q .. Len(events) : ~(events[j].at <= f),
           at[i] = Reads(events, i, f - 1)
    PROVE  Play(events, p, q, at)[i] = Reads(events, i, f)
<1> DEFINE A == {j \in p .. q - 1 : events[j].of = i}
           n == Len(events)
<1>1. Play(events, p, q, at)[i] =
         IF A = {} THEN at[i] ELSE events[CHOOSE j \in A : \A k \in A : k <= j].to
    BY DEF Play
<1> HIDE DEF n
<1>2. n \in Nat /\ p \in 1 .. n + 1 /\ q \in p .. n + 1
    BY DEF n
<1>3. About(events, i, f) = {j \in 1 .. q - 1 : events[j].of = i}
    <2>1. \A j \in 1 .. n : events[j].at <= f => j \in 1 .. q - 1
        BY <1>2 DEF n
    <2>2. \A j \in 1 .. q - 1 : j \in 1 .. n /\ events[j].at <= f
        BY <1>2 DEF n
    <2> QED
        BY <2>1, <2>2 DEF About, n
<1>4. About(events, i, f - 1) = {j \in 1 .. p - 1 : events[j].of = i}
    <2>1. \A j \in 1 .. n : events[j].at <= f - 1 => j \in 1 .. p - 1
        BY <1>2 DEF n
    <2>2. \A j \in 1 .. p - 1 : j \in 1 .. n /\ events[j].at <= f - 1
        BY <1>2 DEF n
    <2> QED
        BY <2>1, <2>2 DEF About, n
<1>5. CASE A = {}
    <2>1. About(events, i, f) = About(events, i, f - 1)
        <3>1. \A j \in 1 .. q - 1 : j \in 1 .. p - 1 \/ j \in p .. q - 1
            BY <1>2
        <3>2. \A j \in 1 .. p - 1 : j \in 1 .. q - 1
            BY <1>2
        <3> QED
            BY <1>3, <1>4, <1>5, <3>1, <3>2
    <2>2. Reads(events, i, f) = Reads(events, i, f - 1)
        <3>1. CASE About(events, i, f) = {}
            <4>1. Reads(events, i, f) = Nothing[i]
                BY <3>1, ReadsNone
            <4>2. Reads(events, i, f - 1) = Nothing[i]
                BY <2>1, <3>1, ReadsNone
            <4> QED
                BY <4>1, <4>2
        <3>2. CASE About(events, i, f) # {}
            <4>1. PICK m \in About(events, i, f) : \A k \in About(events, i, f) : k <= m
                BY <3>2, Newest
            <4>2. Reads(events, i, f) = events[m].to
                BY <4>1, ReadsNewest
            <4>3. Reads(events, i, f - 1) = events[m].to
                BY <4>1, <2>1, ReadsNewest
            <4> QED
                BY <4>2, <4>3
        <3> QED
            BY <3>1, <3>2
    <2> QED
        BY <2>2, <1>1, <1>5
<1>6. CASE A # {}
    <2>0. n \in Nat /\ A \subseteq 0 .. n
        BY <1>2
    <2>1. PICK m \in A : \A k \in A : k <= m
        BY <2>0, <1>6, GreatestIn
    <2>2. m \in About(events, i, f)
        BY <2>1, <1>2, <1>3
    <2>3. ASSUME NEW k \in About(events, i, f)
          PROVE  k <= m
        <3>1. k \in 1 .. q - 1 /\ events[k].of = i
            BY <1>3
        <3>2. CASE k \in p .. q - 1
            BY <3>1, <3>2, <2>1
        <3>3. CASE ~(k \in p .. q - 1)
            BY <3>1, <3>3, <2>1, <1>2
        <3> QED
            BY <3>2, <3>3
    <2>4. Reads(events, i, f) = events[m].to
        BY <2>2, <2>3, ReadsNewest
    <2> DEFINE c == CHOOSE j \in A : \A k \in A : k <= j
    <2> HIDE DEF A
    <2>5. c \in A /\ \A k \in A : k <= c
        BY <2>1
    <2> HIDE DEF c
    <2>6. c <= m /\ m <= c /\ c \in Nat /\ m \in Nat
        BY <2>0, <2>1, <2>5
    <2>7. c = m
        BY <2>6
    <2> QED
        BY <1>1, <1>6, <2>4, <2>7 DEF c
<1> QED
    BY <1>5, <1>6

-------------------------------------------------------------------------------
(* Macro, replay and game *)

(* Where the way of the game has led the items. *)
LastOf(log) == IF Len(log) = 0 THEN Nothing ELSE log[Len(log)]

IsInputs(log) == \A f \in 1 .. Len(log) : IsInput(log[f])

Faithful(S, events, log) ==
    \A f \in 1 .. Len(log) : \A i \in S : Reads(events, i, f - 1) = log[f][i]

Reading(events, f) == [i \in Items |-> Reads(events, i, f)]

(* The input of frame f is what a replay of these events gives. *)
AsReplayed(S, events, log, f) ==
    Replays(log[f], Reading(events, f - 1), Moved(events, f - 1), S)

(* The events say what was given, those of an edit what a replay of them gives. *)
Said(S, events, log, edited) ==
    \A f \in 1 .. Len(log) :
        \/ \A i \in S : log[f][i] = Reads(events, i, f - 1)
        \/ edited /\ AsReplayed(S, events, log, f)

(* A replay of the events gives what a replay of the inputs would. *)
Alike(S, events, log) ==
    \A f \in 1 .. Len(log) :
        Replays(Applied(log[f]), Reading(events, f - 1), Moved(events, f - 1), S)

(* A replay in frame f: what is before its position has been played, and is held. *)
Stands(p, events, f) ==
    /\ p.pos \in 1 .. Len(events) + 1
    /\ \A j \in 1 .. p.pos - 1 : events[j].at < f
    /\ \A j \in p.pos .. Len(events) : events[j].at >= f
    /\ p.at = Reading(events, f - 1)

(* A snapshot of a recording. *)
Shot(S, s) == s.rec = TRUE /\ \A i \in S : s.keys[i] = LastOf(s.game.log)[i]

Restarted == fresh => game.log = <<>> /\ ~game.won

Inputs ==
    /\ IsInputs(game.log) /\ IsInputs(played)
    /\ \A j \in 1 .. Len(ring) : IsInputs(ring[j].game.log)

Asked ==
    /\ pendingrollback \in Nat /\ (pendingrollback > 0 => Does("rollback"))
    /\ requestrestart \/ mode = "play" => playable # NoMacro

Recorded ==
    mode = "record" =>
        /\ macro.length \in Nat
        /\ ~fresh =>
              /\ Said(Exact, macro.events, game.log, editmode)
              /\ \A i \in Exact : prev[i] = Reads(macro.events, i, frame - 1)
              /\ frame <= macro.length
              /\ ~Does("edit") => \A j \in 1 .. Len(ring) : Shot(Exact, ring[j])

Taken ==
    /\ Len(played) \in Nat
    /\ Alike(Exact, playable.events, played)
    /\ playable # NoMacro => playable.length \in Nat /\ Len(played) <= playable.length

Replayed ==
    mode = "play" =>
        /\ playm = playable
        /\ ~fresh =>
              /\ \A f \in 1 .. Len(game.log) : f <= playm.length =>
                     AsReplayed(Items, playm.events, game.log, f)
              /\ frame <= playm.length => Stands(playing, playm.events, frame)
              /\ Direct /\ playm.length < frame => game.won

FInv == Restarted /\ Inputs /\ Asked /\ Recorded /\ Taken /\ Replayed

(* What has been proved of every state. *)
Base == (OneRun => IInv) /\ Chronicle /\ (Direct => Timer)

-------------------------------------------------------------------------------
LEMMA ExactIs ==
    ASSUME Exact # {}
    PROVE  /\ OneRun /\ Exact \subseteq Items /\ Items \ {"cursor"} \subseteq Exact
           /\ ~(Does("rollback") /\ Does("edit"))
           /\ Does("rollback") => "cursor" \notin Exact
           /\ ~Does("rollback") => Exact = Items
           /\ Does("edit") => Direct
BY DEF Exact, OneRun, Direct

LEMMA SameExact ==
    ASSUME scenario' = scenario
    PROVE  Exact' = Exact /\ Direct' = Direct /\ \A x : Does(x)' = Does(x)
BY DEF Exact, OneRun, Direct, Does

LEMMA ItemNames ==
    /\ "Space" \in Items /\ "mouse" \in Items /\ "cursor" \in Items
    /\ "Space" # "mouse" /\ "Space" # "cursor" /\ "mouse" # "cursor"
BY KeysAssumption DEF Items

(* Nothing held is an input, and so is what is applied. *)
LEMMA NothingInput == IsInput(Nothing)
<1>1. Nothing = [i \in Items |-> Nothing[i]]
    BY DEF Nothing
<1>2. \A i \in Items \ {"cursor"} : Nothing[i] = FALSE
    BY DEF Nothing
<1> QED
    BY <1>1, <1>2, ItemNames DEF IsInput

LEMMA AppliedInput ==
    ASSUME NEW at, at = [i \in Items |-> at[i]], \A i \in Items \ {"cursor"} : at[i] \in BOOLEAN
    PROVE  IsInput(Applied(at))
<1> DEFINE a == Applied(at)
<1>1. a = [at EXCEPT !["Space"] = at["Space"] \/ at["mouse"]]
    BY DEF Applied
<1> HIDE DEF a
<1>2. /\ a = [i \in Items |-> IF i = "Space" THEN at["Space"] \/ at["mouse"] ELSE at[i]]
    BY <1>1, ItemNames
<1>3. \A i \in Items : a[i] = IF i = "Space" THEN at["Space"] \/ at["mouse"] ELSE at[i]
    BY <1>2
<1>4. a = [i \in Items |-> a[i]]
    BY <1>2
<1>5. a["mouse"] = at["mouse"] /\ a["Space"] = (at["Space"] \/ at["mouse"])
    BY <1>3, ItemNames
<1>6. \A i \in Items \ {"cursor"} : a[i] \in BOOLEAN
    BY <1>3, <1>5
<1> QED
    BY <1>4, <1>5, <1>6 DEF IsInput, a

(* What the game is given in a replay is an input too. *)
LEMMA GivenInput ==
    ASSUME Chronicle, NEW events, NEW place, NEW at,
           at = [i \in Items |-> at[i]], \A i \in Items \ {"cursor"} : at[i] \in BOOLEAN,
           NEW in \in Given(events, place, at)
    PROVE  /\ IsInput(in)
           /\ \A i \in Items \ {"cursor"} : in[i] = Applied(at)[i]
           /\ (\E j \in 1 .. place - 1 : events[j].of = "cursor") => in = Applied(at)
<1>1. IsInput(Applied(at))
    BY AppliedInput
<1> DEFINE a == Applied(at)
<1>2. a = [i \in Items |-> a[i]] /\ \A i \in Items \ {"cursor"} : a[i] \in BOOLEAN
    BY <1>1 DEF IsInput
<1> HIDE DEF a
<1>3. CASE \E j \in 1 .. place - 1 : events[j].of = "cursor"
    BY <1>1, <1>3 DEF Given, a
<1>4. CASE ~(\E j \in 1 .. place - 1 : events[j].of = "cursor")
    <2>1. PICK c \in scenario.inputs : in = [a EXCEPT !["cursor"] = c["cursor"]]
        BY <1>4 DEF Given, a
    <2>2. in = [i \in Items |-> IF i = "cursor" THEN c["cursor"] ELSE a[i]]
        BY <1>2, <2>1
    <2>3. in = [i \in Items |-> in[i]] /\ \A i \in Items \ {"cursor"} : in[i] = a[i]
        BY <2>2
    <2>4. IsInput(in)
        BY <1>2, <2>3 DEF IsInput
    <2> QED
        BY <1>4, <2>3, <2>4 DEF a
<1> QED
    BY <1>3, <1>4

LEMMA AppliedAt ==
    ASSUME NEW at, at = [i \in Items |-> at[i]]
    PROVE  /\ Applied(at)["Space"] = (at["Space"] \/ at["mouse"])
           /\ \A i \in Items : i # "Space" => Applied(at)[i] = at[i]
<1>1. Applied(at) = [i \in Items |-> IF i = "Space" THEN at["Space"] \/ at["mouse"] ELSE at[i]]
    BY ItemNames DEF Applied
<1> QED
    BY <1>1, ItemNames

LEMMA NoLog ==
    ASSUME NEW S, NEW events, NEW e
    PROVE  /\ Len(<<>>) = 0 /\ IsInputs(<<>>) /\ LastOf(<<>>) = Nothing
           /\ Said(S, events, <<>>, e) /\ Alike(S, events, <<>>)
<1>1. Len(<<>>) = 0
    BY Beginning
<1> QED
    BY <1>1 DEF IsInputs, Said, Alike, LastOf

(* Events that say the same of a frame. *)
LEMMA SameReading ==
    ASSUME NEW s, NEW t, NEW f,
           \A i \in Items : Reads(s, i, f) = Reads(t, i, f) /\ About(s, i, f) = About(t, i, f)
    PROVE  Reading(s, f) = Reading(t, f) /\ (Moved(s, f) <=> Moved(t, f))
<1>1. Moved(s, f) <=> About(s, "cursor", f) # {}
    BY DEF Moved, About
<1>2. Moved(t, f) <=> About(t, "cursor", f) # {}
    BY DEF Moved, About
<1>3. Reading(s, f) = Reading(t, f)
    BY DEF Reading
<1> QED
    BY <1>1, <1>2, <1>3, ItemNames

(* What is said is replayed. *)
LEMMA SaidAlike ==
    ASSUME NEW S, S \subseteq Items, "Space" \in S, "mouse" \in S, NEW events, NEW log, NEW e,
           IsInputs(log), Said(S, events, log, e)
    PROVE  Alike(S, events, log)
<1> SUFFICES ASSUME NEW f \in 1 .. Len(log), NEW i \in S,
                    i = "cursor" => Moved(events, f - 1)
             PROVE  Applied(log[f])[i] = Applied(Reading(events, f - 1))[i]
    BY DEF Alike, Replays
<1> DEFINE in == log[f]
           r == Reading(events, f - 1)
<1>1. /\ in = [j \in Items |-> in[j]] /\ in["Space"] \in BOOLEAN /\ in["mouse"] \in BOOLEAN
    BY ItemNames DEF IsInputs, IsInput
<1>2. r = [j \in Items |-> r[j]] /\ \A j \in Items : r[j] = Reads(events, j, f - 1)
    BY DEF Reading
<1>3. \/ \A j \in S : in[j] = r[j]
      \/ \A j \in S : (j = "cursor" => Moved(events, f - 1)) => in[j] = Applied(r)[j]
    BY <1>2 DEF Said, AsReplayed, Replays
<1> HIDE DEF in, r
<1>4. /\ Applied(in)["Space"] = (in["Space"] \/ in["mouse"])
      /\ \A j \in Items : j # "Space" => Applied(in)[j] = in[j]
    BY <1>1, AppliedAt
<1>5. /\ Applied(r)["Space"] = (r["Space"] \/ r["mouse"])
      /\ \A j \in Items : j # "Space" => Applied(r)[j] = r[j]
    BY <1>2, AppliedAt
<1>6. ASSUME \A j \in S : in[j] = r[j]
      PROVE  Applied(in)[i] = Applied(r)[i]
    <2>1. CASE i = "Space"
        BY <2>1, <1>4, <1>5, <1>6
    <2>2. CASE i # "Space"
        BY <2>2, <1>4, <1>5, <1>6
    <2> QED
        BY <2>1, <2>2
<1>7. ASSUME \A j \in S : (j = "cursor" => Moved(events, f - 1)) => in[j] = Applied(r)[j]
      PROVE  Applied(in)[i] = Applied(r)[i]
    <2>1. CASE i = "Space"
        <3>1. in["Space"] = (r["Space"] \/ r["mouse"]) /\ in["mouse"] = r["mouse"]
            BY <1>5, <1>7, ItemNames
        <3>2. (in["Space"] \/ in["mouse"]) = (r["Space"] \/ r["mouse"])
            BY <3>1
        <3> QED
            BY <2>1, <3>2, <1>4, <1>5
    <2>2. CASE i # "Space"
        BY <2>2, <1>4, <1>7
    <2> QED
        BY <2>1, <2>2
<1> QED
    BY <1>3, <1>6, <1>7 DEF in, r

(* Exactly said, an empty log apart, the last input is what is said last. *)
LEMMA LastRead ==
    ASSUME NEW S, NEW events, NEW log, IsSeq(log), Faithful(S, events, log), NEW i \in S,
           Reads(events, i, -1) = Nothing[i]
    PROVE  Reads(events, i, Len(log) - 1) = LastOf(log)[i]
<1>1. Len(log) \in Nat
    BY SeqLen
<1>2. CASE Len(log) = 0
    BY <1>2 DEF LastOf
<1>3. CASE Len(log) # 0
    <2>1. Len(log) \in 1 .. Len(log) /\ LastOf(log) = log[Len(log)]
        BY <1>1, <1>3 DEF LastOf
    <2> QED
        BY <2>1 DEF Faithful
<1> QED
    BY <1>2, <1>3

LEMMA SaidExactly ==
    ASSUME NEW S, NEW events, NEW log, NEW e, ~e
    PROVE  Said(S, events, log, e) <=> Faithful(S, events, log)
BY DEF Said, Faithful

(* One more input. *)
LEMMA MoreInputs ==
    ASSUME NEW log, IsSeq(log), IsInputs(log), NEW in, IsInput(in)
    PROVE  IsInputs(Append(log, in))
<1> DEFINE l == Append(log, in)
<1>1. /\ Len(log) \in Nat /\ Len(l) = Len(log) + 1
      /\ \A j \in 1 .. Len(log) : l[j] = log[j]
      /\ l[Len(log) + 1] = in
    BY SeqAppend
<1> HIDE DEF l
<1>2. ASSUME NEW f \in 1 .. Len(l)
      PROVE  IsInput(l[f])
    <2>1. f = Len(log) + 1 \/ f \in 1 .. Len(log)
        BY <1>1
    <2> QED
        BY <2>1, <1>1 DEF IsInputs
<1> QED
    BY <1>2 DEF IsInputs, l

(* The events of a frame say what was given in it. *)
LEMMA MoreSaid ==
    ASSUME NEW events, Ordered(events), frame \in Nat,
           \A j \in 1 .. Len(events) : events[j].at < frame,
           NEW log, IsSeq(log), frame = Len(log),
           NEW in, IsInput(in), NEW S, S \subseteq Items, NEW e,
           Said(S, events, log, e), \A i \in S : prev[i] = Reads(events, i, frame - 1)
    PROVE  /\ Said(S, events \o Changes(in), Append(log, in), e)
           /\ \A i \in S : Reads(events \o Changes(in), i, frame) = in[i]
<1> DEFINE m == events \o Changes(in)
           l == Append(log, in)
<1>1. /\ Len(log) \in Nat /\ Len(l) = Len(log) + 1
      /\ \A j \in 1 .. Len(log) : l[j] = log[j]
      /\ l[Len(log) + 1] = in
    BY SeqAppend
<1> HIDE DEF l
<1>2. \A i \in Items :
         /\ \A g \in Int : g < frame =>
               Reads(m, i, g) = Reads(events, i, g) /\ About(m, i, g) = About(events, i, g)
         /\ Reads(events, i, frame - 1) = prev[i] => Reads(m, i, frame) = in[i]
    BY ReadsNoted
<1> HIDE DEF m
<1>3. \A i \in S : Reads(m, i, frame) = in[i]
    BY <1>2
<1>4. ASSUME NEW f \in 1 .. Len(l)
      PROVE  \/ \A i \in S : l[f][i] = Reads(m, i, f - 1)
             \/ e /\ AsReplayed(S, m, l, f)
    <2>1. CASE f = Len(log) + 1
        <3>1. f - 1 = frame /\ l[f] = in
            BY <2>1, <1>1
        <3> QED
            BY <3>1, <1>3
    <2>2. CASE f \in 1 .. Len(log)
        <3>1. f - 1 \in Int /\ f - 1 < frame /\ l[f] = log[f]
            BY <2>2, <1>1
        <3>2. \A i \in Items : /\ Reads(m, i, f - 1) = Reads(events, i, f - 1)
                               /\ About(m, i, f - 1) = About(events, i, f - 1)
            BY <3>1, <1>2
        <3>3. /\ Reading(m, f - 1) = Reading(events, f - 1)
              /\ Moved(m, f - 1) <=> Moved(events, f - 1)
            BY <3>2, SameReading
        <3>4. \/ \A i \in S : log[f][i] = Reads(events, i, f - 1)
              \/ e /\ AsReplayed(S, events, log, f)
            BY <2>2 DEF Said
        <3>5. CASE \A i \in S : log[f][i] = Reads(events, i, f - 1)
            BY <3>1, <3>2, <3>5
        <3>6. CASE e /\ AsReplayed(S, events, log, f)
            BY <3>1, <3>3, <3>6 DEF AsReplayed, Replays
        <3> QED
            BY <3>4, <3>5, <3>6
    <2> QED
        BY <2>1, <2>2, <1>1
<1> QED
    BY <1>3, <1>4 DEF Said, m, l

(* What is kept says what was given before. *)
LEMMA LessFaithful ==
    ASSUME NEW events, Ordered(events), NEW log, IsSeq(log), NEW f \in 0 .. Len(log),
           NEW S, Faithful(S, events, log)
    PROVE  Faithful(S, Before(events, f), SubSeq(log, 1, f))
<1> DEFINE l == SubSeq(log, 1, f)
<1>1. Len(log) \in Nat /\ f \in Nat
    BY SeqLen
<1>2. Len(l) = f /\ \A j \in 1 .. f : l[j] = log[j]
    BY SeqPrefix
<1> HIDE DEF l
<1>3. ASSUME NEW g \in 1 .. Len(l), NEW i \in S
      PROVE  Reads(Before(events, f), i, g - 1) = l[g][i]
    <2>1. g - 1 \in Int /\ g - 1 < f /\ l[g] = log[g] /\ g \in 1 .. Len(log)
        BY <1>1, <1>2
    <2>2. Reads(Before(events, f), i, g - 1) = Reads(events, i, g - 1)
        BY <2>1, <1>1, ReadsBefore
    <2> QED
        BY <2>1, <2>2 DEF Faithful
<1> QED
    BY <1>3 DEF Faithful, l

(* A replay begins, or goes on after a step back, where it should. *)
LEMMA Rebuilt ==
    ASSUME NEW events, Ordered(events), NEW f \in Nat
    PROVE  Stands(Rebuild(events, f), events, f)
<1> DEFINE q == RebuiltAt(events, f)
           at == Play(events, 1, q, Nothing)
<1>1. /\ q \in 1 .. Len(events) + 1
      /\ \A j \in 1 .. q - 1 : events[j].at < f
      /\ \A j \in q .. Len(events) : events[j].at >= f
    BY Parted
<1>2. Rebuild(events, f) = [pos |-> q, at |-> at]
    BY DEF Rebuild
<1>3. Len(events) \in Nat /\ \A j \in 1 .. Len(events) : events[j].at \in Nat
    BY OrderedShape
<1> HIDE DEF q
<1>4. at = [i \in Items |-> at[i]]
    BY DEF Play
<1>5. ASSUME NEW i \in Items
      PROVE  at[i] = Reads(events, i, f - 1)
    <2> DEFINE A == {j \in 1 .. q - 1 : events[j].of = i}
    <2>1. at[i] = IF A = {} THEN Nothing[i]
                  ELSE events[CHOOSE j \in A : \A k \in A : k <= j].to
        BY DEF Play
    <2>2. About(events, i, f - 1) = A
        <3>1. ASSUME NEW j \in 1 .. Len(events)
              PROVE  events[j].at <= f - 1 <=> j \in 1 .. q - 1
            <4>1. events[j].at \in Nat
                BY <1>3
            <4>2. CASE j \in 1 .. q - 1
                BY <4>1, <4>2, <1>1
            <4>3. CASE ~(j \in 1 .. q - 1)
                <5>1. j \in q .. Len(events)
                    BY <4>3, <1>1, <1>3
                <5>2. events[j].at >= f
                    BY <5>1, <1>1
                <5> QED
                    BY <4>1, <4>3, <5>2
            <4> QED
                BY <4>2, <4>3
        <3>2. \A j \in 1 .. q - 1 : j \in 1 .. Len(events)
            BY <1>1, <1>3
        <3> QED
            BY <3>1, <3>2 DEF About
    <2> HIDE DEF A, at
    <2>3. CASE A = {}
        BY <2>1, <2>2, <2>3, ReadsNone
    <2>4. CASE A # {}
        <3>1. PICK m \in About(events, i, f - 1) : \A k \in About(events, i, f - 1) : k <= m
            BY <2>2, <2>4, <1>3, Newest
        <3>2. Reads(events, i, f - 1) = events[m].to
            BY <3>1, <1>3, ReadsNewest
        <3> DEFINE c == CHOOSE j \in A : \A k \in A : k <= j
        <3>3. c \in A /\ \A k \in A : k <= c
            BY <3>1, <2>2
        <3> HIDE DEF c
        <3>4. A \subseteq Nat
            BY DEF A
        <3>5. c <= m /\ m <= c /\ c \in Nat /\ m \in Nat
            BY <3>1, <3>3, <3>4, <2>2
        <3>6. c = m
            BY <3>5
        <3> QED
            BY <2>1, <2>4, <3>2, <3>6 DEF c
    <2> QED
        BY <2>3, <2>4
<1> HIDE DEF at
<1>6. at = Reading(events, f - 1)
    BY <1>4, <1>5 DEF Reading
<1> QED
    BY <1>1, <1>2, <1>6 DEF Stands

(* playframe holds what the macro says of the frame. *)
LEMMA FramePlayed ==
    ASSUME NEW events, Ordered(events), NEW f \in Nat, NEW p, Stands(p, events, f)
    PROVE  LET q == StopAt(events, p.pos, f)
               at == Play(events, p.pos, q, p.at)
           IN  /\ Stands([pos |-> q, at |-> at], events, f + 1)
               /\ at = Reading(events, f)
<1> DEFINE q == StopAt(events, p.pos, f)
           at == Play(events, p.pos, q, p.at)
<1>1. /\ p.pos \in 1 .. Len(events) + 1
      /\ \A j \in 1 .. p.pos - 1 : events[j].at < f
      /\ \A j \in p.pos .. Len(events) : events[j].at >= f
      /\ p.at = Reading(events, f - 1)
    BY DEF Stands
<1>2. /\ q \in p.pos .. Len(events) + 1
      /\ \A j \in 1 .. q - 1 : events[j].at < f + 1
      /\ \A j \in q .. Len(events) : events[j].at >= f + 1
    BY <1>1, Stopped
<1>3. Len(events) \in Nat /\ \A j \in 1 .. Len(events) : events[j].at \in Nat
    BY OrderedShape
<1> HIDE DEF q
<1>4. /\ \A j \in 1 .. p.pos - 1 : events[j].at <= f - 1
      /\ \A j \in p.pos .. Len(events) : ~(events[j].at <= f - 1)
      /\ \A j \in 1 .. q - 1 : events[j].at <= f
      /\ \A j \in q .. Len(events) : ~(events[j].at <= f)
    <2>1. ASSUME NEW j \in 1 .. p.pos - 1
          PROVE  events[j].at <= f - 1
        <3>1. events[j].at < f /\ events[j].at \in Nat
            BY <1>1, <1>3
        <3> QED
            BY <3>1
    <2>2. ASSUME NEW j \in p.pos .. Len(events)
          PROVE  ~(events[j].at <= f - 1)
        <3>1. events[j].at >= f /\ events[j].at \in Nat
            BY <1>1, <1>3
        <3> QED
            BY <3>1
    <2>3. ASSUME NEW j \in 1 .. q - 1
          PROVE  events[j].at <= f
        <3>1. events[j].at < f + 1 /\ events[j].at \in Nat
            BY <1>1, <1>2, <1>3
        <3> QED
            BY <3>1
    <2>4. ASSUME NEW j \in q .. Len(events)
          PROVE  ~(events[j].at <= f)
        <3>1. events[j].at >= f + 1 /\ events[j].at \in Nat
            BY <1>1, <1>2, <1>3
        <3> QED
            BY <3>1
    <2> QED
        BY <2>1, <2>2, <2>3, <2>4
<1>5. ASSUME NEW i \in Items
      PROVE  at[i] = Reads(events, i, f)
    <2>1. p.at[i] = Reads(events, i, f - 1)
        BY <1>1 DEF Reading
    <2> QED
        BY <2>1, <1>1, <1>2, <1>3, <1>4, Held
<1>6. at = [i \in Items |-> at[i]]
    BY DEF Play
<1> HIDE DEF at
<1>7. at = Reading(events, f)
    BY <1>5, <1>6 DEF Reading
<1>8. q \in 1 .. Len(events) + 1 /\ (f + 1) - 1 = f
    BY <1>1, <1>2, <1>3
<1>9. Stands([pos |-> q, at |-> at], events, f + 1)
    BY <1>2, <1>7, <1>8 DEF Stands
<1> QED
    BY <1>7, <1>9 DEF q, at

(* What the proofs of the steps use of a state. *)
LEMMA BaseIs ==
    ASSUME Base, Exact # {}
    PROVE  /\ IInv /\ Chronicle /\ (Direct => Timer)
           /\ IsGame(game) /\ IsSeq(game.log) /\ Len(game.log) \in Nat
           /\ IsSeq(ring) /\ Len(ring) \in Nat
           /\ frame \in Nat
           /\ Ordered(macro.events) /\ Ordered(playable.events) /\ Ordered(playm.events)
           /\ Going => Way(frame, ring, game.log)
<1>1. IInv
    BY ExactIs DEF Base
<1>2. IsSeq(game.log) /\ IsSeq(ring) /\ IsGame(game) /\ frame \in Nat
    BY <1>1 DEF IInv, Shapes, IsGame
<1> QED
    BY <1>1, <1>2, SeqLen DEF Base, Chronicle, IsMac, IInv

(* Nothing of what is claimed has changed. *)
LEMMA FaithfulStill ==
    ASSUME FInv, Asked', UNCHANGED <<scenario, frame, macro, prev, ring, playable, played,
                                     playm, playing, game, editmode>>,
           fresh' => fresh,
           mode' \in {"record", "play"} => mode' = mode /\ fresh' = fresh
    PROVE  FInv'
<1>1. Exact' = Exact /\ Direct' = Direct /\ \A x : Does(x)' = Does(x)
    BY SameExact
<1>2. Restarted' /\ Inputs'
    BY DEF FInv, Restarted, Inputs
<1>3. Recorded'
    BY <1>1 DEF FInv, Recorded
<1>4. Taken'
    BY <1>1 DEF FInv, Taken
<1>5. Replayed'
    BY <1>1 DEF FInv, Replayed, Stands
<1> QED
    BY <1>2, <1>3, <1>4, <1>5 DEF FInv

(* The macro is taken. *)
LEMMA FaithfulTaken ==
    ASSUME FInv, Base, Exact # {}, mode = "record", mode' = "idle", Take, fresh' => fresh,
           UNCHANGED <<scenario, ring, game, pendingrollback>>
    PROVE  FInv'
<1>1. Exact' = Exact /\ Direct' = Direct /\ \A x : Does(x)' = Does(x)
    BY SameExact
<1>2. playable' = macro /\ played' = game.log
    BY DEF Take
<1>3. Restarted' /\ Inputs'
    BY <1>2 DEF FInv, Restarted, Inputs
<1>4. macro.length \in Nat /\ Len(game.log) \in Nat
    BY BaseIs DEF FInv, Recorded
<1>5. macro # NoMacro
    BY <1>4 DEF NoMacro
<1>6. Asked'
    BY <1>1, <1>2, <1>5 DEF FInv, Asked
<1>7. CASE fresh
    <2>1. game.log = <<>>
        BY <1>7 DEF FInv, Restarted
    <2>2. Alike(Exact, macro.events, game.log) /\ Len(game.log) = 0
        BY <2>1, NoLog
    <2>3. Taken'
        BY <1>1, <1>2, <1>4, <1>7, <2>2 DEF Taken
    <2> QED
        BY <1>3, <1>6, <2>3 DEF FInv, Recorded, Replayed
<1>8. CASE ~fresh
    <2>1. /\ Said(Exact, macro.events, game.log, editmode) /\ frame <= macro.length
          /\ IsInputs(game.log)
        BY <1>8 DEF FInv, Recorded, Inputs
    <2>2. frame = Len(game.log)
        BY <1>8, BaseIs DEF Going, Way
    <2>3. Alike(Exact, macro.events, game.log)
        BY <2>1, ExactIs, ItemNames, SaidAlike
    <2>4. Taken'
        BY <1>1, <1>2, <1>4, <2>1, <2>2, <2>3 DEF Taken
    <2> QED
        BY <1>3, <1>6, <2>4 DEF FInv, Recorded, Replayed
<1> QED
    BY <1>7, <1>8

(* A session starts. *)
LEMMA FaithfulSession ==
    ASSUME FInv, Base, Exact # {}, mode' = "record", frame' = 0, ring' = <<>>, prev' = Nothing,
           macro' = [events |-> <<>>, length |-> 0],
           game' = [game EXCEPT !.log = <<>>], Asked', fresh' => fresh,
           UNCHANGED <<scenario, playable, played>>
    PROVE  FInv'
<1>1. Exact' = Exact /\ Direct' = Direct /\ \A x : Does(x)' = Does(x)
    BY SameExact
<1>2. game'.log = <<>> /\ game'.won = game.won
    BY BaseIs DEF IsGame
<1>3. Restarted' /\ Inputs'
    BY <1>2, NoLog DEF FInv, Restarted, Inputs
<1>4. Recorded'
    <2>1. Said(Exact', macro'.events, game'.log, editmode')
        BY <1>2, NoLog
    <2>2. macro'.length = 0 /\ macro'.events = <<>> /\ Len(ring') = 0 /\ frame' - 1 = -1
        BY NoLog
    <2>3. \A i \in Items : prev'[i] = Reads(macro'.events, i, frame' - 1)
        BY <2>2, NoEvents, ReadsNothing
    <2>4. Exact' \subseteq Items
        BY <1>1, ExactIs
    <2> QED
        BY <2>1, <2>2, <2>3, <2>4, <1>1 DEF Recorded
<1>5. Taken'
    BY <1>1 DEF FInv, Taken
<1> QED
    BY <1>3, <1>4, <1>5 DEF FInv, Replayed

(* The level restarts, or another one starts. *)
LEMMA FaithfulRestart ==
    ASSUME FInv, Asked', game' = NewGame, fresh' = TRUE, mode' # "record",
           mode' = "play" => mode = "play",
           UNCHANGED <<scenario, ring, playable, played, playm>>
    PROVE  FInv'
<1>1. Exact' = Exact /\ Direct' = Direct /\ \A x : Does(x)' = Does(x)
    BY SameExact
<1>2. game'.log = <<>> /\ game'.won = FALSE
    BY DEF NewGame
<1>3. Restarted' /\ Inputs'
    BY <1>2, NoLog DEF FInv, Restarted, Inputs
<1>4. Taken'
    BY <1>1 DEF FInv, Taken
<1>5. Replayed'
    BY DEF FInv, Replayed
<1> QED
    BY <1>3, <1>4, <1>5 DEF FInv, Recorded

LEMMA UserFaithful ==
    ASSUME FInv, Base, Exact # {}, User
    PROVE  FInv'
<1>0. OneRun /\ (Does("edit") => Direct) /\ IInv
    BY ExactIs, BaseIs
<1>1. CASE StepBack
    <2>1. scenario' = scenario /\ pendingrollback' = pendingrollback + 1 /\ Does("rollback")
          /\ UNCHANGED <<mode, requestrestart, playable>>
        BY <1>1 DEF StepBack, session, bound, taken
    <2>2. Asked'
        BY <2>1, SameExact DEF FInv, Asked
    <2> QED
        BY <1>1, <2>2, FaithfulStill DEF StepBack, session, bound, replay, taken
<1>2. CASE PlayMacro
    <2>1. scenario' = scenario /\ playable # NoMacro /\ UNCHANGED <<pendingrollback, playable>>
        BY <1>2 DEF PlayMacro, bound, taken
    <2>2. Asked'
        BY <2>1, SameExact DEF FInv, Asked
    <2> QED
        BY <1>2, <2>2, FaithfulStill DEF PlayMacro, bound, replay, taken
<1>3. CASE Practice
    <2>1. UNCHANGED <<scenario, mode, pendingrollback, requestrestart, playable>>
        BY <1>3 DEF Practice, session, bound, taken
    <2>2. Asked'
        BY <2>1, SameExact DEF FInv, Asked
    <2> QED
        BY <1>3, <2>2, FaithfulStill DEF Practice, session, bound, replay, taken
<1>4. CASE Record /\ mode = "record"
    <2>1. /\ mode' = "idle" /\ Take /\ Does("bridge")
          /\ UNCHANGED <<scenario, ring, game, fresh, pendingrollback>>
        BY <1>4 DEF Record, bound, requests
    <2> QED
        BY <1>4, <2>1, FaithfulTaken
<1>5. CASE Record /\ mode # "record" /\ recording
    <2>1. UNCHANGED <<scenario, mode, pendingrollback, requestrestart, playable>>
        BY <1>5 DEF Record, bound, requests, taken
    <2>2. Asked'
        BY <2>1, SameExact DEF FInv, Asked
    <2> QED
        BY <1>5, <2>2, FaithfulStill DEF Record, bound, replay, taken
<1>6. CASE Record /\ mode # "record" /\ ~recording
    <2>1. /\ StartSession /\ mode' = "record"
          /\ UNCHANGED <<scenario, pendingrollback, requestrestart, playable, played, fresh>>
        BY <1>6 DEF Record, StartSession, requests, taken
    <2>2. Asked'
        BY <2>1, SameExact DEF FInv, Asked
    <2> QED
        BY <2>1, <2>2, FaithfulSession DEF StartSession
<1>7. CASE ChangeLevel
    <2>1. /\ mode' = "idle" /\ UNCHANGED <<scenario, pendingrollback, playable>>
          /\ (requestrestart' => requestrestart)
        BY <1>7 DEF ChangeLevel, bound, taken
    <2>2. Asked'
        BY <2>1, SameExact DEF FInv, Asked
    <2> QED
        BY <1>7, <2>1, <2>2, FaithfulRestart DEF ChangeLevel, taken
<1> QED
    BY <1>1, <1>2, <1>3, <1>4, <1>5, <1>6, <1>7 DEF User

(* The paused replay is edited: what has been replayed is what the macro says. *)
LEMMA FaithfulEdit ==
    ASSUME FInv, Base, Exact # {}, TickEdit
    PROVE  FInv'
<1>1. Exact' = Exact /\ Direct' = Direct /\ \A x : Does(x)' = Does(x)
    BY SameExact DEF TickEdit, bound
<1>2. /\ IInv /\ (Direct => Timer) /\ IsGame(game) /\ IsSeq(game.log) /\ Len(game.log) \in Nat
      /\ frame \in Nat /\ Ordered(playm.events)
      /\ (Going => Way(frame, ring, game.log))
    BY BaseIs
<1>3. /\ requestpractice = "on" /\ mode = "play" /\ ~fresh /\ mode' = "record"
      /\ macro' = [events |-> Before(playm.events, frame), length |-> frame]
      /\ prev' = playing.at /\ editmode' = TRUE
      /\ game' = [game EXCEPT !.paused = FALSE]
      /\ UNCHANGED <<frame, ring, playable, played, fresh, pendingrollback, requestrestart>>
    BY DEF TickEdit, Settled, Edit, bound, taken
<1>4. Does("edit")
    BY <1>2, <1>3 DEF IInv, Control
<1>5. Direct /\ Timer /\ Exact = Items
    BY <1>2, <1>4, ExactIs
<1>6. ~game.won
    BY <1>3, <1>5 DEF Timer
<1>7. frame = Len(game.log)
    BY <1>2, <1>3 DEF Going, Way
<1>8. /\ playm = playable /\ playable # NoMacro
      /\ \A f \in 1 .. Len(game.log) : f <= playm.length =>
             AsReplayed(Items, playm.events, game.log, f)
      /\ frame <= playm.length => Stands(playing, playm.events, frame)
      /\ ~(playm.length < frame)
    BY <1>3, <1>5, <1>6 DEF FInv, Replayed, Asked
<1>9. frame <= playm.length
    <2>1. playm.length \in Nat
        BY <1>8 DEF FInv, Taken
    <2> QED
        BY <2>1, <1>2, <1>8
<1>10. playing.at = Reading(playm.events, frame - 1)
    BY <1>8, <1>9 DEF Stands
<1> DEFINE b == Before(playm.events, frame)
<1>11. macro'.events = b /\ macro'.length = frame
    BY <1>3
<1>12. \A g \in Int : g < frame =>
          \A i \in Items : /\ Reads(b, i, g) = Reads(playm.events, i, g)
                           /\ About(b, i, g) = About(playm.events, i, g)
    BY <1>2, ReadsBefore
<1> HIDE DEF b
<1>13. \A i \in Items : prev'[i] = Reads(b, i, frame - 1)
    <2>1. frame - 1 \in Int /\ frame - 1 < frame
        BY <1>2
    <2> QED
        BY <2>1, <1>3, <1>10, <1>12 DEF Reading
<1>14. game'.log = game.log /\ game'.won = game.won
    BY <1>2, <1>3 DEF IsGame
<1>15. Said(Items, b, game.log, TRUE)
    <2> SUFFICES ASSUME NEW f \in 1 .. Len(game.log)
                 PROVE  AsReplayed(Items, b, game.log, f)
        BY DEF Said
    <2>1. f <= playm.length /\ f - 1 \in Int /\ f - 1 < frame
        <3>1. playm.length \in Nat
            BY <1>8 DEF FInv, Taken
        <3> QED
            BY <3>1, <1>2, <1>7, <1>9
    <2>2. AsReplayed(Items, playm.events, game.log, f)
        BY <2>1, <1>8
    <2>3. /\ Reading(b, f - 1) = Reading(playm.events, f - 1)
          /\ Moved(b, f - 1) <=> Moved(playm.events, f - 1)
        BY <2>1, <1>12, SameReading
    <2> QED
        BY <2>2, <2>3 DEF AsReplayed, Replays
<1>16. Recorded'
    <2>1. Said(Exact', macro'.events, game'.log, editmode')
        BY <1>1, <1>3, <1>5, <1>11, <1>14, <1>15
    <2>2. \A i \in Exact' : prev'[i] = Reads(macro'.events, i, frame' - 1)
        BY <1>1, <1>3, <1>5, <1>11, <1>13
    <2>3. macro'.length \in Nat /\ frame' <= macro'.length
        BY <1>2, <1>3, <1>11
    <2>4. Does("edit")'
        BY <1>1, <1>4
    <2> QED
        BY <2>1, <2>2, <2>3, <2>4 DEF Recorded
<1>17. Restarted' /\ Inputs'
    BY <1>3, <1>14 DEF FInv, Restarted, Inputs
<1>18. Asked'
    BY <1>1, <1>3 DEF FInv, Asked
<1>19. Taken'
    BY <1>1, <1>3 DEF FInv, Taken
<1> QED
    BY <1>3, <1>16, <1>17, <1>18, <1>19 DEF FInv, Replayed

(* Snapshots of this way have its inputs. *)
LEMMA BackLog ==
    ASSUME FInv, Base, Exact # {}, Going, NEW shot, OnWay(shot, game.log)
    PROVE  /\ shot.frame \in 0 .. Len(game.log) /\ shot.frame <= frame
           /\ shot.game.log = SubSeq(game.log, 1, shot.frame)
           /\ Len(shot.game.log) = shot.frame
           /\ \A f \in 1 .. shot.frame : shot.game.log[f] = game.log[f] /\ f \in 1 .. Len(game.log)
<1>1. /\ IsSeq(game.log) /\ Len(game.log) \in Nat /\ frame = Len(game.log)
    BY BaseIs DEF Way
<1>2. shot.frame \in 0 .. Len(game.log) /\ shot.game.log = SubSeq(game.log, 1, shot.frame)
    BY DEF OnWay
<1>3. /\ Len(shot.game.log) = shot.frame
      /\ \A f \in 1 .. shot.frame : shot.game.log[f] = game.log[f]
    BY <1>1, <1>2, SeqPrefix
<1> QED
    BY <1>1, <1>2, <1>3

(* A step back: the events, the items held and the position in the replay go back with
   the game. *)
LEMMA FaithfulBack ==
    ASSUME FInv, Base, Exact # {}, TickBack, ring # <<>>
    PROVE  FInv'
<1> DEFINE snap == Last(ring)
<1>1. Exact' = Exact /\ Direct' = Direct /\ \A x : Does(x)' = Does(x)
    BY SameExact DEF TickBack, bound
<1>2. /\ IInv /\ IsGame(game) /\ IsSeq(game.log) /\ Len(game.log) \in Nat
      /\ frame \in Nat /\ Ordered(macro.events) /\ Ordered(playm.events) /\ Chronicle
      /\ (Going => Way(frame, ring, game.log))
    BY BaseIs
<1>3. /\ ~fresh /\ pendingrollback > 0 /\ pendingrollback' = pendingrollback - 1
      /\ ring' = Front(ring) /\ frame' = snap.frame /\ game' = snap.game
      /\ UNCHANGED <<mode, editmode, playm, playable, played, requestrestart, fresh>>
    BY DEF TickBack, Served, Restore, taken
<1>4. /\ Len(ring) \in Nat /\ 0 < Len(ring) /\ snap = ring[Len(ring)]
      /\ IsSeq(Front(ring)) /\ Len(Front(ring)) = Len(ring) - 1
      /\ \A j \in 1 .. Len(ring) - 1 : Front(ring)[j] = ring[j]
    BY <1>2, Popped DEF Chronicle
<1>5. Does("rollback") /\ ~Does("edit") /\ ~Direct /\ "cursor" \notin Exact /\ Exact \subseteq Items
    BY <1>3, ExactIs DEF FInv, Asked, Direct
<1>6. Restarted' /\ Inputs' /\ Asked' /\ Taken'
    <2>1. Restarted'
        BY <1>3 DEF Restarted
    <2>2. IsInputs(snap.game.log)
        BY <1>4 DEF FInv, Inputs
    <2>3. Inputs'
        BY <1>3, <1>4, <2>2 DEF FInv, Inputs
    <2>4. Asked'
        BY <1>1, <1>3, <1>5 DEF FInv, Asked
    <2>5. Taken'
        BY <1>1, <1>3 DEF FInv, Taken
    <2> QED
        BY <2>1, <2>3, <2>4, <2>5
<1>7. Len(ring) \in 1 .. Len(ring)
    BY <1>4
<1> HIDE DEF snap
<1>8. ASSUME mode = "record"
      PROVE  Recorded'
    <2>1. /\ macro' = [macro EXCEPT !.events = Before(macro.events, snap.frame)]
          /\ prev' = PrevOf(snap)
        BY <1>8, <1>3 DEF TickBack, Restore, snap
    <2>0. ~editmode
        BY <1>2, <1>5 DEF IInv, Control
    <2>2. /\ macro.length \in Nat /\ Faithful(Exact, macro.events, game.log)
          /\ frame <= macro.length /\ \A j \in 1 .. Len(ring) : Shot(Exact, ring[j])
        BY <1>3, <1>5, <1>8, <2>0, SaidExactly DEF FInv, Recorded
    <2>3. Going /\ OnWay(snap, game.log)
        BY <1>2, <1>3, <1>4, <1>7, <1>8 DEF Going, Way
    <2>4. /\ snap.frame \in 0 .. Len(game.log) /\ snap.frame <= frame
          /\ snap.game.log = SubSeq(game.log, 1, snap.frame)
          /\ Len(snap.game.log) = snap.frame
        BY <2>3, BackLog
    <2>5. Faithful(Exact, Before(macro.events, snap.frame), snap.game.log)
        BY <2>2, <2>4, <1>2, LessFaithful
    <2>6. macro = [events |-> macro.events, length |-> macro.length]
        BY <1>2 DEF Chronicle, IsMac
    <2> DEFINE b == Before(macro.events, snap.frame)
    <2>7. macro' = [macro EXCEPT !.events = b]
        BY <2>1
    <2> HIDE DEF b
    <2>8. macro'.events = b /\ macro'.length = macro.length
        BY <2>6, <2>7
    <2>9. Shot(Exact, snap)
        BY <2>2, <1>4, <1>7
    <2>10. ASSUME NEW i \in Exact
           PROVE  prev'[i] = LastOf(snap.game.log)[i]
        <3>1. i \in Items \ {"cursor"}
            BY <1>5
        <3>2. prev'[i] = (snap.rec /\ snap.keys[i])
            BY <2>1, <3>1 DEF PrevOf
        <3>3. snap.rec = TRUE /\ snap.keys[i] = LastOf(snap.game.log)[i]
            BY <2>9 DEF Shot
        <3>4. IsInput(LastOf(snap.game.log))
            <4>1. IsInputs(snap.game.log)
                BY <1>4, <1>7 DEF FInv, Inputs
            <4>2. CASE Len(snap.game.log) = 0
                BY <4>2, NothingInput DEF LastOf
            <4>3. CASE Len(snap.game.log) # 0
                <5>1. snap.frame \in 1 .. snap.frame
                    BY <2>4, <4>3, <1>2
                <5> QED
                    BY <5>1, <4>1, <4>3, <2>4 DEF LastOf, IsInputs
            <4> QED
                BY <4>2, <4>3
        <3>5. LastOf(snap.game.log)[i] \in BOOLEAN
            BY <3>1, <3>4 DEF IsInput
        <3> QED
            BY <3>2, <3>3, <3>5
    <2>11. frame' <= macro'.length
        BY <1>2, <1>3, <2>2, <2>4, <2>8
    <2>12. \A j \in 1 .. Len(ring') : Shot(Exact, ring'[j])
        BY <1>3, <1>4, <2>2
    <2>13. Said(Exact', macro'.events, game'.log, editmode')
        BY <1>1, <1>3, <2>0, <2>5, <2>8, SaidExactly DEF b
    <2>14. ASSUME NEW i \in Exact
           PROVE  prev'[i] = Reads(b, i, snap.frame - 1)
        <3>1. i \in Items /\ snap.frame \in Nat /\ -1 < snap.frame
            BY <1>2, <1>5, <2>4
        <3>2. Reads(macro.events, i, -1) = Nothing[i]
            BY <1>2, ReadsNothing
        <3>3. Reads(b, i, -1) = Nothing[i]
            BY <1>2, <3>1, <3>2, ReadsBefore DEF b
        <3>4. IsSeq(snap.game.log)
            BY <1>2, <1>4, <1>7 DEF IInv, Shapes, IsShot, IsGame
        <3>5. Faithful(Exact, b, snap.game.log)
            BY <2>5 DEF b
        <3>6. Reads(b, i, Len(snap.game.log) - 1) = LastOf(snap.game.log)[i]
            BY <3>3, <3>4, <3>5, LastRead
        <3> QED
            BY <3>6, <2>4, <2>10
    <2>15. \A i \in Exact' : prev'[i] = Reads(macro'.events, i, frame' - 1)
        BY <1>1, <1>3, <2>8, <2>14
    <2> QED
        BY <1>1, <1>5, <2>2, <2>8, <2>11, <2>12, <2>13, <2>15 DEF Recorded
<1>9. ASSUME mode = "play"
      PROVE  Replayed'
    <2>1. playing' = Rebuild(playm.events, snap.frame)
        BY <1>9, <1>3 DEF TickBack, Restore, snap
    <2>2. Going /\ OnWay(snap, game.log)
        BY <1>2, <1>3, <1>4, <1>7, <1>9 DEF Going, Way
    <2>3. /\ snap.frame \in 0 .. Len(game.log)
          /\ Len(snap.game.log) = snap.frame
          /\ \A f \in 1 .. snap.frame : snap.game.log[f] = game.log[f] /\ f \in 1 .. Len(game.log)
        BY <2>2, BackLog
    <2>4. Stands(playing', playm.events, snap.frame)
        BY <1>2, <2>1, <2>3, Rebuilt
    <2>5. /\ playm = playable
          /\ \A f \in 1 .. Len(game.log) : f <= playm.length =>
                 AsReplayed(Items, playm.events, game.log, f)
        BY <1>3, <1>9 DEF FInv, Replayed
    <2>6. ASSUME NEW f \in 1 .. Len(game'.log), f <= playm.length
          PROVE  AsReplayed(Items, playm.events, game'.log, f)
        BY <1>3, <2>3, <2>5, <2>6 DEF AsReplayed, Replays
    <2> QED
        BY <1>1, <1>3, <1>5, <2>4, <2>5, <2>6 DEF Replayed
<1> QED
    BY <1>3, <1>6, <1>8, <1>9 DEF FInv, Recorded, Replayed

LEMMA TickFaithful ==
    ASSUME FInv, Base, Exact # {}, Tick
    PROVE  FInv'
<1>0. IInv /\ Ordered(playable.events)
    BY BaseIs
<1>1. CASE TickRestarted \/ TickOver
    <2>1. UNCHANGED <<scenario, pendingrollback, requestrestart, playable>> /\ mode' = "idle"
        BY <1>1 DEF TickRestarted, TickOver, EndPlayback, bound, requests, taken
    <2>2. Asked'
        BY <2>1, SameExact DEF FInv, Asked
    <2> QED
        BY <1>1, <2>1, <2>2, FaithfulStill DEF TickRestarted, TickOver, bound, taken
<1>2. CASE TickSession
    <2>1. /\ StartSession /\ mode' = "record" /\ fresh' = FALSE
          /\ UNCHANGED <<scenario, pendingrollback, requestrestart, playable, played>>
          /\ ~requestrestart
        BY <1>2 DEF TickSession, SessionDue, StartSession, requests, taken
    <2>2. Asked'
        BY <2>1, SameExact DEF FInv, Asked
    <2> QED
        BY <2>1, <2>2, FaithfulSession DEF StartSession
<1>3. CASE TickSeen
    <2>1. /\ UNCHANGED <<scenario, mode, pendingrollback, requestrestart, playable>>
          /\ fresh' = FALSE
        BY <1>3 DEF TickSeen, session, bound, requests, taken
    <2>2. mode \notin {"record", "play"}
        BY <1>0, <1>3 DEF TickSeen, SessionDue, Control, IInv, session
    <2>3. Asked'
        BY <2>1, SameExact DEF FInv, Asked
    <2> QED
        BY <1>3, <2>1, <2>2, <2>3, FaithfulStill DEF TickSeen, session, bound, replay, taken
<1>4. CASE TickWin
    <2>1. /\ mode = "record" /\ mode' = "idle" /\ Take /\ game.won
          /\ UNCHANGED <<scenario, ring, game, fresh, pendingrollback>>
        BY <1>4 DEF TickWin, WinDue, bound, requests
    <2> QED
        BY <2>1, FaithfulTaken
<1>5. CASE TickWon
    <2>1. UNCHANGED <<scenario, mode, pendingrollback, requestrestart, playable>>
        BY <1>5 DEF TickWon, session, bound, requests, taken
    <2>2. Asked'
        BY <2>1, SameExact DEF FInv, Asked
    <2> QED
        BY <1>5, <2>2, FaithfulStill DEF TickWon, session, bound, taken
<1>6. CASE TickEdit
    BY <1>6, FaithfulEdit
<1>7. CASE TickEditPractice
    BY <1>0, <1>7 DEF TickEditPractice, Control, IInv
<1>8. CASE TickPractice
    <2>1. UNCHANGED <<scenario, pendingrollback, requestrestart, playable>>
          /\ mode' # "record" /\ (mode' = "play" => mode = "play")
        BY <1>8 DEF TickPractice, bound, taken
    <2>2. Asked'
        BY <2>1, SameExact DEF FInv, Asked
    <2> QED
        BY <1>8, <2>1, <2>2, FaithfulRestart DEF TickPractice, replay, taken
<1>9. CASE TickRestart
    <2>1. /\ requestrestart /\ requestrestart' = FALSE /\ mode' = "play" /\ frame' = 0
          /\ ring' = <<>> /\ game' = NewGame /\ playm' = playable
          /\ playing' = Rebuild(playable.events, 0) /\ fresh' = FALSE
          /\ UNCHANGED <<scenario, playable, played, pendingrollback>>
        BY <1>9 DEF TickRestart, bound, taken
    <2>2. Exact' = Exact /\ Direct' = Direct /\ \A x : Does(x)' = Does(x)
        BY <2>1, SameExact
    <2>3. game'.log = <<>> /\ Len(<<>>) = 0 /\ IsInputs(<<>>)
        BY <2>1, NoLog DEF NewGame
    <2>4. Restarted' /\ Inputs'
        BY <2>1, <2>3 DEF FInv, Restarted, Inputs
    <2>5. Asked'
        BY <2>1, <2>2 DEF FInv, Asked
    <2>6. Taken'
        BY <2>1, <2>2 DEF FInv, Taken
    <2>7. Stands(playing', playable.events, 0)
        BY <1>0, <2>1, Rebuilt
    <2>8. playable # NoMacro /\ playable.length \in Nat
        BY <2>1 DEF FInv, Asked, Taken
    <2>9. Replayed'
        BY <2>1, <2>3, <2>7, <2>8 DEF Replayed
    <2> QED
        BY <2>1, <2>4, <2>5, <2>6, <2>9 DEF FInv, Recorded
<1>10. CASE TickBack /\ ring = <<>>
    <2>1. /\ UNCHANGED <<scenario, mode, frame, macro, prev, ring, playable, played, playm, playing,
                         game, fresh, editmode, requestrestart>>
          /\ pendingrollback > 0 /\ pendingrollback' = pendingrollback - 1
        BY <1>10 DEF TickBack, bound, taken
    <2>2. Asked'
        BY <2>1, SameExact DEF FInv, Asked
    <2> QED
        BY <2>1, <2>2, FaithfulStill
<1>11. CASE TickBack /\ ring # <<>>
    BY <1>11, FaithfulBack
<1> QED
    BY <1>1, <1>2, <1>3, <1>4, <1>5, <1>6, <1>7, <1>8, <1>9, <1>10, <1>11 DEF Tick

(* What a macro says of an item is one of its values. *)
LEMMA ReadsValue ==
    ASSUME NEW s, NEW events, Len(events) \in Nat, Events(s, events), NEW f, NEW i \in Items
    PROVE  Reads(events, i, f) \in ValueIn(s, i)
<1>1. CASE About(events, i, f) = {}
    BY <1>1, ReadsNone DEF ValueIn
<1>2. CASE About(events, i, f) # {}
    <2>1. PICK m \in About(events, i, f) : \A k \in About(events, i, f) : k <= m
        BY <1>2, Newest
    <2>2. Reads(events, i, f) = events[m].to
        BY <2>1, ReadsNewest
    <2>3. m \in 1 .. Len(events) /\ events[m].of = i
        BY <2>1 DEF About
    <2> QED
        BY <2>2, <2>3 DEF Events
<1> QED
    BY <1>1, <1>2

(* What a macro says of a frame has the form of an input. *)
LEMMA ReadingInput ==
    ASSUME Chronicle, NEW events, Len(events) \in Nat, Events(scenario, events), NEW f
    PROVE  LET at == Reading(events, f) IN
           /\ at = [i \in Items |-> at[i]]
           /\ \A i \in Items \ {"cursor"} : at[i] \in BOOLEAN
<1> DEFINE at == Reading(events, f)
<1>1. at = [i \in Items |-> at[i]] /\ \A i \in Items : at[i] = Reads(events, i, f)
    BY DEF Reading
<1> HIDE DEF at
<1>2. ASSUME NEW i \in Items \ {"cursor"}
      PROVE  at[i] \in BOOLEAN
    <2>1. at[i] \in ValueIn(scenario, i)
        BY <1>1, ReadsValue
    <2> QED
        BY <2>1, HeldOrNot
<1> QED
    BY <1>1, <1>2 DEF at

(* The shots of the ring have the inputs of a way. *)
LEMMA InputsPushed ==
    ASSUME FInv, Base, Exact # {}, ring' = Push(ring, Capture)
    PROVE  \A j \in 1 .. Len(ring') : IsInputs(ring'[j].game.log)
<1>1. IsSeq(ring) /\ Capture.game = game
    BY BaseIs DEF Capture
<1> HIDE DEF Capture
<1>2. \A j \in 1 .. Len(ring') : ring'[j] = Capture \/ \E k \in 1 .. Len(ring) : ring'[j] = ring[k]
    BY <1>1, Pushed
<1>3. IsInputs(game.log) /\ \A k \in 1 .. Len(ring) : IsInputs(ring[k].game.log)
    BY DEF FInv, Inputs
<1> QED
    BY <1>1, <1>2, <1>3

(* The game runs for a frame. *)
LEMMA RunsFaithful ==
    ASSUME FInv, Base, Exact # {}, ~fresh, NEW in, IsInput(in),
           \/ Runs(in)
           \/ /\ game' = [game EXCEPT !.log = Append(@, in), !.paused = TRUE]
              /\ UNCHANGED fresh,
           ring' = Push(ring, Capture), played' = played
    PROVE  /\ Restarted' /\ Inputs'
           /\ fresh' \/ (~fresh' /\ game'.log = Append(game.log, in) /\ (game.won => game'.won))
<1> DEFINE l == Append(game.log, in)
<1>1. /\ game = [log |-> game.log, paused |-> game.paused, won |-> game.won]
      /\ IsSeq(game.log)
    BY BaseIs DEF IsGame
<1>2. IsInputs(l) /\ IsInputs(<<>>)
    <2>1. IsInputs(game.log)
        BY DEF FInv, Inputs
    <2> QED
        BY <1>1, <2>1, MoreInputs, NoLog
<1>3. IsInputs(played) /\ \A j \in 1 .. Len(ring') : IsInputs(ring'[j].game.log)
    BY InputsPushed DEF FInv, Inputs
<1>4. CASE game' = NewGame /\ fresh' = TRUE
    <2>1. game'.log = <<>> /\ game'.won = FALSE
        BY <1>4 DEF NewGame
    <2> QED
        BY <1>2, <1>3, <1>4, <2>1 DEF Restarted, Inputs
<1>5. CASE ~fresh' /\ \/ game' = [game EXCEPT !.log = l]
                      \/ game' = [game EXCEPT !.log = l, !.won = TRUE]
                      \/ game' = [game EXCEPT !.log = l, !.paused = TRUE]
    <2> HIDE DEF l
    <2>1. game'.log = l /\ (game'.won = TRUE \/ game'.won = game.won)
        BY <1>1, <1>5
    <2>2. Restarted' /\ Inputs'
        BY <1>2, <1>3, <1>5, <2>1 DEF Restarted, Inputs
    <2> QED
        BY <1>5, <2>1, <2>2 DEF l
<1>6. CASE ~(game' = NewGame /\ fresh' = TRUE)
    <2>1. /\ \/ game' = [game EXCEPT !.log = l]
             \/ game' = [game EXCEPT !.log = l, !.won = TRUE]
             \/ game' = [game EXCEPT !.log = l, !.paused = TRUE]
          /\ fresh' = fresh
        BY <1>6 DEF Runs
    <2> HIDE DEF l
    <2>2. ~fresh'
        BY <2>1
    <2> QED
        BY <1>5, <2>1, <2>2
<1> QED
    BY <1>4, <1>6

(* A frame is recorded. *)
LEMMA FaithfulRecorded ==
    ASSUME FInv, Base, TInv, Exact # {}, FrameRecord
    PROVE  FInv'
<1>1. Exact' = Exact /\ Direct' = Direct /\ \A x : Does(x)' = Does(x)
    BY SameExact DEF FrameRecord, bound
<1>2. PICK in \in scenario.inputs : RecordFrame(in) /\ Runs(in)
    BY DEF FrameRecord
<1>3. /\ mode = "record" /\ ~fresh /\ ring' = Push(ring, Capture) /\ frame' = frame + 1
      /\ UNCHANGED <<mode, editmode, playable, played, pendingrollback, requestrestart>>
    BY DEF FrameRecord, FrameDue, Served, requests, taken
<1>4. /\ Chronicle /\ IsSeq(game.log) /\ Len(game.log) \in Nat /\ frame \in Nat
      /\ frame = Len(game.log) /\ Ordered(macro.events) /\ IsSeq(ring)
    BY <1>3, BaseIs DEF IsGame, Going, Way
<1>5. IsInput(in) /\ Exact \subseteq Items
    BY <1>4, ScenarioIs, ExactIs
<1>6. /\ Restarted' /\ Inputs'
      /\ fresh' \/ (~fresh' /\ game'.log = Append(game.log, in))
    BY <1>2, <1>3, <1>5, RunsFaithful
<1>7. /\ macro'.events = macro.events \o Changes(in) /\ macro'.length = frame + 1 /\ prev' = in
    BY <1>2 DEF RecordFrame
<1>8. /\ Said(Exact, macro.events, game.log, editmode)
      /\ \A i \in Exact : prev[i] = Reads(macro.events, i, frame - 1)
      /\ ~Does("edit") => \A j \in 1 .. Len(ring) : Shot(Exact, ring[j])
    BY <1>3 DEF FInv, Recorded
<1>9. \A j \in 1 .. Len(macro.events) : macro.events[j].at < frame
    BY <1>3, <1>4 DEF Chronicle
<1>10. /\ Said(Exact, macro.events \o Changes(in), Append(game.log, in), editmode)
       /\ \A i \in Exact : Reads(macro.events \o Changes(in), i, frame) = in[i]
    BY <1>4, <1>5, <1>8, <1>9, MoreSaid
<1>11. ASSUME ~Does("edit"), NEW j \in 1 .. Len(ring')
       PROVE  Shot(Exact, ring'[j])
    <2>1. Capture.rec = TRUE /\ Capture.keys = prev /\ Capture.game = game
        BY <1>3 DEF Capture
    <2> HIDE DEF Capture
    <2>2. Shot(Exact, Capture)
        <3>1. ~editmode
            BY <1>11, BaseIs DEF IInv, Control
        <3>2. Faithful(Exact, macro.events, game.log)
            BY <1>8, <3>1, SaidExactly
        <3>3. \A i \in Exact : prev[i] = LastOf(game.log)[i]
            BY <1>4, <1>8, <3>2, LastRead, ReadsNothing
        <3> QED
            BY <2>1, <3>3 DEF Shot
    <2>3. ring'[j] = Capture \/ \E k \in 1 .. Len(ring) : ring'[j] = ring[k]
        BY <1>3, <1>4, Pushed
    <2> QED
        BY <2>2, <2>3, <1>8, <1>11
<1>12. Recorded'
    <2>1. macro'.length \in Nat /\ frame' = macro'.length
        BY <1>3, <1>4, <1>7
    <2>2. CASE fresh'
        BY <2>1, <2>2 DEF Recorded
    <2>3. CASE ~fresh'
        <3>1. game'.log = Append(game.log, in)
            BY <1>6, <2>3
        <3>2. Said(Exact', macro'.events, game'.log, editmode')
            BY <1>1, <1>3, <1>7, <1>10, <3>1
        <3>3. \A i \in Exact' : prev'[i] = Reads(macro'.events, i, frame' - 1)
            <4>1. frame' - 1 = frame
                BY <1>3, <1>4
            <4> QED
                BY <1>1, <1>7, <1>10, <4>1
        <3>4. frame' <= macro'.length
            BY <2>1
        <3> QED
            BY <1>1, <1>11, <2>1, <3>2, <3>3, <3>4 DEF Recorded
    <2> QED
        BY <2>2, <2>3
<1>13. Asked' /\ Taken'
    BY <1>1, <1>3 DEF FInv, Asked, Taken
<1> QED
    BY <1>3, <1>6, <1>12, <1>13 DEF FInv, Replayed

(* A frame is played. *)
LEMMA FaithfulPlayed ==
    ASSUME FInv, Base, TInv, Exact # {}, FramePlay
    PROVE  FInv'
<1> DEFINE events == playm.events
           q == StopAt(events, playing.pos, frame)
           at == Play(events, playing.pos, q, playing.at)
<1>1. Exact' = Exact /\ Direct' = Direct /\ \A x : Does(x)' = Does(x)
    BY SameExact DEF FramePlay, bound
<1>2. /\ mode = "play" /\ ~fresh /\ ring' = Push(ring, Capture) /\ frame' = frame + 1
      /\ frame < playm.length /\ playing' = [pos |-> q, at |-> at]
      /\ UNCHANGED <<mode, playm, playable, played, pendingrollback, requestrestart>>
    BY DEF FramePlay, FrameDue, Served, requests, taken
<1>3. PICK in \in Given(events, q, at) :
         \/ Runs(in)
         \/ /\ game' = [game EXCEPT !.log = Append(@, in), !.paused = TRUE]
            /\ UNCHANGED fresh
    BY DEF FramePlay
<1>4. /\ Chronicle /\ IsSeq(game.log) /\ Len(game.log) \in Nat /\ frame \in Nat
      /\ frame = Len(game.log) /\ Ordered(events) /\ Len(events) \in Nat
    BY <1>2, BaseIs, OrderedShape DEF IsGame, Going, Way
<1>5. /\ playm = playable /\ playable # NoMacro /\ playm.length \in Nat
      /\ \A f \in 1 .. Len(game.log) : f <= playm.length =>
             AsReplayed(Items, events, game.log, f)
      /\ Stands(playing, events, frame)
    BY <1>2, <1>4 DEF FInv, Replayed, Asked, Taken
<1>6. Stands(playing', events, frame + 1) /\ at = Reading(events, frame)
    BY <1>2, <1>4, <1>5, FramePlayed
<1>7. Events(scenario, events)
    BY <1>2 DEF TInv, Macros, MacroIn
<1> HIDE DEF q, at
<1>8. IsInput(in) /\ Replays(in, at, Moved(events, frame), Items)
    <2>1. at = [i \in Items |-> at[i]] /\ \A i \in Items \ {"cursor"} : at[i] \in BOOLEAN
        BY <1>4, <1>6, <1>7, ReadingInput
    <2>2. /\ IsInput(in)
          /\ \A i \in Items \ {"cursor"} : in[i] = Applied(at)[i]
          /\ (\E j \in 1 .. q - 1 : events[j].of = "cursor") => in = Applied(at)
        BY <1>3, <1>4, <2>1, GivenInput
    <2>3. Moved(events, frame) => \E j \in 1 .. q - 1 : events[j].of = "cursor"
        <3> SUFFICES ASSUME NEW j \in 1 .. Len(events), events[j].of = "cursor",
                            events[j].at <= frame
                     PROVE  j \in 1 .. q - 1
            BY DEF Moved
        <3>1. /\ q \in 1 .. Len(events) + 1
              /\ \A k \in q .. Len(events) : events[k].at >= frame + 1
            BY <1>2, <1>6 DEF Stands
        <3>2. events[j].at \in Nat
            BY <1>4, OrderedShape
        <3>3. j \notin q .. Len(events)
            BY <1>4, <3>1, <3>2
        <3> QED
            BY <1>4, <3>1, <3>3
    <2> QED
        BY <2>2, <2>3 DEF Replays
<1>9. /\ Restarted' /\ Inputs'
      /\ fresh' \/ (~fresh' /\ game'.log = Append(game.log, in))
    BY <1>3, <1>2, <1>8, RunsFaithful
<1>10. ASSUME ~fresh', NEW f \in 1 .. Len(game'.log), f <= playm.length
       PROVE  AsReplayed(Items, events, game'.log, f)
    <2>1. /\ Len(game'.log) = Len(game.log) + 1
          /\ \A j \in 1 .. Len(game.log) : game'.log[j] = game.log[j]
          /\ game'.log[Len(game.log) + 1] = in
        BY <1>4, <1>9, <1>10, SeqAppend
    <2>2. CASE f \in 1 .. Len(game.log)
        BY <2>1, <2>2, <1>5, <1>10 DEF AsReplayed, Replays
    <2>3. CASE f = Len(game.log) + 1
        <3>1. f - 1 = frame
            BY <2>3, <1>4
        <3> QED
            BY <2>1, <2>3, <3>1, <1>6, <1>8 DEF AsReplayed
    <2> QED
        BY <2>1, <2>2, <2>3, <1>4
<1>11. ~(playm.length < frame')
    BY <1>2, <1>4, <1>5
<1>12. Replayed'
    BY <1>1, <1>2, <1>5, <1>6, <1>10, <1>11 DEF Replayed
<1>13. Asked' /\ Taken'
    BY <1>1, <1>2 DEF FInv, Asked, Taken
<1> QED
    BY <1>2, <1>9, <1>12, <1>13 DEF FInv, Recorded

(* The macro is over. *)
LEMMA FaithfulEnd ==
    ASSUME FInv, Base, Exact # {}, FrameEnd
    PROVE  FInv'
<1>1. Exact' = Exact /\ Direct' = Direct /\ \A x : Does(x)' = Does(x)
    BY SameExact DEF FrameEnd, bound
<1>2. /\ mode = "play" /\ ~fresh /\ ring' = Push(ring, Capture) /\ frame' = frame + 1
      /\ frame >= playm.length
      /\ mode' \in {"play", "idle"} /\ (mode' = "play" => game.won)
      /\ UNCHANGED <<playm, playing, playable, played, pendingrollback, requestrestart>>
    BY DEF FrameEnd, EndPlayback, FrameDue, Served, requests, taken
<1>3. PICK in \in Given(<<>>, 1, Nothing) : Runs(in)
    BY DEF FrameEnd
<1>4. IsInput(in)
    <2>1. Nothing = [i \in Items |-> Nothing[i]] /\ \A i \in Items \ {"cursor"} : Nothing[i] \in BOOLEAN
        BY NothingInput DEF IsInput
    <2> QED
        BY <1>3, <2>1, BaseIs, GivenInput
<1>5. /\ IsSeq(game.log) /\ Len(game.log) \in Nat /\ frame \in Nat /\ frame = Len(game.log)
    BY <1>2, BaseIs DEF IsGame, Going, Way
<1>6. /\ playm = playable /\ playable # NoMacro /\ playm.length \in Nat
      /\ \A f \in 1 .. Len(game.log) : f <= playm.length =>
             AsReplayed(Items, playm.events, game.log, f)
    BY <1>2 DEF FInv, Replayed, Asked, Taken
<1>7. /\ Restarted' /\ Inputs'
      /\ fresh' \/ (~fresh' /\ game'.log = Append(game.log, in) /\ (game.won => game'.won))
    BY <1>2, <1>3, <1>4, RunsFaithful
<1>8. ASSUME ~fresh', NEW f \in 1 .. Len(game'.log), f <= playm.length
      PROVE  AsReplayed(Items, playm.events, game'.log, f)
    <2>1. f \in 1 .. Len(game.log)
        BY <1>2, <1>5, <1>6, <1>8, SeqAppend, <1>7
    <2>2. game'.log[f] = game.log[f]
        BY <1>5, <1>7, <1>8, <2>1, SeqAppend
    <2> QED
        BY <2>1, <2>2, <1>6, <1>8 DEF AsReplayed, Replays
<1>9. ~(frame' <= playm.length)
    BY <1>2, <1>5, <1>6
<1>10. Replayed'
    BY <1>1, <1>2, <1>6, <1>7, <1>8, <1>9 DEF Replayed
<1>11. Asked' /\ Taken'
    BY <1>1, <1>2 DEF FInv, Asked, Taken
<1> QED
    BY <1>2, <1>7, <1>10, <1>11 DEF FInv, Recorded

LEMMA FrameFaithful ==
    ASSUME FInv, Base, TInv, Exact # {}, Frame
    PROVE  FInv'
<1>1. CASE FrameRecord
    BY <1>1, FaithfulRecorded
<1>2. CASE FramePlay
    BY <1>2, FaithfulPlayed
<1>3. CASE FramePaused
    <2>1. /\ mode = "play" /\ ring' = Push(ring, Capture)
          /\ UNCHANGED <<scenario, mode, frame, fresh, playm, playing, playable, played,
                         pendingrollback, requestrestart>>
          /\ game' = [game EXCEPT !.paused = FALSE] \/ game' = game
        BY <1>3 DEF FramePaused, session, bound, replay, requests, taken
    <2>2. game'.log = game.log /\ game'.won = game.won
        BY <2>1, BaseIs DEF IsGame
    <2>3. Exact' = Exact /\ Direct' = Direct /\ \A x : Does(x)' = Does(x)
        BY <2>1, SameExact
    <2>4. Restarted' /\ Inputs'
        BY <2>1, <2>2, InputsPushed DEF FInv, Restarted, Inputs
    <2>5. Asked' /\ Taken'
        BY <2>1, <2>3 DEF FInv, Asked, Taken
    <2>6. Replayed'
        BY <2>1, <2>2, <2>3 DEF FInv, Replayed
    <2> QED
        BY <2>1, <2>4, <2>5, <2>6 DEF FInv, Recorded
<1>4. CASE FrameEnd
    BY <1>4, FaithfulEnd
<1>5. CASE FrameIdle
    <2>1. /\ mode' = "idle" /\ ~fresh /\ ring' = Push(ring, Capture)
          /\ UNCHANGED <<scenario, playable, played, pendingrollback, requestrestart>>
          /\ \/ UNCHANGED <<game, fresh>>
             \/ game' = [game EXCEPT !.won = TRUE] /\ UNCHANGED fresh
             \/ game' = NewGame /\ fresh' = TRUE
        BY <1>5 DEF FrameIdle, FrameDue, Served, bound, requests, taken
    <2>2. game'.log \in {game.log, <<>>} /\ (fresh' => game'.log = <<>> /\ ~game'.won)
        BY <2>1, BaseIs DEF IsGame, NewGame
    <2>3. Exact' = Exact /\ Direct' = Direct /\ \A x : Does(x)' = Does(x)
        BY <2>1, SameExact
    <2>4. Restarted' /\ Inputs'
        BY <2>1, <2>2, InputsPushed, NoLog DEF FInv, Restarted, Inputs
    <2>5. Asked' /\ Taken'
        BY <2>1, <2>3 DEF FInv, Asked, Taken
    <2> QED
        BY <2>1, <2>4, <2>5 DEF FInv, Recorded, Replayed
<1>6. CASE FramePractice \/ FrameRespawn
    <2>1. practstack = <<>> /\ Len(practstack) = 0 /\ scenario.points = 0
        BY BaseIs, ExactIs, Beginning DEF IInv, Control, OneRun
    <2> QED
        BY <1>6, <2>1 DEF FramePractice, FrameRespawn, PlacePoint, ErasePoint, ArmRespawn
<1> QED
    BY <1>1, <1>2, <1>3, <1>4, <1>5, <1>6 DEF Frame

(* The argument in one piece. *)
FaithInv == Exact # {} => FInv

LEMMA InitFaithful ==
    ASSUME Init, Exact # {}
    PROVE  FInv
<1>1. game.log = <<>> /\ ~game.won /\ mode = "idle" /\ Len(<<>>) = 0
    BY Beginning DEF Init, NewGame
<1>2. Restarted /\ Inputs
    BY <1>1, NoLog DEF Init, Restarted, Inputs
<1>3. Asked
    BY DEF Init, Asked
<1>4. Taken
    BY NoLog DEF Init, Taken
<1> QED
    BY <1>1, <1>2, <1>3, <1>4 DEF FInv, Recorded, Replayed

(* Macro, items held, position, snapshots and what the game was given go together. *)
THEOREM FaithInvAlways == Spec => []FaithInv
<1>1. Init => FaithInv
    BY InitFaithful DEF FaithInv
<1>2. (OneRun => IInv) /\ (Direct => Timer) /\ TInv /\ FaithInv /\ [Next]_vars => FaithInv'
    <2> SUFFICES ASSUME OneRun => IInv, Direct => Timer, TInv, FaithInv, [Next]_vars, Exact' # {}
                 PROVE  FInv'
        BY DEF FaithInv
    <2>1. scenario' = scenario
        BY SameScenario
    <2>2. Exact # {} /\ FInv
        BY <2>1, SameExact DEF FaithInv
    <2>3. Base
        BY DEF Base, TInv
    <2>4. CASE Next
        BY <2>2, <2>3, <2>4, UserFaithful, TickFaithful, FrameFaithful DEF Next
    <2>5. CASE UNCHANGED vars
        <3>1. UNCHANGED <<scenario, mode, pendingrollback, requestrestart, playable>>
            BY <2>5 DEF vars, session, bound, requests, taken
        <3>2. Asked'
            BY <2>2, <3>1, SameExact DEF FInv, Asked
        <3> QED
            BY <2>2, <2>5, <3>2, FaithfulStill DEF vars, session, bound, replay, taken
    <2> QED
        BY <2>4, <2>5
<1> QED
    BY <1>1, <1>2, Invariant, TimerAlways, TInvAlways, PTL DEF Spec

(* The macro of a running session says exactly what the game was given: recordframe
   notes every change, and a step back (restore) takes back as much of the macro and of
   the input state as of the game.  An edit goes on from where the replay stands: of the
   frames before it the macro says what the replay made of it. *)
THEOREM MacroFaithfulAlways == Spec => []MacroFaithful
<1>1. (OneRun => IInv) /\ (Direct => Timer) /\ TInv /\ FaithInv => MacroFaithful
    <2> SUFFICES ASSUME OneRun => IInv, Direct => Timer, TInv, FaithInv, Exact # {},
                        mode = "record", ~fresh
                 PROVE  /\ frame = Len(game.log)
                        /\ \A f \in 1 .. Len(game.log) :
                             LET r == Reading(macro.events, f - 1) IN
                             \/ \A i \in Exact : game.log[f][i] = r[i]
                             \/ /\ editmode
                                /\ Replays(game.log[f], r, Moved(macro.events, f - 1), Exact)
        BY DEF MacroFaithful, Says, Reading
    <2>1. Base
        BY DEF Base, TInv
    <2>2. frame = Len(game.log)
        BY <2>1, BaseIs DEF Going, Way
    <2>3. Said(Exact, macro.events, game.log, editmode)
        BY DEF FaithInv, FInv, Recorded
    <2>4. Exact \subseteq Items
        BY ExactIs
    <2>5. \A f \in 1 .. Len(game.log) : \A i \in Exact :
             Reading(macro.events, f - 1)[i] = Reads(macro.events, i, f - 1)
        BY <2>4 DEF Reading
    <2> QED
        BY <2>2, <2>3, <2>5 DEF Said, AsReplayed
<1> QED
    BY <1>1, Invariant, TimerAlways, TInvAlways, FaithInvAlways, PTL

(* A replay gives the game in every frame what a replay of the recorded input would: what
   was recorded, with Space held wherever the mouse is, and the cursor once the macro has
   moved it.  playframe holds what the macro says of the frame, also after
   rebuildplaystate. *)
THEOREM ReplayFaithfulAlways == Spec => []ReplayFaithful
<1>1. (OneRun => IInv) /\ (Direct => Timer) /\ TInv /\ FaithInv => ReplayFaithful
    <2> SUFFICES ASSUME OneRun => IInv, Direct => Timer, TInv, FaithInv, Exact # {},
                        mode = "play", ~fresh
                 PROVE  /\ frame = Len(game.log)
                        /\ \A f \in 1 .. Len(game.log) : f <= Len(played) =>
                             Replays(game.log[f], played[f], Moved(playm.events, f - 1), Exact)
        BY DEF ReplayFaithful
    <2>1. Base /\ FInv
        BY DEF Base, TInv, FaithInv
    <2>2. frame = Len(game.log) /\ Len(game.log) \in Nat
        BY <2>1, BaseIs DEF Going, Way
    <2>3. /\ playm = playable /\ playable # NoMacro
          /\ \A f \in 1 .. Len(game.log) : f <= playm.length =>
                 AsReplayed(Items, playm.events, game.log, f)
          /\ Alike(Exact, playable.events, played)
          /\ Len(played) \in Nat /\ playable.length \in Nat /\ Len(played) <= playable.length
        BY <2>1 DEF FInv, Replayed, Asked, Taken
    <2>4. Exact \subseteq Items
        BY ExactIs
    <2>5. ASSUME NEW f \in 1 .. Len(game.log), f <= Len(played)
          PROVE  Replays(game.log[f], played[f], Moved(playm.events, f - 1), Exact)
        <3> DEFINE r == Reading(playm.events, f - 1)
                   m == Moved(playm.events, f - 1)
        <3>1. f <= playm.length /\ f \in 1 .. Len(played)
            BY <2>2, <2>3, <2>5
        <3>2. Replays(game.log[f], r, m, Items)
            BY <2>3, <3>1 DEF AsReplayed
        <3>3. Replays(Applied(played[f]), r, m, Exact)
            BY <2>3, <3>1 DEF Alike
        <3> HIDE DEF r, m
        <3>4. Replays(game.log[f], played[f], m, Exact)
            BY <2>4, <3>2, <3>3 DEF Replays
        <3> QED
            BY <3>4 DEF m
    <2> QED
        BY <2>2, <2>5
<1> QED
    BY <1>1, Invariant, TimerAlways, TInvAlways, FaithInvAlways, PTL

===============================================================================
