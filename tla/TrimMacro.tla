------------------------------- MODULE TrimMacro -------------------------------
(***************************************************************************)
(* trimmacro (3recordplayback.js): before a macro is played its deaths are *)
(* cut out.  Respawns at about the same place form a cluster; everything   *)
(* from the first visit of that place to the last respawn there goes, and  *)
(* the key changes are rebuilt for the frames that are left.               *)
(*                                                                         *)
(* The macro is recorded first, one frame after the other, by a player who *)
(* moves along a line, touches checkpoints, dies and respawns; so the      *)
(* macros that are trimmed are those a session can produce.  Distances are *)
(* those of the code; of the icon only the place is kept.                  *)
(***************************************************************************)
EXTENDS Integers, Sequences, SequencesExt, FiniteSetsExt

CONSTANTS
    Items,            \* keys and mouse button: pressed or not
    Places,           \* where the player can be; its least element is the start
    Checkpoints,      \* places of checkpoints, the start among them
    Reach,            \* how far the player moves in a frame
    MaxFrames,        \* bound on the frames
    MaxChanges,       \* bound on the key changes
    Dead,             \* icon entry of a frame without a visible player
    NoMacro           \* nothing has been trimmed yet

ASSUME PlacesAssumption ==
    /\ Places \subseteq Nat /\ Dead \notin Places
    /\ Checkpoints \subseteq Places /\ Min(Places) \in Checkpoints
ASSUME ItemsAssumption == IsFiniteSet(Items) /\ "back" \notin Items
ASSUME BoundsAssumption == MaxFrames \in Nat

Near == 6
Far  == 16

VARIABLES
    features,         \* "back": the player uses u-backtracks; "edge": checkpoints
                      \* can be touched from as far as Far, not only from Near
    macro,            \* the macro being recorded
    held,             \* prevkeys, prevmouse
    cp,               \* the checkpoint that holds
    trimmed           \* the macro that is replayed

vars == <<features, macro, held, cp, trimmed>>

Released == [i \in Items |-> FALSE]

(* An event is a key change or a "back". *)
Event(f, i, v) == [at |-> f, item |-> i, val |-> v]

Frames(m)   == 0 .. m.length - 1
Alive(m, f) == m.icon[f] # Dead
Dist(a, b)  == IF a < b THEN b - a ELSE a - b

(* The members of a set of frames, the least first. *)
InOrder(m, fs) ==
    LET upTo[f \in 0 .. m.length] ==
          IF f = 0 THEN <<>>
          ELSE IF f - 1 \in fs THEN Append(upTo[f - 1], f - 1) ELSE upTo[f - 1]
    IN  upTo[m.length]

TypeOK ==
    /\ features \subseteq {"back", "edge"}
    /\ macro.length \in 0 .. MaxFrames
    /\ macro.icon \in [Frames(macro) -> Places \cup {Dead}]
    /\ \A e \in DOMAIN macro.events : macro.events[e].at \in Frames(macro)
    /\ held \in [Items -> BOOLEAN]
    /\ cp \in Checkpoints
    /\ trimmed # NoMacro =>
         /\ trimmed.length \in 0 .. macro.length
         /\ trimmed.icon \in [Frames(trimmed) -> Places \cup {Dead}]
         /\ \A e \in DOMAIN trimmed.events : trimmed.events[e].at \in Frames(trimmed)

Init ==
    /\ features \in SUBSET {"back", "edge"}
    /\ macro = [length |-> 0, events |-> <<>>, icon |-> [f \in {} |-> Dead]]
    /\ held = Released
    /\ cp = Min(Places)
    /\ trimmed = NoMacro

-----------------------------------------------------------------------------
(* The changes from one state of the inputs to the next, as frame f's events. *)
Changes(f, old, new) ==
    SetToSeq({Event(f, i, new[i]) : i \in {j \in Items : new[j] # old[j]}})

(* Where the player was in the last frame. *)
Here == IF macro.length = 0 THEN Min(Places) ELSE macro.icon[macro.length - 1]

(* The checkpoint that holds when the player gets to p. *)
Touched(p) ==
    LET ahead(d) == {c \in Checkpoints : c > cp /\ Dist(c, p) <= d}
    IN  IF ahead(Near) # {} THEN {Max(ahead(Near))}
        ELSE {cp} \cup (IF "edge" \in features THEN ahead(Far) ELSE {})

(* A frame with inputs h, after which the player is at p: recordframe adds the
   events, recordicon the icon. *)
Frame(h, p, back) ==
    LET f == macro.length
    IN  /\ macro' = [length |-> f + 1,
                     events |-> macro.events \o (back \o Changes(f, held, h)),
                     icon   |-> [g \in 0 .. f |-> IF g = f THEN p ELSE macro.icon[g]]]
        /\ held' = h

Recording == trimmed = NoMacro /\ macro.length < MaxFrames

(* Inputs the player may hold next. *)
Inputs ==
    {h \in [Items -> BOOLEAN] :
       h = held \/ Cardinality({e \in DOMAIN macro.events : macro.events[e].item # "back"}) < MaxChanges}

Move ==
    /\ Recording /\ Here # Dead
    /\ \E h \in Inputs, p \in Places :
         /\ Dist(p, Here) <= Reach
         /\ Frame(h, p, <<>>)
         /\ cp' \in Touched(p)
    /\ UNCHANGED <<features, trimmed>>

Die ==
    /\ Recording
    /\ \E h \in Inputs : Frame(h, Dead, <<>>)
    /\ UNCHANGED <<features, cp, trimmed>>

Respawn ==
    /\ Recording /\ Here = Dead
    /\ \E h \in Inputs : Frame(h, cp, <<>>)
    /\ UNCHANGED <<features, cp, trimmed>>

(* The u key: the game is made to respawn the player at an earlier checkpoint. *)
Back ==
    /\ "back" \in features
    /\ Recording /\ Here # Dead
    /\ \E h \in Inputs, c \in {d \in Checkpoints : d <= cp} :
         /\ Frame(h, Dead, <<Event(macro.length, "back", TRUE)>>)
         /\ cp' = c
    /\ UNCHANGED <<features, trimmed>>

-----------------------------------------------------------------------------
(* The frames of a back event and the two after it. *)
BackFrames(m) ==
    UNION {m.events[e].at .. m.events[e].at + 2 :
             e \in {d \in DOMAIN m.events : m.events[d].item = "back"}}

(* A stretch of dead frames from s on, and the first frame after it. *)
DeadStarts(m) == {s \in Frames(m) : ~Alive(m, s) /\ (s = 0 \/ Alive(m, s - 1))}
RunEnd(m, s)  == Min({f \in s .. m.length : f = m.length \/ Alive(m, f)})

(* Those that no backtrack caused. *)
Deaths(m) == {s \in DeadStarts(m) : BackFrames(m) \cap (s - 2 .. s) = {}}

(* A mistake: every respawn joins the first cluster. *)
JoinsAny(cluster, r) == TRUE

Joins(cluster, r) == Dist(cluster.x, r.x) <= Near

(* A mistake: a cluster ends with its first respawn. *)
WithFirstOnly(clusters, r) ==
    LET joined == {i \in DOMAIN clusters : Joins(clusters[i], r)}
    IN  IF joined = {} THEN Append(clusters, r) ELSE clusters

(* clusters.find, and the cluster's span widened by the respawn. *)
WithRespawn(clusters, r) ==
    LET joined == {i \in DOMAIN clusters : Joins(clusters[i], r)}
    IN  IF joined = {} THEN Append(clusters, r)
        ELSE [clusters EXCEPT ![Min(joined)].tlast = Max({@, r.tlast})]

(* The respawn that ends the stretch of dead frames from s on. *)
Answer(m, s) == [x |-> m.icon[RunEnd(m, s)], firstdeath |-> s, tlast |-> RunEnd(m, s)]

Clusters(m) ==
    LET answered == InOrder(m, {s \in Deaths(m) : RunEnd(m, s) < m.length})
        clusters[n \in 0 .. Len(answered)] ==
          IF n = 0 THEN <<>> ELSE WithRespawn(clusters[n - 1], Answer(m, answered[n]))
    IN  clusters[Len(answered)]

(* The first frame a cluster cuts: after the first visit of its place. *)
From(m, c) ==
    LET visits(d) == {f \in 0 .. c.firstdeath - 1 : Alive(m, f) /\ Dist(m.icon[f], c.x) <= d}
    IN  CASE visits(Near) # {} -> Min(visits(Near)) + 1
          [] visits(Near) = {} /\ visits(Far) # {} -> Min(visits(Far)) + 1
          [] OTHER -> c.firstdeath

(* A mistake: the respawn frame goes with the cluster. *)
CutToRespawn(m) ==
    LET clusters == ToSet(Clusters(m))
    IN  {f \in Frames(m) : \/ \E s \in Deaths(m) : f \in s .. RunEnd(m, s) - 1
                           \/ \E c \in clusters : f \in From(m, c) .. c.tlast}

(* The frames of the deaths, and those between a cluster's ends. *)
Cut(m) ==
    LET clusters == ToSet(Clusters(m))
    IN  {f \in Frames(m) : \/ \E s \in Deaths(m) : f \in s .. RunEnd(m, s) - 1
                           \/ \E c \in clusters : f \in From(m, c) .. c.tlast - 1}

(* The kept frames: Kept(m)[n + 1] becomes frame n. *)
Kept(m) == LET cut == Cut(m) IN InOrder(m, Frames(m) \ cut)

(* A mistake: changes made in frames that are cut are forgotten. *)
DesiredIfKept(m, f) ==
    [i \in Items |->
       LET changes == {e \in DOMAIN m.events : m.events[e].at <= f /\ m.events[e].item = i
                                                 /\ m.events[e].at \notin Cut(m)}
       IN  changes # {} /\ m.events[Max(changes)].val]

(* The state of the inputs after the events up to frame f. *)
Desired(m, f) ==
    [i \in Items |->
       LET changes == {e \in DOMAIN m.events : m.events[e].at <= f /\ m.events[e].item = i}
       IN  changes # {} /\ m.events[Max(changes)].val]

(* A mistake: the events keep the numbers of the frames they came from. *)
TrimOldNumbers(m) ==
    LET kept == Kept(m)
        emitted(n) == IF n = 0 THEN Released ELSE Desired(m, kept[n])
    IN  IF Deaths(m) = {} THEN m
        ELSE [length |-> Len(kept),
              events |-> FlattenSeq([n \in 1 .. Len(kept) |->
                            Changes(kept[n], emitted(n - 1), Desired(m, kept[n]))]),
              icon   |-> [n \in 0 .. Len(kept) - 1 |-> m.icon[kept[n + 1]]]]

(* trimmacro.  What has been emitted before frame n is what was desired in the
   kept frame before it; "back" events are not taken over. *)
Trim(m) ==
    LET kept == Kept(m)
        emitted(n) == IF n = 0 THEN Released ELSE Desired(m, kept[n])
    IN  IF Deaths(m) = {} THEN m
        ELSE [length |-> Len(kept),
              events |-> FlattenSeq([n \in 1 .. Len(kept) |->
                            Changes(n - 1, emitted(n - 1), Desired(m, kept[n]))]),
              icon   |-> [n \in 0 .. Len(kept) - 1 |-> m.icon[kept[n + 1]]]]

(* The macro is made the playable one and a restart begins its replay. *)
Replay ==
    /\ trimmed = NoMacro /\ macro.length > 0
    /\ trimmed' = Trim(macro)
    /\ UNCHANGED <<features, macro, held, cp>>

Next == Move \/ Die \/ Respawn \/ Back \/ Replay

Spec == Init /\ [][Next]_vars

-----------------------------------------------------------------------------
(* playframe: the inputs of every frame of a replay.  A position in the events
   goes on over those of the frame, and over no other. *)
Played(m) ==
    LET state[f \in -1 .. m.length - 1] ==
          IF f = -1 THEN [pos |-> 1, keys |-> Released]
          ELSE LET old  == state[f - 1]
                   last == Max({p \in old.pos - 1 .. Len(m.events) :
                                  \A q \in old.pos .. p : m.events[q].at = f})
               IN  [pos  |-> last + 1,
                    keys |-> [i \in Items |->
                      LET mine == {q \in old.pos .. last : m.events[q].item = i}
                      IN  IF mine = {} THEN old.keys[i] ELSE m.events[Max(mine)].val]]
    IN  [f \in Frames(m) |-> state[f].keys]

Trimmed == trimmed # NoMacro

(* The frame of the original that each frame of the trimmed macro was. *)
Origin == IF Deaths(macro) = {} THEN [n \in Frames(macro) |-> n]
          ELSE LET kept == Kept(macro) IN [n \in 0 .. Len(kept) - 1 |-> kept[n + 1]]

(***************************************************************************)
(* A replay of the trimmed macro gives the game, frame by frame, the       *)
(* inputs that a replay of the original gives it in the frames that were   *)
(* kept, and puts the player where it was then (trimmacro, playframe).     *)
(***************************************************************************)
InputsFollow ==
    Trimmed =>
        LET origin == Origin
            new    == Played(trimmed)
            old    == Played(macro)
        IN  /\ DOMAIN origin = Frames(trimmed)
            /\ \A n \in Frames(trimmed) : /\ new[n] = old[origin[n]]
                                          /\ trimmed.icon[n] = macro.icon[origin[n]]

(* The recording begins at the start, and no two checkpoints pass for one. *)
AtStart == macro.icon[0] # Dead => Dist(macro.icon[0], Min(Places)) <= Near
Apart   == \A c, d \in Checkpoints : c # d => Dist(c, d) > Near

(***************************************************************************)
(* Where something was cut out the player does not jump: the frame before  *)
(* the cut is near the place where the player respawns after it, unless    *)
(* checkpoints are touched from afar or backtracks lead to earlier ones.   *)
(* The cuts of two checkpoints never run into each other then (trimmacro). *)
(***************************************************************************)
Seamless ==
    (Trimmed /\ features = {} /\ AtStart /\ Apart) =>
        LET origin == Origin
        IN  \A n \in Frames(trimmed) \ {0} :
                origin[n] # origin[n - 1] + 1 =>
                    /\ trimmed.icon[n - 1] # Dead /\ trimmed.icon[n] # Dead
                    /\ Dist(trimmed.icon[n - 1], trimmed.icon[n]) <= Near

(***************************************************************************)
(* Only detours are cut: a frame in which the player lived is missing only *)
(* if it lies between a frame near some place and a later respawn there    *)
(* (trimmacro, clusters).                                                  *)
(***************************************************************************)
OnlyDetours ==
    Trimmed =>
        LET origin == Origin
            there  == {origin[n] : n \in Frames(trimmed)}
        IN  \A f \in Frames(macro) \ there :
                Alive(macro, f) =>
                    \E a \in 0 .. f, b \in f + 1 .. macro.length - 1 :
                        /\ Alive(macro, a) /\ Alive(macro, b) /\ ~Alive(macro, b - 1)
                        /\ Dist(macro.icon[a], macro.icon[b]) <= Far

(***************************************************************************)
(* The successful attempt is whole: no death is replayed, and everything   *)
(* from the last respawn on is there (trimmacro).                          *)
(***************************************************************************)
LastAttemptWhole ==
    (Trimmed /\ Deaths(macro) # {}) =>
        LET origin == Origin
            there  == {origin[n] : n \in Frames(trimmed)}
            last   == RunEnd(macro, Max(Deaths(macro)))
            backs  == UNION {s .. RunEnd(macro, s) - 1 : s \in DeadStarts(macro) \ Deaths(macro)}
        IN  /\ last .. macro.length - 1 \subseteq there
            /\ \A f \in there : f >= last \/ Alive(macro, f) \/ f \in backs
=============================================================================
