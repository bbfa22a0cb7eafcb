----------------------------- MODULE MacroSession -----------------------------
(***************************************************************************)
(* The recorder of the TAS overlay: the background recording of the        *)
(* player's input as a macro of key changes, the step back through a ring  *)
(* of snapshots, the replay, the editing of a paused replay and the        *)
(* practice checkpoints (scripts/tas/1setup.js, 2practice.js and           *)
(* 3recordplayback.js).                                                    *)
(*                                                                         *)
(* One call of stack.step does, in this order: start a session, take the   *)
(* macro of a level that was won, serve one request, roll back, run n      *)
(* frames.  n is 0 whenever less than a frame's time has passed, so each   *)
(* of these is here an action of its own, enabled when the ones before it  *)
(* have nothing to do; several frames in one call are several actions.     *)
(* While nothing is recorded or replayed the overlay leaves the game alone *)
(* but for the snapshots, and those steps are left out unless the overlay  *)
(* is engaged.                                                             *)
(*                                                                         *)
(* The game is deterministic, so its state is here the inputs it was given *)
(* since the recorder's frame 0, which is looked at only while recording   *)
(* or replaying.  Players do not die without a checkpoint (trimmacro       *)
(* leaves such macros as they are).                                        *)
(***************************************************************************)
EXTENDS Integers, Sequences, FiniteSets, SequencesExt

CONSTANTS
    Keys,             \* the watched keys (t.watch), Space among them
    Origin,           \* the cursor position a session starts from
    RingSize,         \* t.ringsize (600)
    Scenarios         \* what the user does, and for how long

Items == Keys \cup {"mouse", "cursor"}

ASSUME KeysAssumption ==
    /\ IsFiniteSet(Keys) /\ "Space" \in Keys
    /\ Keys \cap {"mouse", "cursor"} = {}
ASSUME RingAssumption == RingSize \in Nat \ {0}

(* A behaviour runs in one scenario: the inputs a frame may have, bounds   *)
(* on the frames of a session, the sessions, the steps back asked for at a *)
(* time and the checkpoints, and the things the user does.  "bridge":      *)
(* commands come through the scene variable macroCmd (syncbridge) in any   *)
(* mode, also while the overlay's own buttons are hidden.  An input is any *)
(* set of keys, the mouse button and a place of the cursor: the button is  *)
(* recorded with Space, which a click in the level holds, or without it    *)
(* (a click on the overlay, resyncheld).                                   *)
Use == {"rollback", "edit", "practice", "leave", "bridge"}

IsInput(in) ==
    /\ in = [i \in Items |-> in[i]]
    /\ \A i \in Items \ {"cursor"} : in[i] \in BOOLEAN

ASSUME ScenariosAssumption ==
    \A s \in Scenarios :
        /\ \A in \in s.inputs : IsInput(in)
        /\ {s.frames, s.sessions, s.back, s.points} \subseteq Nat
        /\ s.does \subseteq Use

VARIABLES
    scenario,         \* the scenario of this behaviour
    mode,             \* t.mode
    recording,        \* t.recording
    frame,            \* t.frame
    macro,            \* t.macro
    prev,             \* t.prevkeys, t.prevmouse, t.prevcursor
    ring,             \* t.ring
    practice,         \* t.practice
    practstack,       \* t.practstack: the snapshots of the checkpoints
    awaitrespawn,     \* t.awaitrespawn
    editmode,         \* t.editmode
    playable,         \* t.playable.macro
    playm,            \* t.playm
    playing,          \* t.playpos and t.playkeys, t.playmouse, t.playcursor
    pendingrollback,  \* t.pendingrollback
    requestrestart,   \* t.requestrestart
    requestpractice,  \* t.requestpractice
    playend,          \* t.playend is set: the replayed level was won
    fresh,            \* the level's stopwatch is behind t.prevstop
    sessions,         \* the number of sessions started
    game,             \* the game: the inputs it was given, paused, won
    played            \* what the game had been given when playable was taken

bound    == <<scenario, sessions>>
session  == <<mode, recording, frame, macro, prev, editmode, bound>>
replay   == <<playm, playing, playend>>
prac     == <<practice, practstack, awaitrespawn>>
requests == <<pendingrollback, requestrestart, requestpractice>>
taken    == <<playable, played>>
vars     == <<session, replay, prac, requests, taken, ring, fresh, game>>

NoMacro == [events |-> <<>>, length |-> -1]        \* null
Nothing == [i \in Items |-> IF i = "cursor" THEN Origin ELSE FALSE]
NewGame == [log |-> <<>>, paused |-> FALSE, won |-> FALSE]

-------------------------------------------------------------------------------
(* Macros: the changes of each item, in the order of the frames *)

(* recordframe: one event per item that is not as it was. *)
Changes(in) ==
    LET changed == SetToSeq({i \in Items : in[i] # prev[i]}) IN
    [n \in DOMAIN changed |->
        [at |-> frame, of |-> changed[n], to |-> in[changed[n]]]]

(* filter: the events at these places, in their order. *)
Those(events, places) ==
    LET nth(n) ==
            CHOOSE j \in places : Cardinality({k \in places : k <= j}) = n IN
    [n \in 1 .. Cardinality(places) |-> events[nth(n)]]

(* The events before a frame: what restore and the editor keep.  A mistake:*)
(* those of the frame itself are kept.                                     *)
BeforeOrAt(events, f) ==
    Those(events, {j \in 1 .. Len(events) : events[j].at <= f})

Before(events, f) ==
    Those(events, {j \in 1 .. Len(events) : events[j].at < f})

(* The state of the items once the events from .. to - 1 have been played. *)
Play(events, from, to, at) ==
    [i \in Items |->
        LET about == {j \in from .. to - 1 : events[j].of = i} IN
        IF about = {} THEN at[i]
        ELSE events[CHOOSE j \in about : \A k \in about : k <= j].to]

(* A mistake: one event is played per frame. *)
StopAtNext(events, pos, f) ==
    IF pos <= Len(events) /\ events[pos].at = f THEN pos + 1 ELSE pos

(* Where playframe stops, the first event from pos on of another frame,    *)
(* and where rebuildplaystate stops.                                       *)
StopAt(events, pos, f) ==
    CHOOSE q \in pos .. Len(events) + 1 :
        /\ \A j \in pos .. q - 1 : events[j].at = f
        /\ q <= Len(events) => events[q].at # f

RebuiltAt(events, f) ==
    CHOOSE q \in 1 .. Len(events) + 1 :
        /\ \A j \in 1 .. q - 1 : events[j].at < f
        /\ q <= Len(events) => events[q].at >= f

(* A mistake: what is held now is not forgotten first. *)
RebuildOnTop(events, f) ==
    LET q == RebuiltAt(events, f) IN
    [pos |-> q, at |-> Play(events, 1, q, playing.at)]

Rebuild(events, f) ==
    LET q == RebuiltAt(events, f) IN
    [pos |-> q, at |-> Play(events, 1, q, Nothing)]

(* applykeystate holds Space as long as the mouse is pressed. *)
Applied(at) == [at EXCEPT !["Space"] = @ \/ at["mouse"]]

(* What the game is given: as long as none of the events before this place *)
(* is of the cursor, t.playcursor is null and the cursor stays where the   *)
(* user has it.                                                            *)
Given(events, place, at) ==
    IF \E j \in 1 .. place - 1 : events[j].of = "cursor" THEN {Applied(at)}
    ELSE {[Applied(at) EXCEPT !["cursor"] = in["cursor"]] :
              in \in scenario.inputs}

-------------------------------------------------------------------------------
(* Snapshots *)

(* capture: the input state is kept only while recording, the cursor never.*)
Capture ==
    [frame |-> frame, rec |-> mode = "record", keys |-> prev, game |-> game]

(* A mistake: the length is looked at before the push. *)
PushUnbounded(s, x) ==
    Append(IF Len(s) > RingSize THEN Tail(s) ELSE s, x)

(* step: the oldest snapshot is dropped when the ring is full. *)
Push(s, x) ==
    LET r == Append(s, x) IN IF Len(r) > RingSize THEN Tail(r) ELSE r

(* t.prevkeys and t.prevmouse as a snapshot has them, t.prevcursor as it is.*)
PrevOf(snap) ==
    [i \in Items |-> IF i = "cursor" THEN prev[i]
                     ELSE snap.rec /\ snap.keys[i]]

(* A mistake: the events of the frames taken back stay in the macro. *)
RestoreKeepsEvents(snap) ==
    /\ game' = snap.game
    /\ IF mode = "record"
       THEN macro' = macro /\ prev' = PrevOf(snap)
       ELSE UNCHANGED <<macro, prev>>
    /\ IF mode = "play"
       THEN playing' = Rebuild(playm.events, snap.frame)
       ELSE UNCHANGED playing

(* restore(scene, snap, "rollback"), but for the frame number, which a     *)
(* respawn increments as it ends.                                          *)
Restore(snap) ==
    /\ game' = snap.game
    /\ IF mode = "record"
       THEN /\ macro' = [macro EXCEPT !.events = Before(@, snap.frame)]
            /\ prev' = PrevOf(snap)
       ELSE UNCHANGED <<macro, prev>>
    /\ IF mode = "play"
       THEN playing' = Rebuild(playm.events, snap.frame)
       ELSE UNCHANGED playing

-------------------------------------------------------------------------------
Does(what) == what \in scenario.does

Init ==
    /\ scenario \in Scenarios
    /\ mode = "idle" /\ recording = TRUE /\ frame = 0
    /\ macro = NoMacro /\ prev = Nothing /\ editmode = FALSE
    /\ ring = <<>>
    /\ practice = FALSE /\ practstack = <<>> /\ awaitrespawn = FALSE
    /\ playable = NoMacro /\ played = <<>>
    /\ playm = NoMacro /\ playend = FALSE
    /\ playing = [pos |-> 1, at |-> Nothing]
    /\ pendingrollback = 0 /\ requestrestart = FALSE
    /\ requestpractice = "no"
    /\ fresh = TRUE /\ sessions = 0
    /\ game = NewGame

(* A mistake: the snapshots of the session before are kept. *)
StartSessionKeepsRing ==
    /\ macro' = [events |-> <<>>, length |-> 0]
    /\ frame' = 0 /\ ring' = ring /\ prev' = Nothing
    /\ editmode' = FALSE /\ mode' = "record"
    /\ sessions < scenario.sessions /\ sessions' = sessions + 1
    /\ UNCHANGED scenario
    /\ game' = [game EXCEPT !.log = <<>>]

(* startsession *)
StartSession ==
    /\ macro' = [events |-> <<>>, length |-> 0]
    /\ frame' = 0 /\ ring' = <<>> /\ prev' = Nothing
    /\ editmode' = FALSE /\ mode' = "record"
    /\ sessions < scenario.sessions /\ sessions' = sessions + 1
    /\ UNCHANGED scenario
    /\ game' = [game EXCEPT !.log = <<>>]

(* t.playable = {macro: t.macro} *)
Take ==
    /\ playable' = macro
    /\ played' = game.log

(* endplayback *)
EndPlayback == mode' = "idle" /\ playend' = FALSE

-------------------------------------------------------------------------------
(* What the user asks for (actions, 4video.js) *)

(* actions.stepb *)
StepBack ==
    /\ Does("rollback") /\ (mode = "play" => Does("bridge"))
    /\ pendingrollback < scenario.back
    /\ pendingrollback' = pendingrollback + 1
    /\ UNCHANGED <<session, replay, prac, requestrestart, requestpractice,
                   taken, ring, fresh, game>>

(* beginplayback(false) *)
PlayMacro ==
    /\ playable # NoMacro /\ (mode = "play" => Does("bridge"))
    /\ mode' = "idle" /\ requestrestart' = TRUE
    /\ UNCHANGED <<bound, recording, frame, macro, prev, editmode, replay,
                   prac, pendingrollback, requestpractice, taken, ring, fresh,
                   game>>

(* actions.practice; in a replay the button is there while it is paused.   *)
Practice ==
    /\ IF mode = "play"
       THEN Does("edit") /\ game.paused /\ ~game.won
       ELSE Does("practice")
    /\ requestpractice' = IF practice THEN "off" ELSE "on"
    /\ UNCHANGED <<session, replay, prac, pendingrollback, requestrestart,
                   taken, ring, fresh, game>>

(* actions.record *)
Record ==
    /\ Does("bridge")
    /\ IF recording \/ mode = "record"
       THEN /\ recording' = FALSE
            /\ IF mode = "record" THEN mode' = "idle" /\ Take
                                  ELSE UNCHANGED <<mode, taken>>
            /\ UNCHANGED <<bound, frame, macro, prev, editmode, ring,
                           game>>
       ELSE /\ recording' = TRUE /\ StartSession
            /\ UNCHANGED taken
    /\ UNCHANGED <<replay, prac, requests, fresh>>

(* Another level: stack.step outside a level cleans up if the overlay is   *)
(* busy, and the housekeeping of the new scene does the rest.              *)
ChangeLevel ==
    /\ Does("leave")
    /\ mode' = "idle" /\ recording' = TRUE /\ macro' = NoMacro
    /\ IF mode # "idle" \/ requestpractice # "no"
       THEN /\ requestrestart' = FALSE /\ requestpractice' = "no"
            /\ playend' = FALSE
       ELSE UNCHANGED <<requestrestart, requestpractice, playend>>
    /\ practstack' = <<>> /\ awaitrespawn' = FALSE
    /\ fresh' = TRUE /\ game' = NewGame
    /\ UNCHANGED <<bound, frame, prev, editmode, playm, playing, practice,
                   pendingrollback, taken, ring>>

-------------------------------------------------------------------------------
(* stack.step, before the frames *)

SessionDue ==
    /\ recording /\ ~requestrestart /\ requestpractice = "no"
    /\ \/ mode = "record" /\ fresh
       \/ mode = "idle" /\ ~playend /\ ~game.won /\ (macro = NoMacro \/ fresh)

WinDue == mode = "record" /\ game.won

(* A replay whose level was restarted ends. *)
TickRestarted ==
    /\ mode = "play" /\ fresh
    /\ fresh' = FALSE
    /\ EndPlayback
    /\ UNCHANGED <<bound, recording, frame, macro, prev, editmode, playm,
                   playing, prac, requests, taken, ring, game>>

TickSession ==
    /\ mode # "play" /\ SessionDue
    /\ fresh' = FALSE
    /\ StartSession
    /\ UNCHANGED <<recording, replay, prac, requests, taken>>

(* t.prevstop catches up and nothing is started. *)
TickSeen ==
    /\ mode # "play" /\ fresh /\ ~SessionDue
    /\ ~requestrestart /\ requestpractice = "no"
    /\ fresh' = FALSE
    /\ UNCHANGED <<session, replay, prac, requests, taken, ring, game>>

TickWin ==
    /\ ~SessionDue /\ WinDue
    /\ mode' = "idle" /\ Take
    /\ UNCHANGED <<bound, recording, frame, macro, prev, editmode, replay,
                   prac, requests, ring, fresh, game>>

WonDue == mode = "play" /\ ~playend /\ game.won

(* The replayed level is won: the replay ends four seconds later. *)
TickWon ==
    /\ ~fresh /\ WonDue
    /\ playend' = TRUE
    /\ UNCHANGED <<session, playm, playing, prac, requests, taken, ring,
                   fresh, game>>

(* A mistake: the timer of the last replay is not looked at, only the mode.*)
TickOverAnyTime ==
    /\ ~fresh
    /\ mode = "play"
    /\ EndPlayback
    /\ UNCHANGED <<bound, recording, frame, macro, prev, editmode, playm,
                   playing, prac, requests, taken, ring, fresh, game>>

TickOver ==
    /\ ~fresh
    /\ mode = "play" /\ playend
    /\ EndPlayback
    /\ UNCHANGED <<bound, recording, frame, macro, prev, editmode, playm,
                   playing, prac, requests, taken, ring, fresh, game>>

(* Nothing of the above is to be done; a request that is served lets       *)
(* t.prevstop catch up by the way.                                         *)
Settled == ~SessionDue /\ ~WinDue /\ ~WonDue /\ ~(mode = "play" /\ fresh)

(* clearpractice *)
ClearPractice == practstack' = <<>> /\ awaitrespawn' = FALSE

(* Mistake: the keys the replay holds are forgotten. *)
EditFromNothing ==
    /\ macro' = [events |-> Before(playm.events, frame), length |-> frame]
    /\ prev' = Nothing
    /\ mode' = "record" /\ editmode' = TRUE

(* The paused replay becomes a recording that goes on from this frame. *)
Edit ==
    /\ macro' = [events |-> Before(playm.events, frame), length |-> frame]
    /\ prev' = playing.at
    /\ mode' = "record" /\ editmode' = TRUE

TickEdit ==
    /\ Settled
    /\ requestpractice = "on" /\ mode = "play"
    /\ requestpractice' = "no"
    /\ Edit
    /\ practice' = TRUE /\ ClearPractice
    /\ game' = [game EXCEPT !.paused = FALSE]
    /\ UNCHANGED <<bound, recording, frame, replay, pendingrollback,
                   requestrestart, taken, ring, fresh>>

(* Practice mode is switched while an edit is recorded: the level goes on. *)
TickEditPractice ==
    /\ Settled
    /\ requestpractice # "no" /\ editmode /\ mode = "record"
    /\ requestpractice' = "no"
    /\ practice' = (requestpractice = "on") /\ ClearPractice
    /\ game' = [game EXCEPT !.paused = FALSE]
    /\ fresh' = FALSE
    /\ UNCHANGED <<session, replay, pendingrollback, requestrestart, taken,
                   ring>>

(* Otherwise the level restarts, its stopwatch too. *)
TickPractice ==
    /\ Settled
    /\ requestpractice # "no"
    /\ ~(mode = "play" /\ requestpractice = "on")
    /\ ~(editmode /\ mode = "record")
    /\ requestpractice' = "no"
    /\ mode' = IF mode = "record" THEN "idle" ELSE mode
    /\ practice' = (requestpractice = "on") /\ ClearPractice
    /\ game' = NewGame /\ fresh' = TRUE
    /\ UNCHANGED <<bound, recording, frame, macro, prev, editmode, replay,
                   pendingrollback, requestrestart, taken, ring>>

(* The replay of a copy of t.playable starts with the level. *)
TickRestart ==
    /\ Settled
    /\ requestpractice = "no" /\ requestrestart
    /\ requestrestart' = FALSE
    /\ editmode' = FALSE
    /\ game' = NewGame
    /\ frame' = 0 /\ ring' = <<>> /\ prev' = Nothing
    /\ practice' = FALSE /\ ClearPractice
    /\ mode' = "play"
    /\ playm' = playable
    /\ playing' = Rebuild(playable.events, 0)
    /\ fresh' = FALSE
    /\ UNCHANGED <<bound, playend, recording, macro, pendingrollback,
                   requestpractice, taken>>

Served == Settled /\ ~fresh /\ requestpractice = "no" /\ ~requestrestart

(* One step back: the newest snapshot, if there is one. *)
TickBack ==
    /\ Served
    /\ pendingrollback > 0
    /\ pendingrollback' = pendingrollback - 1
    /\ IF ring = <<>>
       THEN UNCHANGED <<ring, frame, macro, prev, playing, game>>
       ELSE LET snap == Last(ring) IN
            /\ ring' = Front(ring)
            /\ frame' = snap.frame
            /\ Restore(snap)
    /\ UNCHANGED <<bound, mode, recording, editmode, playm, playend, prac,
                   requestrestart, requestpractice, taken, fresh>>

-------------------------------------------------------------------------------
(* One frame *)

FrameDue == Served /\ pendingrollback = 0 /\ frame < scenario.frames

(* What the game makes of the input it is given in this frame. *)
Runs(in) ==
    \/ game' = [game EXCEPT !.log = Append(@, in)] /\ UNCHANGED fresh
    \/ /\ game' = [game EXCEPT !.log = Append(@, in), !.won = TRUE]
       /\ UNCHANGED fresh
    \/ game' = NewGame /\ fresh' = TRUE

(* recordframe *)
RecordFrame(in) ==
    /\ macro' = [events |-> macro.events \o Changes(in), length |-> frame + 1]
    /\ prev' = in

FrameRecord ==
    /\ FrameDue /\ mode = "record"
    /\ ring' = Push(ring, Capture)
    /\ \E in \in scenario.inputs : RecordFrame(in) /\ Runs(in)
    /\ frame' = frame + 1
    /\ UNCHANGED <<bound, mode, recording, editmode, replay, prac,
                   requests, taken>>

(* playframe, and the Escape key if the user pauses the replay. *)
FramePlay ==
    LET q == StopAt(playm.events, playing.pos, frame)
        at == Play(playm.events, playing.pos, q, playing.at) IN
    /\ FrameDue /\ mode = "play" /\ ~game.paused
    /\ frame < playm.length
    /\ ring' = Push(ring, Capture)
    /\ playing' = [pos |-> q, at |-> at]
    /\ \E in \in Given(playm.events, q, at) :
         \/ Runs(in)
         \/ /\ game' = [game EXCEPT !.log = Append(@, in), !.paused = TRUE]
            /\ UNCHANGED fresh
    /\ frame' = frame + 1
    /\ UNCHANGED <<bound, mode, recording, macro, prev, editmode, playm,
                   playend, prac, requests, taken>>

(* A paused replay: a snapshot and a step of the game, but no frame. *)
FramePaused ==
    /\ Served /\ pendingrollback = 0
    /\ mode = "play" /\ game.paused
    /\ ring' = Push(ring, Capture)
    /\ \/ game' = [game EXCEPT !.paused = FALSE]
       \/ UNCHANGED game
    /\ UNCHANGED <<session, replay, prac, requests, taken, fresh>>

(* The end of the macro: the input is released, the replay waits for the   *)
(* end of the win animation or is over.                                    *)
FrameEnd ==
    /\ FrameDue /\ mode = "play" /\ ~game.paused
    /\ frame >= playm.length
    /\ ring' = Push(ring, Capture)
    /\ IF game.won THEN mode' = mode /\ playend' = TRUE ELSE EndPlayback
    /\ \E in \in Given(<<>>, 1, Nothing) : Runs(in)
    /\ frame' = frame + 1
    /\ UNCHANGED <<bound, recording, macro, prev, editmode, playm, playing,
                   prac, requests, taken>>

(* Nothing is recorded: the game runs and the ring is filled. *)
FrameIdle ==
    /\ FrameDue /\ mode = "idle" /\ recording
    /\ ring' = Push(ring, Capture)
    /\ \/ UNCHANGED <<game, fresh>>
       \/ game' = [game EXCEPT !.won = TRUE] /\ UNCHANGED fresh
       \/ game' = NewGame /\ fresh' = TRUE
    /\ frame' = frame + 1
    /\ UNCHANGED <<bound, mode, recording, macro, prev, editmode, replay,
                   prac, requests, taken>>

(* The practice handler runs inside the game's step, after recordframe and *)
(* before the frame is counted: the snapshot of a checkpoint has the input *)
(* and the events of its frame behind it, and its number.                  *)
PlacePoint(in) ==
    /\ Len(practstack) < scenario.points
    /\ game' = [game EXCEPT !.log = Append(@, in)]
    /\ practstack' = Append(practstack,
           [frame |-> frame, rec |-> TRUE, keys |-> in, game |-> game'])
    /\ UNCHANGED awaitrespawn

ErasePoint(in) ==
    /\ practstack # <<>>
    /\ game' = [game EXCEPT !.log = Append(@, in)]
    /\ practstack' = Front(practstack)
    /\ awaitrespawn' = (awaitrespawn /\ Len(practstack) > 1)

(* A death, or the R key: the respawn is waited for, or was waited for     *)
(* too long.                                                               *)
ArmRespawn(in) ==
    /\ practstack # <<>>
    /\ game' = [game EXCEPT !.log = Append(@, in)]
    /\ awaitrespawn' = ~awaitrespawn
    /\ UNCHANGED practstack

FramePractice ==
    /\ FrameDue /\ mode = "record" /\ practice /\ ~game.won
    /\ ring' = Push(ring, Capture)
    /\ \E in \in scenario.inputs :
         /\ RecordFrame(in)
         /\ PlacePoint(in) \/ ErasePoint(in) \/ ArmRespawn(in)
    /\ frame' = frame + 1
    /\ UNCHANGED <<bound, mode, recording, editmode, practice, replay,
                   requests, taken, fresh>>

(* The player is back at the checkpoint: the frame that was being recorded *)
(* is dropped with all since the checkpoint, and the frame number goes on  *)
(* from there.                                                             *)
FrameRespawn ==
    LET snap == Last(practstack) IN
    /\ FrameDue /\ mode = "record" /\ practice
    /\ awaitrespawn /\ practstack # <<>>
    /\ ring' = Push(ring, Capture)
    /\ awaitrespawn' = FALSE
    /\ \E in \in scenario.inputs :
         /\ macro' = [events |-> Before(macro.events \o Changes(in), snap.frame),
                      length |-> frame + 1]
         /\ prev' = [PrevOf(snap) EXCEPT !["cursor"] = in["cursor"]]
    /\ game' = snap.game
    /\ frame' = snap.frame + 1
    /\ UNCHANGED <<bound, mode, recording, editmode, practice, practstack,
                   replay, requests, taken, fresh>>

-------------------------------------------------------------------------------
User == StepBack \/ PlayMacro \/ Practice \/ Record \/ ChangeLevel

Tick ==
    \/ TickRestarted \/ TickSession \/ TickSeen
    \/ TickWin \/ TickWon \/ TickOver
    \/ TickEdit \/ TickEditPractice \/ TickPractice \/ TickRestart
    \/ TickBack

Frame ==
    \/ FrameRecord \/ FramePlay \/ FramePaused \/ FrameEnd \/ FrameIdle
    \/ FramePractice \/ FrameRespawn

Next == User \/ Tick \/ Frame

Spec == Init /\ [][Next]_vars

-------------------------------------------------------------------------------
(* Properties *)

Value(i) == {in[i] : in \in scenario.inputs} \cup {Nothing[i]}

IsEvent(e) == /\ e.at \in 0 .. scenario.frames
              /\ e.of \in Items /\ e.to \in Value(e.of)

IsMacro(m) == /\ m.length \in 0 .. scenario.frames
              /\ \A j \in 1 .. Len(m.events) : IsEvent(m.events[j])

IsSnap(s) == /\ s.frame \in 0 .. scenario.frames /\ s.rec \in BOOLEAN
             /\ DOMAIN s.keys = Items /\ Len(s.game.log) <= scenario.frames

TypeOK ==
    /\ mode \in {"idle", "record", "play"} /\ recording \in BOOLEAN
    /\ frame \in 0 .. scenario.frames
    /\ macro = NoMacro \/ IsMacro(macro)
    /\ playable = NoMacro \/ IsMacro(playable)
    /\ mode = "record" => macro # NoMacro
    /\ mode = "play" => playm # NoMacro
    /\ \A i \in Items : prev[i] \in Value(i) /\ playing.at[i] \in Value(i)
    /\ Len(ring) <= RingSize /\ \A j \in 1 .. Len(ring) : IsSnap(ring[j])
    /\ practice \in BOOLEAN /\ awaitrespawn \in BOOLEAN /\ editmode \in BOOLEAN
    /\ \A j \in 1 .. Len(practstack) : IsSnap(practstack[j])
    /\ pendingrollback \in 0 .. scenario.back
    /\ requestrestart \in BOOLEAN /\ requestpractice \in {"no", "on", "off"}
    /\ fresh \in BOOLEAN /\ playend \in BOOLEAN

(* The input a macro stands for in frame f, by the last change of each     *)
(* item: what a reader of the macro file makes of it.                      *)
Reads(events, i, f) ==
    LET about == {j \in 1 .. Len(events) :
                     events[j].of = i /\ events[j].at <= f} IN
    IF about = {} THEN Nothing[i]
    ELSE events[CHOOSE j \in about : \A k \in about : k <= j].to

(* The events of every macro are in the order of their frames, none of a   *)
(* frame that has not been recorded: playframe stops for good at an event  *)
(* it finds late.                                                          *)
EventsInOrder ==
    mode = "record" =>
        /\ \A j \in 1 .. Len(macro.events) : macro.events[j].at < frame
        /\ \A j \in 1 .. Len(macro.events) - 1 :
               macro.events[j].at <= macro.events[j + 1].at

(* The run of the level, the frames and the recorder go together.  The code *)
(* does let them part at checkpoints; when an edit is recorded although    *)
(* recording was switched off, as then a restart of the level starts no    *)
(* session; and when the level restarts while practice mode is switched in *)
(* an edit.  No document says that it would not.                           *)
OneRun ==
    /\ scenario.points = 0
    /\ Does("edit") => ~Does("bridge") /\ ~Does("practice")

(* The items a macro is claimed to be exact about.  The code does lose     *)
(* changes where step back meets edit, and it does not rewind the cursor   *)
(* in a step back; no document says that it would not.                     *)
Exact ==
    IF ~OneRun \/ (Does("rollback") /\ Does("edit")) THEN {}
    ELSE IF Does("rollback") THEN Items \ {"cursor"} ELSE Items

(* The events up to frame f move the cursor. *)
Moved(events, f) ==
    \E j \in 1 .. Len(events) : events[j].of = "cursor" /\ events[j].at <= f

(* This input is what a replay makes of the input r, on the items S: Space *)
(* is held as well while the mouse is, and the cursor is anywhere until it *)
(* is first moved.                                                         *)
Replays(in, r, moved, S) ==
    \A i \in S : (i = "cursor" => moved) => in[i] = Applied(r)[i]

Says(S) ==
    mode = "record" /\ ~fresh =>
        /\ frame = Len(game.log)
        /\ \A f \in 1 .. Len(game.log) :
             LET r == [i \in Items |-> Reads(macro.events, i, f - 1)] IN
             \/ \A i \in S : game.log[f][i] = r[i]
             \/ /\ editmode
                /\ Replays(game.log[f], r, Moved(macro.events, f - 1), S)

(* The macro of a running session says exactly what the game was given in  *)
(* every frame on the way to where it now is, rollbacks or not.  An edited *)
(* one says either that of a frame or, as of those that were replayed,     *)
(* something of which the game was given what a replay makes of it.        *)
MacroFaithful == Exact # {} => Says(Exact)

(* A replay gives the game in every frame what it was given when the macro *)
(* was recorded, rollbacks of the recording and of the replay included;    *)
(* but it holds Space wherever the recording had the mouse pressed, and    *)
(* the cursor is anywhere until the macro first moves it.                  *)
ReplayFaithful ==
    mode = "play" /\ ~fresh /\ Exact # {} =>
        /\ frame = Len(game.log)
        /\ \A f \in 1 .. Len(game.log) :
             f <= Len(played) =>
                 Replays(game.log[f], played[f], Moved(playm.events, f - 1), Exact)

(* A replay is over when the level is won or its macro is, or when the     *)
(* user restarts or leaves the level: it is not cut short.  (The end timer *)
(* of a win does that was stepped back from, or after which the replay is  *)
(* begun again by macroCmd.)                                               *)
NotCutShort ==
    [][mode = "play" /\ mode' = "idle" /\ ~Does("rollback") /\ ~Does("bridge") =>
          \/ game.won \/ frame >= playm.length
          \/ fresh \/ requestrestart' \/ macro' = NoMacro]_vars

(* A step back leads to a state this run of the level has been in: every   *)
(* snapshot in the ring belongs to the way the game has come.              *)
OneTimeline ==
    mode \in {"record", "play"} /\ ~fresh /\ OneRun =>
        \A j \in 1 .. Len(ring) :
            /\ ring[j].frame <= frame
            /\ ring[j].game.log = SubSeq(game.log, 1, ring[j].frame)

(* "so practice checkpoints replay correctly inside macros" (1setup.js):   *)
(* after respawns too the macro says what the game was given.              *)
CheckpointsReplay == Says(Items \ {"cursor"})
===============================================================================
