--------------------------- MODULE MCMacroSession -----------------------------
(* Small instances of the recorder. *)
EXTENDS MacroSession

In(keys, mouse, cursor) ==
    [i \in Items |-> CASE i = "mouse" -> mouse
                       [] i = "cursor" -> cursor
                       [] OTHER -> i \in keys]

(* Two keys, the mouse with Space; the cursor rests. *)
KeyInputs == {In({}, FALSE, 0), In({"Space"}, FALSE, 0), In(Keys, TRUE, 0)}

(* The mouse pressed without Space. *)
MouseInputs == {In({}, FALSE, 0), In({"Left"}, TRUE, 0)}

OneKey == {In({}, FALSE, 0), In({"Space"}, FALSE, 0)}

(* The cursor at the origin and elsewhere, the mouse without Space. *)
CursorInputs == {In({}, FALSE, 0), In({"Left"}, TRUE, 1), In(Keys, FALSE, 2)}

(* Two sessions with steps back; a replay that is paused and edited; a     *)
(* short session with all of it and a checkpoint; one where practice mode  *)
(* is switched, commands come at any time and steps are taken back.        *)
MCScenarios ==
    {[inputs |-> MouseInputs, frames |-> 3, sessions |-> 2, back |-> 1,
      points |-> 0, does |-> {"rollback", "bridge", "leave"}],
     [inputs |-> CursorInputs, frames |-> 3, sessions |-> 1, back |-> 2,
      points |-> 0, does |-> {"edit", "leave"}],
     [inputs |-> OneKey, frames |-> 2, sessions |-> 1, back |-> 1,
      points |-> 1, does |-> {"rollback", "edit", "practice"}],
     [inputs |-> OneKey, frames |-> 2, sessions |-> 1, back |-> 1,
      points |-> 0, does |-> {"rollback", "bridge", "practice", "leave"}]}

(* One session with a checkpoint. *)
MCCheckpoint ==
    {[inputs |-> KeyInputs, frames |-> 3, sessions |-> 1, back |-> 2,
      points |-> 1, does |-> {"practice"}]}
===============================================================================
