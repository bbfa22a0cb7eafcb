---------------------------- MODULE MCVideoExport -----------------------------
(* Small instances of the video exporter.  The pause mark is two pending   *)
(* writes instead of 24, so that four frames reach it.                     *)
EXTENDS VideoExport

(* Two videos that nothing interrupts but whose calls may fail, the same   *)
(* with files that stay, one render with every fault, and two short        *)
(* renders that overlap.                                                   *)
MCScenarios ==
    {[renders |-> 2, frames |-> 4, faults |-> {"start", "mux", "wav"}],
     [renders |-> 2, frames |-> 1, faults |-> {"mux", "wav", "remove"}],
     [renders |-> 1, frames |-> 4, faults |-> FaultKinds],
     [renders |-> 2, frames |-> 1, faults |-> FaultKinds \ {"leave"}]}

(* One short render that the user aborts. *)
MCAborted == {[renders |-> 1, frames |-> 1, faults |-> {"abort"}]}
===============================================================================
