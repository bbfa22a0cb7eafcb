------------------------------ MODULE MCTrimMacro ------------------------------
(* TrimMacro on a small instance.  0 and 4 are near each other; 12 is near none
   of the others, but it is within Far of 28, where there is a checkpoint. *)
EXTENDS TrimMacro

MCPlaces      == {0, 4, 12, 28}
MCCheckpoints == {0, 28}
=============================================================================
