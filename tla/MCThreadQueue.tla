---------------------------- MODULE MCThreadQueue -----------------------------
(* ThreadQueue on a small instance: the constants are in the cfg file. *)
EXTENDS ThreadQueue
=============================================================================
