----------------------------- MODULE MCSavePersist -----------------------------
(* SavePersist on small instances: the constants are in the cfg files. *)
EXTENDS SavePersist
=============================================================================
