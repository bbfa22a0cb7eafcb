------------------------------- MODULE JobTable -------------------------------
(***************************************************************************)
(* What the recorder backend of the desktop app promises to the page       *)
(* (dependencies/tauri/src-tauri/src/lib.rs, struct Ffmpeg and its         *)
(* commands), with every command taken as one indivisible step.            *)
(*                                                                         *)
(* A job is known to the page only by its handle.  Handles are issued in   *)
(* increasing order and never twice; a job leaves the table exactly once,  *)
(* through ffmpeg_finish or through ffmpeg_kill, and whoever comes second  *)
(* finds no job.  FfmpegJobs is the same table at the grain of its locks.  *)
(***************************************************************************)
EXTENDS Naturals

VARIABLES
    issued,           \* the highest handle handed out so far
    live              \* the handles that are in the table

tvars == <<issued, live>>

TInit ==
    /\ issued = 0
    /\ live = {}

(* ffmpeg_start: spawn, number and register a job in one step. *)
TStart ==
    /\ issued' = issued + 1
    /\ live' = live \cup {issued + 1}

(* ffmpeg_finish and ffmpeg_kill both begin by taking the job out of the   *)
(* table.  Only one of two competing calls gets it.                        *)
TRemove(h) ==
    /\ h \in live
    /\ live' = live \ {h}
    /\ UNCHANGED issued

TNext == TStart \/ \E h \in live : TRemove(h)

TSpec == TInit /\ [][TNext]_tvars
===============================================================================
