----------------------------- MODULE MCFfmpegJobs -----------------------------
(* Two callers of the job table; the constants are in the two cfg files:   *)
(* three jobs for the safety run, two for the liveness run.                *)
EXTENDS FfmpegJobs
===============================================================================
