CONSTANTS
    Keys = {"Space", "Left"}
    Origin = 0
    RingSize = 2
    Scenarios <- MCCheckpoint
SPECIFICATION Spec
INVARIANTS
    CheckpointsReplay
\* The bounds on frames and sessions end every behaviour.
CHECK_DEADLOCK FALSE
