CONSTANTS
    MaxRenders = 1
    MaxFrames = 1
    High = 1
    Low = 0
    Scenarios <- MCAborted
SPECIFICATION Spec
INVARIANTS
    AbortStopsEncoder
\* A user who starts no more videos is a state the game may stay in.
CHECK_DEADLOCK FALSE
