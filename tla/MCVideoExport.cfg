CONSTANTS
    MaxRenders = 2
    MaxFrames = 4
    High = 2
    Low = 0
    Scenarios <- MCScenarios
SPECIFICATION FairSpec
INVARIANTS
    TypeOK
    SavedWhole
    Withheld
    Backpressure
    NothingLeft
PROPERTIES
    PauseEnds
    SavedOnce
    ExportEnds
\* A user who starts no more videos is a state the game may stay in.
CHECK_DEADLOCK FALSE
