\* Paths over a start and a checkpoint, with and without backtracks and
\* checkpoints that are touched from afar.
SPECIFICATION Spec
CONSTANTS
    Items = {"jump"}
    Places <- MCPlaces
    Checkpoints <- MCCheckpoints
    Reach = 28
    MaxFrames = 6
    MaxChanges = 2
    Dead = Dead
    NoMacro = NoMacro
INVARIANTS
    TypeOK
    InputsFollow
    Seamless
    OnlyDetours
    LastAttemptWhole
\* A macro that has been trimmed is not recorded any further.
CHECK_DEADLOCK FALSE
