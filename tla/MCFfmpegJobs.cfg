CONSTANTS
    Threads = {t1, t2}
    NoThread = none
    MaxJobs = 3
    FrameChunks = 2
    PipeCap = 1
SPECIFICATION FairSpec
INVARIANTS
    OwnedOnce
    NoneLost
    WholeFrames
PROPERTIES
    CommandsReturn
    NoResurrection
    ImplementsTable
\* Idle callers are a state the host may stay in: once MaxJobs is used up nothing more happens.
CHECK_DEADLOCK FALSE
