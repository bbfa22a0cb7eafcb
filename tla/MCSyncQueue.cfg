SPECIFICATION Spec
CONSTANTS
    NbStreams = 2
    Limiting <- MCLimiting
    BufSize = 2
    TimeBase <- MCTimeBase
    Second = 10
    Micro = 2
    MaxTs = 10
    MaxPackets = 3
CHECK_DEADLOCK FALSE
INVARIANTS
    HeadIsTrailing
    ShortestCuts
    ToldToStop
    Bounded
