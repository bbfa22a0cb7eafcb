SPECIFICATION Spec
CONSTANTS
    MaxPackets = 2
    Duration <- MCDuration
    PacketEnd <- MCPacketEnd
    Tolerance = 1
    QueueSize = 1
    BufSize = 100
    Failing = {}
\* The process ends.
CHECK_DEADLOCK FALSE
INVARIANTS
    StopDrains
