SPECIFICATION FairSpec
CONSTANTS
    MaxPackets = 2
    Duration <- MCDuration
    PacketEnd <- MCPacketEnd
    Tolerance = 1
    QueueSize = 1
    BufSize = 100
    Failing = {"mux", "audio demuxer"}
\* The process ends.
CHECK_DEADLOCK FALSE
INVARIANTS
    TypeOK
    WholeFile
    Balanced
PROPERTIES
    Ends
