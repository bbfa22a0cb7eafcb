\* Two streams, so that one can end, be given up or fill the fifo while the other goes on.
SPECIFICATION FairSpec
CONSTANTS
    NbStreams = 2
    QueueSize = 2
    MaxItems = 3
INVARIANTS
    NoLostWakeup
PROPERTIES
    ImplementsChannels
    CallsReturn
\* When every stream has ended the consumer may stop calling.
CHECK_DEADLOCK FALSE
