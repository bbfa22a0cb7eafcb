CONSTANTS
    Keys = {"Space", "Left"}
    Origin = 0
    RingSize = 2
    Scenarios <- MCScenarios
SPECIFICATION Spec
INVARIANTS
    TypeOK
    EventsInOrder
    MacroFaithful
    ReplayFaithful
    OneTimeline
PROPERTIES
    NotCutShort
\* The bounds on frames and sessions end every behaviour.
CHECK_DEADLOCK FALSE
