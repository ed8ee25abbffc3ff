CONSTANTS
    None = None
    NKeys = 1
    Samples = 2
    SampleGap = 1
    IdleGrace = 2
    ReconcileDelay = 1
    GapThreshold = 3
    MaxTime = 6
    MaxStarts = 2
    MaxIncidents = 1
SPECIFICATION Spec
INVARIANTS
    SessionsAreDisjoint
    EveryOutageIsRecorded
    TimeIsWatched
    LinkedOnce
PROPERTIES
    ConfirmedWasSustained
    ImplementsLedger
CHECK_DEADLOCK FALSE
