CONSTANTS
    None = None
    NKeys = 1
    Component <- OwnComponent
    Readings <- Extremes
    SkipsNone <- NoKeys
    RedDebounced <- NoKeys
    Debounce = 1
    ReconcileDelay = 1
    GapThreshold = 2
    Retention = 1
    WriteFaults = {"append", "save"}
    MaxTime = 5
    MaxStarts = 3
SPECIFICATION AuditSpec
INVARIANTS
    CompletedOnce
    NotReopened
    OutagesAreTrue
CHECK_DEADLOCK FALSE
