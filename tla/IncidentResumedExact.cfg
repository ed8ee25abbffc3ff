CONSTANTS
    None = None
    NKeys = 1
    Component <- OwnComponent
    Readings <- NeverNone
    SkipsNone <- NoKeys
    RedDebounced <- NoKeys
    Debounce = 1
    ReconcileDelay = 2
    GapThreshold = 20
    Retention = 20
    WriteFaults = {}
    MaxTime = 7
    MaxStarts = 2
SPECIFICATION AuditSpec
INVARIANT ExactMeansWatched
CHECK_DEADLOCK FALSE
