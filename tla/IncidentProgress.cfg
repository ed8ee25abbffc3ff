CONSTANTS
    None = None
    NKeys = 1
    Component <- OwnComponent
    Readings <- NeverSilent
    SkipsNone <- NoKeys
    RedDebounced <- NoKeys
    Debounce = 1
    ReconcileDelay = 1
    GapThreshold = 3
    Retention = 9
    WriteFaults = {"append"}
    MaxTime = 5
    MaxStarts = 2
SPECIFICATION FairSpec
PROPERTIES
    PendingIsReconciled
    QuietUpdateReachesDisk
CHECK_DEADLOCK FALSE
