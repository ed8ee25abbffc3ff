CONSTANTS
    None = None
    NKeys = 2
    Component <- OwnComponent
    Readings <- NetworkThenSensor
    SkipsNone <- SecondKey
    RedDebounced <- FirstKey
    Debounce = 1
    ReconcileDelay = 1
    GapThreshold = 3
    Retention = 9
    WriteFaults = {}
    MaxTime = 5
    MaxStarts = 2
SPECIFICATION Spec
INVARIANTS
    AlertHasIncident
    SnapshotTracks
PROPERTY ImplementsLedger
CHECK_DEADLOCK FALSE
