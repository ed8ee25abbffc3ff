CONSTANTS
    None = None
    Absent = Absent
    BucketSeconds = 2
    GapBuckets = 2
    DaySeconds = 6
    Retention = 5
    FirstTime = 4
    MaxTime = 12
    MaxStarts = 2
    MaxFaults = 1
    Legacy <- MCLegacy
    Reading <- MCReading
SPECIFICATION Spec
INVARIANTS
    BucketsTile
    OutagesAreReported
    NothingIsLost
    ViewsAgree
CHECK_DEADLOCK FALSE
