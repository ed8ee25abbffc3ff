SPECIFICATION ConsoleSpec
CONSTANTS
    None = None
    Debounce = 2
    Floors <- DRIVE_ZONES
    Temperatures <- DriveTemperatures
    RedAtOnce = TRUE
    MayBeSilent = TRUE
    Steps <- PollOrSleep
    MaxTime = 8
    Capacity = 2
    MaxTick = 6
    Instances = {1, 2}
    ReexpandEvery = 2
    ProcessIds = {1, 2}
    Programs = {"x", "y"}
    Access <- MCAccess
    GpuUses <- MCGpuUses
    TopCpu = 1
    TopApps = 2
    MaxUnits = 2
    MaxWork = 1
    NameOf <- MCNameOf
    Readings = {0}
    RowLimit = 1
    Incidents = {"i1", "i2"}
    Sessions = {"s1"}
    PartOf <- MCPartOf
    WorkloadOf <- MCWorkloadOf
    FoundIn <- MCFoundIn
    MaxClicks = 4
    Facts = {1, 2}
    KindOf <- MCKindOf
    AgeOf <- MCAgeOf
    MaxChanges = 5
    Minutes = {0, 1}
    Tables = {1, 2}
    MaxMarkers = 3
    MaxEvents = 2
    MaxRows = 1
    KeptAge = 1
    LastDay = 2
    MaxLogged = 4
    RecordKinds = {"INC", "NET"}
    Retention = 1
    FinalDay = 2
    MaxRecords = 3
    IncidentParts = {"cpu", "network"}
    PartsAsked <- MCPartsAsked
    Wordings <- MCWordings
    LongEnough = 2
    Covered = 40
    LastMoment = 3
    MaxTroubles = 1
    MaxPlays = 1
    Endpoints = {"local", "remote", "refused", "broken"}
    EndpointKind <- MCEndpointKind
    Keys = {"k"}
    Accounts = {1, 2}
    MaxEdits = 3
PROPERTY RiseWasSustained
CHECK_DEADLOCK FALSE
