SPECIFICATION UpkeepSpec
CONSTANTS
    None = None
    Pids = {1, 2}
    Fresh = 1
    GiveUp = 1
    Retry = 3
    MaxPrompts = 1
    Processes = {p1}
    Names = {x, y}
    Adapters = {a}
    StaleAfter = 1
    MaxBytes = 1
    MaxBoots = 2
    Cards = {a, b}
    Unset = Unset
    Sustained = 3
    Debounce = 2
    Steps = {1, 2}
    WeekDays = 2
    MonthStarts = {0, 4, 7, 10}
    KeptDays = 2
    FirstInstant = 16
    LastInstant = 18
    WindowDays = 1
    Pasts <- MCPasts
    MaxRecords = 1
    MaxRuns = 2
    MaxUpsets = 2
    MinSamples = 2
    Generous = 3
    UnitsPerDay = 2
    TrendSpan = 6
    WeekSpan = 4
    HistorySpan = 6
    WindowSpan = 3
    MinIdle = 2
    MinOccurrences = 2
    ManyOccurrences = 3
    MinPerBin = 2
    Floors = {50, 70}
    EfficiencyScale = 300
    Apps = {"game", "video"}
    Profiles <- MCProfiles
    Courses <- MCCourses
    LastUnit = 6
    MaxTurns = 1
    FirstHour = 144
    LastHour = 239
    Counts = {1, 30, 200}
PROPERTIES NamesAreCurrent
CHECK_DEADLOCK FALSE
