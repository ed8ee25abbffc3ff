SPECIFICATION MCSpec
CONSTANTS
    None = None
    Malformed = Malformed
    Redacted = Redacted
    MaxLimit = 3
    MaxDays = 3
    DefaultLimit = 2
    DefaultTop = 1
    Slots = {s1, s2}
    World <- TwoSnapshots
    Requests <- PipeRequests
    ToolCalls <- ModelCalls
    Claims <- ModelClaims
    Replies <- ModelReplies
    MaxFaults = 1
    MaxToolCalls = 2
    MaxQuestions = 2
    MaxWindows = 2
INVARIANTS
    InstancesAreOwned
    AnswersAreCurrent
    CompletenessIsEarned
    OneQuestionAtATime
    NothingContradictedIsShown
PROPERTIES
    NobodyIsLeftWaiting
CHECK_DEADLOCK FALSE
