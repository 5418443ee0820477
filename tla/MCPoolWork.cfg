SPECIFICATION ViewSpec
CONSTANTS
    Urgent = Urgent
    Minor = Minor
    Urgency <- MCUrgency
    MaxSlots = 2
    Providers = {"claude"}
    HumanReasons = {Urgent}
    RateLimits = {"rate_limit"}
    OtherReasons = {}
    TaskPolicy = "ReassignIfPossible"
    TimeoutDefault = "FollowRecommendation"
    AnswerAnyRequest = FALSE
    NumTasks = 1
    MaxIndex = 1
    MaxRequests = 2
    MaxMail = 1
    MaxActions = 1
    MaxReflectionRounds = 2
    MaxFeedback = 1
    MaxRefusedSaves = 1
    MaxTaskCrashes = 1
INVARIANTS
    TaskExclusive
    BlockedHumanHasRequest
    RoundsCapped
PROPERTY CancelledIsFinal
