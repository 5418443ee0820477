SPECIFICATION Spec
CONSTANTS
    Urgent = Urgent
    Minor = Minor
    Urgency <- MCUrgency
    MaxSlots = 2
    Providers = {"mock"}
    HumanReasons = {Urgent, Minor}
    RateLimits = {}
    OtherReasons = {}
    TaskPolicy = "KeepAssigned"
    TimeoutDefault = "FollowRecommendation"
    AnswerAnyRequest = TRUE
    NumTasks = 0
    MaxIndex = 2
    MaxRequests = 2
    MaxMail = 1
    MaxActions = 1
INVARIANTS
    BlockedHumanHasRequest
