SPECIFICATION PartSpec
CONSTANTS
    Urgent = Urgent
    Minor = Minor
    Urgency <- MCUrgency
    MaxSlots = 3
    Providers = {"mock", "claude"}
    HumanReasons = {}
    RateLimits = {}
    OtherReasons = {}
    TaskPolicy = "KeepAssigned"
    TimeoutDefault = "FollowRecommendation"
    AnswerAnyRequest = FALSE
    NumTasks = 0
    MaxIndex = 3
    MaxRequests = 0
    MaxMail = 0
    MaxActions = 0
    MaxTrees = 2
    MaxWorktrees = 2
    MaxMishaps = 2
    MaxRestarts = 1
    MailAgents = {a1, a2}
    MaxMails = 3
    MaxMailRestarts = 2
INVARIANTS
    TypeOK
    PoolShape
    DecisionAgentsInPool
    TreesRecorded
    MailInOrder
PROPERTIES
    FocusKept
    PausedWorkKept
CHECK_DEADLOCK FALSE
