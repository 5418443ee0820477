CONSTANTS
    Agents = {a1, a2}
    MaxRequests = 3
    Flows <- MCFlows
    MaxScopes = 3
    MaxBacklog = 3
    Situations = {"claims_completion", "agent_idle", "error"}
    MaxReflections = 2
    MaxAsked = 3
    MaxGenerations = 2
    Deciders = {"d1", "d2", "d3"}
    Providers = {"claude", "codex"}
    MaxPerProvider = 2
    MaxSessions = 4
    RequestsPerMinute = 2
    MaxConcurrent = 2
    MaxQuestions = 5
    RegTasks = {t1, t2}
    MaxStoreErrors = 1
    MaxStoreCrashes = 2
    NumTodos = 2
    MaxIterations = 2
    MaxContinuations = 1
    MaxRuns = 2
    MaxLoopCrashes = 1
SPECIFICATION ComponentsSpec
INVARIANTS
    IndexExact LanesInOrder AnsweredOnce
    ActionOnce OwnReply
    ThinkingHasThread AnsweredInOrder ReflectionLimit
    SessionsBounded RateRespected NoQuestionLost
    EndedStaysEnded SavedDoneIsFinal
PROPERTIES
    AbstractSpec DecisionArrives RunEnds
CHECK_DEADLOCK FALSE
