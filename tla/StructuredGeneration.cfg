SPECIFICATION Spec
CONSTANTS
    Threads <- MCThreads
    PlanDrafts <- MCPlanDrafts
    CandidateDrafts <- MCCandidateDrafts
    OutcomeClasses = {"renew", "churn"}
    MAX_SUB_GOALS = 4
    MaxCalls = 3
INVARIANTS
    LoneCallIsTold
    LadderIsEarned
    BillIsComplete
PROPERTY CallsEnd
CHECK_DEADLOCK FALSE
