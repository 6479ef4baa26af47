SPECIFICATION Spec
CONSTANTS
    Portfolio <- MCPortfolio
    Bodies <- MCBodies
    Questions <- MCQuestions
    Handlers <- MCHandlers
    Allowance = 2
    MAX_RETAINED_SCANS = 1
    MaxScans = 2
    MaxLoops = 2
INVARIANTS
    LoneLoop
    RegistryIsFaithful
    AllowanceIsShared
PROPERTY ScheduleIsKept
CHECK_DEADLOCK FALSE
