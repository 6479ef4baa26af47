SPECIFICATION Spec
CONSTANTS
    Size = 5
    Concurrency = 2
    Budget = 7
    MAX_MODEL_CALLS = 3
    RunCalls = 3
INVARIANTS
    OverspendIsBounded
    EveryAccountIsReported
PROPERTIES
    ScanEnds
CHECK_DEADLOCK FALSE
