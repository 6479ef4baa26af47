SPECIFICATION Spec
CONSTANTS
    r1 = r1
    r2 = r2
    r3 = r3
    MaxRows = 3
    Runs <- Trio
    Pausing <- OnlyFirst
    Urgency <- TrioUrgency
    MAX_QUEUE_LIMIT = 2
    LastId = 2
INVARIANTS
    RegressionTraceable
    RunShowsStoredDecision
    FirstPageIsMostUrgent
PROPERTIES
    DecisionsAreFinal
CONSTRAINT RowBound
CHECK_DEADLOCK FALSE
