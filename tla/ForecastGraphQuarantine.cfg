SPECIFICATION Spec
CONSTANTS
    None = None
    SubGoals = {g1, g2}
    Requests <- MCRequests
    QuantResults <- MCQuantResults
    Observations <- ForeignObservations
    Bills <- MCBills
    MaxTokens = 4
    HasModel = TRUE
    Adjudication = "conflict_gated"
INVARIANTS
    QuarantineAlwaysForcesRed
CHECK_DEADLOCK FALSE
