SPECIFICATION Spec
CONSTANTS
    None = None
    SubGoals = {g1, g2}
    Requests <- MCRequests
    QuantResults <- MCQuantResults
    Observations <- MCObservations
    Bills <- MCBills
    MaxTokens = 4
    HasModel = TRUE
    Adjudication = "conflict_gated"
INVARIANTS
    QuarantinedForecastIsRed
    NoWithheldCitationReleased
    ForecastRestsOnEvidence
    GreenIsEarned
    UnverifiedNarrativeIsReplaced
    SpendUnderCeiling
PROPERTIES
    KeepsPromise
CHECK_DEADLOCK FALSE
