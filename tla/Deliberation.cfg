SPECIFICATION DeliberationSpec
CONSTANTS
    Cases <- MCCases
    Arguments <- MCArguments
    Narratives <- MCNarratives
INVARIANTS
    WinnerFacesItsCounterargument
    WinnerLeadsEveryBranch
    OverruledOnEvidence
    FloorHolds
