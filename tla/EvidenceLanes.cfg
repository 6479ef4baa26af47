SPECIFICATION LanesSpec
CONSTANTS
    None = None
    DATASET_AS_OF_DATE = 7
    Accounts = {"known"}
    Datasets <- MCDatasets
    Assessments <- MCAssessments
    Drafts <- MCDrafts
    HasArtifact = TRUE
    WINDOW = 3
    ADOPTION_WINDOW_WEEKS = 2
    STALE_USAGE_DAYS = 1
    MaxCitations = 2
INVARIANTS
    LanesSeeNoFuture
    LanesAreWholeOrExcused
PROPERTIES
    RetryKeepsCoverage
\* A run ends at a verdict, a refusal or an exception.
CHECK_DEADLOCK FALSE
