SPECIFICATION Spec
CONSTANTS
    DATASET_AS_OF_DATE = 4
    NoAccount = "nobody"
    Undated = 0
    Archives <- MCArchives
    Requests <- MCRequests
    Relevance <- MCRelevance
    MaxBuilds = 2
    CANDIDATES_PER_LANE = 3
    MAX_ACCOUNT_CITATIONS = 2
    MAX_KNOWLEDGE_CITATIONS = 1
    RECENT_AGE = 1
INVARIANTS
    NeverOlderThanAdvertised
    CitationsInScope
    QuietIndexIsCurrent
