SPECIFICATION Spec
CONSTANTS
    a = a
    b = b
    s1 = s1
    s2 = s2
    Runs <- TwoRuns
    Streams <- TwoStreams
    MAX_RETAINED_RUNS = 1
    Workers = 1
    MaxEvents = 2
INVARIANTS
    StreamFaithful
PROPERTIES
    StreamEnds
CHECK_DEADLOCK FALSE
