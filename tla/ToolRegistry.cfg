SPECIFICATION Spec
CONSTANTS
    c1 = c1
    c2 = c2
    Calls = {c1, c2}
    Requests <- MixedRequests
    Retries = 1
INVARIANTS AuditIsFaithful NoOrphanedWork LoneCallNeverClashes
PROPERTIES CallsEnd
CHECK_DEADLOCK FALSE
