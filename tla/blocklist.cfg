SPECIFICATION Spec
CONSTANTS
    Prefixes = {p1}
    Reported = {p1}
    Syncs = {s1, s2}
    Refreshes = {r1}
    MaxSeq = 2
    MaxChanges = 1
    MaxStops = 1
    MaxKeys = 2
    WritesFail = TRUE
INVARIANTS
    Trusted
    CacheFirst
PROPERTIES
    NewerOnly
CHECK_DEADLOCK FALSE
