SPECIFICATION FairSpec
CONSTANTS
    Prefixes = {p1, p2}
    Reported = {}
    Syncs = {s1, s2}
    Refreshes = {r1}
    MaxSeq = 2
    MaxChanges = 1
    MaxStops = 1
    MaxKeys = 1
    WritesFail = FALSE
PROPERTIES
    ListArrives
    Forgets
CHECK_DEADLOCK FALSE
