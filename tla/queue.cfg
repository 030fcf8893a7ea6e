SPECIFICATION FairSpec
CONSTANTS
    s1 = s1
    s2 = s2
    Syncs = {s1, s2}
    MaxQueue = 2
    BatchSize = 2
    Faults = {"save", "net"}
    MaxObs = 3
    MaxCrashes = 1
    MaxOrphans = 1
INVARIANTS
    TypeOK
    NeverSilentlyLossy
    OnlyOverrunEvicts
    NoGaps
PROPERTIES
    OutboxSpec
    EventuallyDelivered
