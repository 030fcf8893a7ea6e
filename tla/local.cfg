SPECIFICATION FairSpec
CONSTANTS
    s1 = s1
    s2 = s2
    MaxRuns = 2
    Stops = {s1, s2}
    MaxQueue = 1
    BatchSize = 1
    MaxObs = 2
INVARIANTS
    TypeOK
    AtMostOneRun
    HeldUntilDelivered
    NothingLost
PROPERTY StopReturns
