SPECIFICATION FairSpec
CONSTANTS
    a1 = a1
    a2 = a2
    x1 = x1
    x2 = x2
    Agents = {a1, a2}
    Reporters = {a1}
    Addresses = {x1, x2}
    Batch <- MCBatch
    MaxFailures = 1
    MaxChanges = 1
INVARIANTS
    TablesAgree
    
PROPERTIES
    Heals
    ReportArrives
CHECK_DEADLOCK FALSE
