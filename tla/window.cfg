SPECIFICATION WindowSpec
CONSTANTS
    Hosts <- MCHosts
    Window = 2
    NewYear = 2
    MaxTime = 3
    MaxAttempts = 4
    MaxChanges = 1
INVARIANTS
    ScoreIsDeserved
PROPERTIES
    FlagsAreDeserved
CHECK_DEADLOCK FALSE
