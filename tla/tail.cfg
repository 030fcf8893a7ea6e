SPECIFICATION FairSpec
CONSTANTS
    MaxLines = 3
    MaxFiles = 2
    MaxCuts = 1
    Capacity = 1
INVARIANTS
    InOrderOnce
    NeverGlued
PROPERTIES
    NoStepLoses
    WatchReturns
    KeepsUp
CHECK_DEADLOCK FALSE
