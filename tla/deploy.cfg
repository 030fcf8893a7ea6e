SPECIFICATION Spec
CONSTANTS
    MaxRelease = 2
    Options = {"plain", "enforce"}
    MaxFaults = 2
INVARIANTS
    BinariesAgree
    InstallTakesEffect
    UninstallLeavesNothing
