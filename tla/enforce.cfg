SPECIFICATION FairSpec
CONSTANTS
    a = a
    b = b
    IPs = {a, b}
    NoOne = NoOne
    Threshold = 2
    Weights <- WeakOrTrusted
    Events = {"init", "block", "save", "exit", "flush", "reboot", "unban", "client"}
INVARIANTS
    DryRunUntouched
    BlockedIsBacked
    RulesRecorded
    MissedExplains
PROPERTY EnforceConverges
