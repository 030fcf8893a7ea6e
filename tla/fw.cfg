SPECIFICATION Spec
CONSTANTS
    a4 = a4
    a6 = a6
    Backends = {"nft", "ipset", "iptables-nft", "ufw", "pf"}
    V4 = {a4}
    V6 = {a6}
INVARIANTS
    ProbedBlockDrops
    FlushRemovesAll
    NeverStuck
