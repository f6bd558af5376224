SPECIFICATION Spec
CONSTANTS
    Clients = {c1, c2}
    Pushers = {p1}
    c1 = c1
    c2 = c2
    p1 = p1
    n1 = n1
    n2 = n2
    Nodes = {n1, n2}
    Configured <- MCConfigured
    Rank <- MCRank
    ChanCap = 2
    LogCap = 1
INVARIANTS
    TypeOK
    OneWriter
    NothingMissed
