SPECIFICATION FairSpec
CONSTANTS
    Clients = {c1}
    Pushers = {p1}
    c1 = c1
    p1 = p1
    n1 = n1
    n2 = n2
    Nodes = {n1, n2}
    Configured <- MCConfigured
    Rank <- MCRank
    ChanCap = 1
    LogCap = 1
PROPERTIES
    PushEnds
    ConnectionServed
