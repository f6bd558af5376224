SPECIFICATION FairSpec
CONSTANTS
    Nodes = {n1, n2}
    Fetchers = {f1}
    MaxFetches = 3
    MaxHeight = 1
    Size = 2
    Attempts = 3
    TimeRequests = 2
CHECK_DEADLOCK FALSE
INVARIANTS
    TypeOK
    HealthyHasClient
PROPERTIES
    ScoredOnce
    KeepsHistory
    FetchEnds
