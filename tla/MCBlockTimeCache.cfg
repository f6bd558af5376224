SPECIFICATION FairSpec
CONSTANTS
    Goroutines = {g1, g2}
    g1 = g1
    g2 = g2
    MaxHeight = 5
    CacheSize = 2
    Attempts = 2
    Lag = 3
    TimeOf <- MCTimeOf
    Word = 16
INVARIANTS
    TypeOK
    KeepsNewest
    TrueIntervals
PROPERTY LookupEnds
