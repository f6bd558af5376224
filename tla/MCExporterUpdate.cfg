SPECIFICATION FairSpec
CONSTANTS
    Callers = {c1, c2}
    Scrapers = {s1}
    Worker = worker
    MaxVersion = 3
CHECK_DEADLOCK FALSE
INVARIANTS
    TypeOK
    NeverFull
    UpdateOwed
PROPERTIES
    GaugesNeverGoBack
    EventuallyExported
