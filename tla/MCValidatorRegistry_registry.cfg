SPECIFICATION FairSpec
CONSTANTS
    v1 = v1
    v2 = v2
    Validators = {v1}
    Workers = {w1}
    Configs <- ModeChanges
    InfoMayFail = TRUE
    MaxHeight = 2
    MaxBoots = 2
    MaxObjects = 2
    MinBlocks = 1
CHECK_DEADLOCK FALSE
INVARIANTS
    TypeOK
    CountersExact
    FileNeverTorn
    TrackedSelected
PROPERTIES
    HistoryKept
    ShutdownCompletes
