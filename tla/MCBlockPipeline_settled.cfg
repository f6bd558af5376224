SPECIFICATION FairSpec
CONSTANTS
    Nodes = {n1, n2}
    Validators = {v1}
    Workers = {w1}
    MaxHeight = 2
    ChanCap = 1
    SeenLimit = 1
    MaxCleanups = 1
    Duration = 2
    MinBlocks = 2
CHECK_DEADLOCK FALSE
INVARIANTS
    CountedOnce
PROPERTIES
    KeepsWatch
    SeenIsSettled
