SPECIFICATION Spec
CONSTANTS
    Nodes = {n1, n2}
    Validators = {v1}
    Workers = {w1, w2}
    MaxHeight = 3
    ChanCap = 1
    SeenLimit = 3
    MaxCleanups = 0
    Duration = 2
    MinBlocks = 2
CHECK_DEADLOCK FALSE
SYMMETRY Symmetric
INVARIANTS
    TypeOK
    MissedCounterExact
    NoLiveBlockLost
    DownMeansSilent
    LastHeightIsNewest
    BitmapTrue
