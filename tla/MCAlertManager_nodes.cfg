SPECIFICATION FairSpec
CONSTANTS
    v1 = v1
    n1 = n1
    Validators = {}
    AlertValidators = {}
    Nodes = {n1}
    EnabledRules = {"node_down", "node_stall"}
    FireAfter = 2
    IOFails = TRUE
    MaxGap = 1
    MaxHeight = 2
    MaxStops = 1
PROPERTY StallIsReal
PROPERTY StallAnnounced
