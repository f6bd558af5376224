SPECIFICATION FairSpec
CONSTANTS
    v1 = v1
    n1 = n1
    Validators = {v1}
    AlertValidators = {}
    Nodes = {}
    EnabledRules = {"validator_down", "validator_uptime"}
    FireAfter = 2
    IOFails = FALSE
    MaxGap = 2
    MaxHeight = 0
    MaxStops = 1
INVARIANT TypeOK
INVARIANT NotificationsBalanced
PROPERTY FiresAfterDuration
PROPERTY StatusAnnounced
