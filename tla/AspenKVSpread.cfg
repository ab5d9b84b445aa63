\* One write by either member, which needs three repetitions to recover; an
\* engine write may fail.
SPECIFICATION FairSpec
CONSTANTS
    Nodes = {1, 2}
    Founders = {1, 2}
    Keys = {k1}
    RecoveryThreshold = 1
    MaxVersion = 1
    MaxQueue = 2
    MaxOpens = 0
    Fallible = {"assign", "persist"}
    MaxFailures = 1
    None = None
CHECK_DEADLOCK FALSE
PROPERTY
    OnlyWriteSpreads
