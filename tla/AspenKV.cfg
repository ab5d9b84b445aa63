\* Two members; the counter cannot be written once, one member crashes and opens
\* again.
SPECIFICATION Spec
CONSTANTS
    Nodes = {1, 2}
    Founders = {1, 2}
    Keys = {k1}
    RecoveryThreshold = 0
    MaxVersion = 2
    MaxQueue = 2
    MaxOpens = 1
    Fallible = {"assign"}
    MaxFailures = 1
    None = None
CHECK_DEADLOCK FALSE
INVARIANTS
    NewestAtLeaseholder
PROPERTIES
    LeaseholderNeverRegresses
    VersionsNeverReused
