\* Two nodes join the bootstrapped one, with a restart anywhere in between, or two
\* nodes join a cluster of three.
SPECIFICATION Spec
CONSTANTS
    n1 = n1
    n2 = n2
    n3 = n3
    n4 = n4
    n5 = n5
    Nodes = {n1, n2, n3, n4, n5}
    Bootstrapper = n1
    Clusters <- SmallClusters
    MaxKey = 5
    MaxProposals = 2
    MaxRestarts = 1
    None = None
CHECK_DEADLOCK FALSE
INVARIANTS
    SameKeyDisjointJuries
    JuryIsMajority
    SameCandidatesUniqueKeys
