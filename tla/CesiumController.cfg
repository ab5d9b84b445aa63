\* Gates that overlap in every way: joins, splits, leaks, elections, removals.
SPECIFICATION Spec
CONSTANTS
    Gates = {g1, g2, g3}
    Regions = {r1, r2}
    Subjects = {s1, s2, s3}
    Authorities = {1, 2}
    Absolute = 3
    Ranges <- Mixed
    Nil = Nil
SYMMETRY Identities
CHECK_DEADLOCK FALSE
INVARIANTS
    ListedRegionsDisjoint
    SettledRegionControlled
    RemovedWhenEmptied
    TransfersTellController
PROPERTIES
    ControlNeverUsurped
    HighestKept
