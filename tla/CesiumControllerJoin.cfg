\* Writers over one open-ended range: one opens while the release of another has
\* unlocked the region and not removed it.
SPECIFICATION Spec
CONSTANTS
    Gates = {g1, g2, g3}
    Regions = {r1, r2}
    Subjects = {s1, s2, s3}
    Authorities = {1}
    Absolute = 3
    Ranges <- FromNow
    Nil = Nil
SYMMETRY Identities
CHECK_DEADLOCK FALSE
INVARIANT
    OverlappingGatesShareRegion
