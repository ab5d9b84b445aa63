SPECIFICATION Spec
CONSTANTS
    r1 = r1
    r2 = r2
    c1 = c1
    c2 = c2
    Reads = {r1, r2}
    KeysOf <- mcKeysOf
    RangeOf <- mcRangeOf
    MaxFaults = 1
    MaxGC = 1
    MaxFlush = 1
INVARIANTS
    ResolvedReadsComplete
    RejectedForCause
PROPERTIES
    ReadsEnd
CHECK_DEADLOCK FALSE
