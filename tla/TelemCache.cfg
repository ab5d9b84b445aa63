SPECIFICATION Spec
CONSTANTS
    MaxNow = 5
    Caps <- mcCaps
    Skips <- mcSkips
    DomainStart = 3
    StaleAfter = 1
    ReadRanges <- mcReadRanges
    MaxPending = 1
    MaxHeld = 1
INVARIANTS
    StaticOrdered
    OffByAtMostOne
    GapsCoverMissing
PROPERTIES
    KeptUntilStale
    FetchFills
CHECK_DEADLOCK FALSE
