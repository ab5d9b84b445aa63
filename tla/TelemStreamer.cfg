SPECIFICATION Spec
CONSTANTS
    h1 = h1
    h2 = h2
    c1 = c1
    c2 = c2
    Handlers = {h1, h2}
    Channels = {c1, c2}
    KeysOf <- mcKeysOf
    None = None
    MaxRecv = 1
    MaxFaults = 2
INVARIANTS
    HandlersHaveLeadingBuffer
    ServerAskedForListeners
    NoStreamAfterClose
PROPERTIES
    CallsEnd
CHECK_DEADLOCK FALSE
