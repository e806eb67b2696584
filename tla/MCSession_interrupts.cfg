CONSTANTS
    c1 = c1
    c2 = c2
    c3 = c3
    b1 = b1
    b2 = b2
    Clients <- MCClients3
    Backends <- MCBackends1
    NoBackend = NoBackend
    Proxy = Proxy
    Modes = {"Session"}
    Warm = {}
    QueryTimeout = TRUE
    Kinds = {"read", "fetch", "set"}
    Depth = 1
    Window = 2
    Interrupts = TRUE
    Splits = TRUE
SPECIFICATION LiveSpec
INVARIANT ServedClean
PROPERTY Answered
CHECK_DEADLOCK FALSE
