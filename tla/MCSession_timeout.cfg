CONSTANTS
    c1 = c1
    c2 = c2
    c3 = c3
    b1 = b1
    b2 = b2
    Clients <- MCClients2
    Backends <- MCBackends1
    NoBackend = NoBackend
    Proxy = Proxy
    Modes = {"Session"}
    Warm = {}
    QueryTimeout = TRUE
    Kinds = {"read"}
    Depth = 1
    Window = 2
    Interrupts = FALSE
    Splits = FALSE
SPECIFICATION Spec
INVARIANT HandedOverQuiet
CHECK_DEADLOCK FALSE
