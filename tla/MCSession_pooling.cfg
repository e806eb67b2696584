CONSTANTS
    c1 = c1
    c2 = c2
    c3 = c3
    b1 = b1
    b2 = b2
    Clients <- MCClients2
    Backends <- MCBackends2
    NoBackend = NoBackend
    Proxy = Proxy
    Modes = {"Transaction", "Hybrid"}
    Warm <- MCBackends2
    QueryTimeout = FALSE
    Kinds = {"read", "bad", "begin", "commit", "set"}
    Depth = 1
    Window = 2
    Interrupts = FALSE
    Splits = FALSE
SPECIFICATION Spec
SYMMETRY Symmetry
INVARIANTS ServedClean StartedOnce
PROPERTY Transparent
CHECK_DEADLOCK FALSE
