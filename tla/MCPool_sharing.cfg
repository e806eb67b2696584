CONSTANTS
    c1 = c1
    c2 = c2
    b1 = b1
    b2 = b2
    Clients <- MCClients2
    Backends <- MCBackends2
    Dropped = Dropped
    NoBackend = NoBackend
    PinningClients = {c1}
    MaxDepth = 2
    WaitTimeout = TRUE
SPECIFICATION LiveSpec
INVARIANTS TypeOK ParkedAreReachable NoLeak BackendExclusive PoolBounded
PROPERTIES ServedInOrder AcquireEnds StickyKept
