SPECIFICATION FairSpec
CONSTANTS
    Vips = {k1, k2}
    TcpClients = {}
    UdpClients = {u1, u2}
    Backends = {b1, b2}
    b1 = b1
    b2 = b2
    ZeroBackend = zero
    None = None
    ArrayCapacity = 2
    MapsCapacity = 1
    ConnsCapacity = 1
    Cpus = {p1}
    Headers <- MCHeaders
    Rpcs = {r1, r2}
    TargetLists <- MCAllTargetLists
    Unroutable = {b2}
    Cancellable = TRUE
    IterFails = TRUE
INVARIANTS
    NotListedWhileDeleting
    LockOrder
PROPERTIES
    CallsComplete
