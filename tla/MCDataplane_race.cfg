SPECIFICATION Spec
CONSTANTS
    Vips = {k1}
    TcpClients = {c1}
    UdpClients = {}
    Backends = {b1, b2}
    b1 = b1
    b2 = b2
    ZeroBackend = zero
    None = None
    ArrayCapacity = 2
    MapsCapacity = 1
    ConnsCapacity = 2
    Cpus = {p1, p2}
    Headers <- MCHeaders
    Rpcs = {r1}
    TargetLists <- MCTargetLists
    Unroutable = {}
    Cancellable = TRUE
    IterFails = TRUE
SYMMETRY Symmetry
INVARIANTS
    TypeOK
    TrackedBackendWasConfigured
    IndexWithinArray
    TrackedStateMatchesProtocol
PROPERTIES
    DrainedUntilUpdate
