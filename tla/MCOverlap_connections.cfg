SPECIFICATION OverlapSpec
SYMMETRY OverlapSymmetry
CONSTANTS
    Vips = {k1}
    TcpClients = {c1, c2}
    UdpClients = {}
    Backends = {b1, b2}
    b1 = b1
    b2 = b2
    ZeroBackend = zero
    None = None
    ArrayCapacity = 1
    MapsCapacity = 1
    ConnsCapacity = 2
    Cpus = {p1, p2}
    Headers <- MCEndingHeaders
    Rpcs = {r1}
    TargetLists <- MCOneTarget
    Unroutable = {}
    Cancellable = FALSE
    IterFails = FALSE
PROPERTIES
    ImplementsConnections
    RstUntracksEstablished
