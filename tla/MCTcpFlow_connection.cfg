SPECIFICATION FlowSpec
CONSTANTS
    Vips = {k1}
    Vip = k1
    TcpClients = {c1}
    Client = c1
    UdpClients = {}
    Backends = {b1, b2}
    ZeroBackend = zero
    None = None
    ArrayCapacity = 2
    MapsCapacity = 1
    ConnsCapacity = 1
    Cpus = {p1, p2}
    Headers <- MCHeaders
    MaxEvents = 1
SYMMETRY Symmetry
INVARIANTS
    FlowTypeOK
    OpenIsTracked
    AbortedIsForgotten
    OrderlyCloseCompletes
CHECK_DEADLOCK FALSE
