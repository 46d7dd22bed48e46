SPECIFICATION Spec
CONSTANTS
    Ports = {9875, 9876, 9877}
    Ips = {i1, i2, i3, i4}
    PeerLimit = 2
    Backlog = 2
    MaxFaults = 1
INVARIANTS
    TypeOK
    AcceptsAfterWorkers
    NobodyWaitsInVain
    PeersBounded
PROPERTIES
    ChecksAreAccepted
CHECK_DEADLOCK FALSE
