SPECIFICATION Spec
CONSTANTS
    W = 3
    Clients = {1}
    Vips = {2}
    Addresses = {3}
    Ports = {4}
    Dports = {5}
    Contents = {1}
INVARIANTS
    DestPortUpdated
CHECK_DEADLOCK FALSE
