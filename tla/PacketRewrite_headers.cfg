SPECIFICATION Spec
CONSTANTS
    W = 3
    Clients = {0, 1, 5}
    Vips = {0, 2, 7}
    Addresses = {0, 1, 3, 6, 7}
    Ports = {2, 7}
    Dports = {3, 10}
    Contents = {0, 1, 2, 4, 7}
INVARIANTS
    RedirectedHeaderVerifies
    ReplyHeaderVerifies
    UnreachableVerifies
CHECK_DEADLOCK FALSE
