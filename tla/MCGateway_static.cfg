SPECIFICATION Spec
CONSTANTS
    None = None
    ip1 = ip1
    ip2 = ip2
    Controllers = {c1}
    Specs <- MCStatic
    SvcIds = {s1}
    Ingresses <- MCIngresses
    Drifts = {}
    UserPorts = {}
    MaxGeneration = 1
    MaxFailures = 0
    MaxEdits = 0
INVARIANTS
    StaticAddressAllocated
CHECK_DEADLOCK FALSE
