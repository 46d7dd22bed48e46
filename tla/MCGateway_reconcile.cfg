SPECIFICATION FairSpec
CONSTANTS
    None = None
    ip1 = ip1
    ip2 = ip2
    Controllers = {c1}
    Specs <- MCSpecs
    SvcIds = {s1, s2}
    Ingresses <- MCAllIngresses
    Drifts = {ip2}
    UserPorts <- MCUserPorts
    MaxGeneration = 2
    MaxFailures = 1
    MaxEdits = 1
INVARIANTS
    TypeOK
    AtMostOneService
    
    StatusCoherent
PROPERTIES
    
    
    Settles
CHECK_DEADLOCK FALSE
