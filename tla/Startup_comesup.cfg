SPECIFICATION FairSpec
CONSTANTS
    Port = 9874
    ProbePort = 9875
    StartupThreshold = 8
    LivenessThreshold = 3
    MaxFaults = 2
INVARIANTS
    TypeOK
    ServedAsConfigured
    ReadyIsAttached
PROPERTIES
    HalfUpExits
    ComesUp
