SPECIFICATION Spec
CONSTANTS
    Port = 9874
    ProbePort = 9874
    StartupThreshold = 8
    LivenessThreshold = 3
    MaxFaults = 2
PROPERTIES
    NotKilledWhileServing
