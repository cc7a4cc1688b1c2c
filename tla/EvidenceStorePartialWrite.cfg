SPECIFICATION Spec
CONSTANTS
    Torn = Torn
    Empty = Empty
    NoManifest = NoManifest
    Faults <- PartialFaults
    MaxComputed = 3
    MaxQueue = 1
    MaxCrashes = 0
INVARIANT ChainIntact
CHECK_DEADLOCK FALSE
