SPECIFICATION ReportSpec
CONSTANTS
    Torn = Torn
    Empty = Empty
    NoManifest = NoManifest
    NoVerdict = NoVerdict
    Faults <- CleanFaults
    MaxComputed = 4
    MaxQueue = 2
    MaxCrashes = 2
INVARIANTS
    ChainIntact
    AckedDurable
    MemoryMatchesDisk
    CheckpointHolds
    ReportIsTrue
PROPERTIES
    ImplementsLog
CHECK_DEADLOCK FALSE
