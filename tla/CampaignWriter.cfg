SPECIFICATION WriterSpec
CONSTANTS
    Torn = Torn
    Empty = Empty
    NoManifest = NoManifest
    Faults <- AllFaults
    Judges = {j1, j2}
    MaxComputed = 4
    MaxQueue = 3
    MaxCrashes = 2
INVARIANTS
    AckedReadable
    LateWritesAreKnown
PROPERTIES
    QueueMoves
    FailsClosed
CHECK_DEADLOCK FALSE
