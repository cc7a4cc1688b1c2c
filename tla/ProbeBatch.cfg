SPECIFICATION FairSpec
CONSTANTS
    a = a
    b = b
    c = c
    d = d
    t1 = t1
    t2 = t2
    Fingerprint = {a, b, c, d}
    Target = {t1, t2}
    Kind = {"code_read", "process_check"}
    TargetOf <- Targets
    KindOf <- Kinds
    Priority <- Priorities
    MaxPriority = 5
    MaxConcurrency = 3
    MaxPerTarget = 2
    MaxPerKind = 2
    MaxBatch = 4
    MaxBatches = 2
INVARIANTS
    CapsHold
    ReturnIsComplete
PROPERTIES
    ImplementsPool
    BatchReturns
CHECK_DEADLOCK FALSE
