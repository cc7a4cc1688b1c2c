SPECIFICATION Spec
CONSTANTS
    p1 = p1
    p2 = p2
    p3 = p3
    Procs <- MCProcs
    HostOf <- LocalHostOf
    UserOf <- OneUser
    NoLock = NoLock
    Garbage = Garbage
INVARIANT SingleWriter
CHECK_DEADLOCK FALSE
