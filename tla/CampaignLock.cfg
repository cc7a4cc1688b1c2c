SPECIFICATION FairSpec
CONSTANTS
    p1 = p1
    p2 = p2
    p3 = p3
    Procs <- MCProcs
    HostOf <- SharedHostOf
    UserOf <- OneUser
    NoLock = NoLock
    Garbage = Garbage
INVARIANTS
    SingleWriterUnlessRobbed
    NoOrphanLock
PROPERTIES
    RobberyOnlyByKnownCauses
    AcquireSettles
    ShutdownReleases
    DeadLockReclaimed
CHECK_DEADLOCK FALSE
