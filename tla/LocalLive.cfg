SPECIFICATION Spec
CONSTANTS
    MaxRequestsPerCampaign = 8
    AutoStopOn5xxStreak = 2
    LatencyHistory = 1
    Environment = "local_live"
    Profiles <- SomeProfiles
    Canaries <- OneCanary
    Translations <- TranslationsOf
    Followups <- FollowupsOf
    WorkerProbes <- Worker
    MaxProbes = 2
    Identities = 2
    MutationsAllowed = FALSE
    PacketLimit = 2
    Rounds = 2
    Invocations = 1
    ProbeBudget = 1
    MaxCalls = 2
INVARIANTS
    StopFileEndsTheRound
    RequestsAreCounted
    TargetIsShutDown
PROPERTY LaneEnds
CHECK_DEADLOCK FALSE
