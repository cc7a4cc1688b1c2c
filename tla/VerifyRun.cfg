SPECIFICATION Spec
CONSTANTS
    MaxRuns = 2
    MaxCandidates = 2
    MaxAudit = 1
    MaxFaults = 2
    FormatRepairLimit = 1
    ContextExhaustionLimit = 1
    ToolLoopLimit = 1
    FabricationLimit = 2
    DockerFailureLimit = 3
    CumulativeHaltThreshold = 4
INVARIANTS
    AnswersAreComplete
    AnomaliesAreBounded
    TargetIsTornDown
    StatusMatchesArtifacts
CHECK_DEADLOCK FALSE
