SPECIFICATION Spec
CONSTANTS
    LaneChoices <- BothLanes
    ResumeChoices <- EachResumePoint
    LimitChoices <- OneIteration
    MaxCallCost = 1
    MaxInterruptions = 1
INVARIANTS
    CheckpointIsHonoured
