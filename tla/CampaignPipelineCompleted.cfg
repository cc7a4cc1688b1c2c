SPECIFICATION Spec
CONSTANTS
    LaneChoices <- BothLanes
    ResumeChoices <- ResumeAtReporting
    LimitChoices <- OneIteration
    MaxCallCost = 1
    MaxInterruptions = 1
INVARIANTS
    AlreadyCompletedIsTrue
