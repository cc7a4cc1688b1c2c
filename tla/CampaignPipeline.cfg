SPECIFICATION FairSpec
CONSTANTS
    LaneChoices <- NoLanesOrBoth
    ResumeChoices <- EachResumePoint
    RequiredChoices <- LocalAndHosted
    LimitChoices <- MoreIterations
    MaxCallCost = 1
    MaxInterruptions = 1
INVARIANTS
    TailIsRun
    IterationsAreRemembered
    BudgetOverrunIsBounded
    OutcomeIsRecorded
    KillSwitchSticks
    CompleteIsEarned
    RequiredGapsFailClosed
PROPERTIES
    ReopenedOnDemand
    EveryLifeEnds
