SPECIFICATION Spec
CONSTANTS
    c1 = c1
    c2 = c2
    Campaign = {c1, c2}
    WorkingDirectory = cwd
    Environment = "hosted_authorized"
    Ingress <- OneCheck
    Canaries <- CanariesOf
    MutationsAllowed = FALSE
    DailyBudget = 1
    MaxLives <- Lives
    MaxStopFiles = 1
    MaxRequestsPerCampaign = 1
    AutoStopOn5xxStreak = 1
    LatencyHistory = 2
INVARIANTS AuditIsComplete BudgetHolds StopFileBinds
CHECK_DEADLOCK FALSE
