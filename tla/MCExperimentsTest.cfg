SPECIFICATION Spec
CONSTANTS
    RunCount = 3
    Validated = TRUE
    Tested = TRUE
    Folds = 0
    Metrics <- Tradeoffs
    CostLimit = 2
    MaxCrashes = 1
    MaxFaults = 1
    NoJob = NoJob
INVARIANTS
    PlanIsFollowed
    VerdictsComeFromJobs
    RanksAreCurrent
    TheBestIsOnTheFrontier
    StatusIsHonest
CHECK_DEADLOCK FALSE
