SPECIFICATION FairSpec
CONSTANTS
    RunCount = 3
    Validated = FALSE
    Tested = FALSE
    Folds = 2
    Metrics <- TwoLevels
    CostLimit = 1
    MaxCrashes = 0
    MaxFaults = 0
    NoJob = NoJob
INVARIANTS
    VerdictsComeFromJobs
PROPERTIES
    EveryExperimentCloses
CHECK_DEADLOCK FALSE
