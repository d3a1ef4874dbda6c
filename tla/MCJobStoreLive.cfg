SPECIFICATION FairSpec
CONSTANTS
    Jobs = {j1, j2}
    NoJob = NoJob
    MaxCrashes = 0
    MaxFaults = 0
PROPERTIES
    EveryJobSettles
CHECK_DEADLOCK FALSE
