SPECIFICATION Spec
CONSTANTS
    Jobs = {j1, j2}
    NoJob = NoJob
    MaxCrashes = 0
    MaxFaults = 0
INVARIANT CancellingIsKilled
CHECK_DEADLOCK FALSE
