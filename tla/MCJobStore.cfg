SPECIFICATION Spec
CONSTANTS
    Jobs = {j1, j2}
    NoJob = NoJob
    MaxCrashes = 2
    MaxFaults = 1
SYMMETRY JobSymmetry
INVARIANTS
    VerdictAfterProcess
    QueuedAndRunningAreDriven
    SucceededIsAudited
    CopiesTrailTheRow
PROPERTIES
    ImplementsContract
CHECK_DEADLOCK FALSE
