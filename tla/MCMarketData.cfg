SPECIFICATION Spec
CONSTANTS
    Jobs = {j1, j2, j3}
    Refreshing = {j3}
    Rows = 2
    PageSize = 1
    MinBars = 1
    MaxVersions = 2
    MaxCrashes = 1
    NoFile = NoFile
SYMMETRY RequestSymmetry
INVARIANTS
    EvidenceMatchesManifest
    FrozenIsTraded
    HistoriesAreOfOneFetch
CHECK_DEADLOCK FALSE
