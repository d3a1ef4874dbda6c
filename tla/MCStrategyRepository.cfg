SPECIFICATION Spec
CONSTANTS
    Strategies = {mine}
    Examples = {}
    a = a
    b = b
    broken = broken
    Sources <- MCSources
    Valid <- MCValid
    Unsupported = {}
    SessionTypes <- MCSessionTypes
    Clients = {c1, c2}
    Importers = {i1, i2}
    MaxVersions = 3
    NoFile = NoFile
    Unchecked = Unchecked
    Nothing = Nothing
    Damaged = Damaged
SYMMETRY RequestSymmetry
INVARIANTS
    VersionsAreRestorable
    VersionsWereHeld
    ConfirmedIsNewest
PROPERTIES
    HistoryOnlyGrows
    NothingIsOverwrittenUnseen
