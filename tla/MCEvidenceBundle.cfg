SPECIFICATION Spec
CONSTANTS
    Originals = {j1}
    Imports = {i1, i2}
    MaxRotten = 1
    Nothing = Nothing
    Missing = Missing
    Rotten = Rotten
    Garbled = Garbled
SYMMETRY IdSymmetry
INVARIANTS
    OnlyEvidenceTravels
    ImportsAreWhole
    ImportsCanBeExported
