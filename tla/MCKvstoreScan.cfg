SPECIFICATION Spec
CONSTANTS
    k1 = k1
    k2 = k2
    k3 = k3
    k4 = k4
    k5 = k5
    Keys = {k1, k2, k3, k4, k5}
    Hash <- MCHash
    Slot <- MCSlot
    NoDict = NoDict
    Width = 4
    NumDictsBits = 1
    InitialExp = 1
    MinFill = 4
    ForceRatio = 2
    EmptyVisits = 2
INVARIANTS
    KeysAreFound
    ScanMissesNothing
    ScanAdvances
