SPECIFICATION Spec
CONSTANTS
    Keys = {k1}
    NoKey = NoKey
    Kinds = {"RAIN.FALL"}
    Leaves = {"INCR", "GET"}
    SaveParams = TRUE
    Gates = TRUE
    MaxUnits = 1
    MaxCalls = 2
    MaxDepth = 1
INVARIANTS
    NoWriteWhileDenied
CHECK_DEADLOCK FALSE
