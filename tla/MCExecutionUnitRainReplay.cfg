SPECIFICATION Spec
CONSTANTS
    Keys = {k1}
    NoKey = NoKey
    Kinds = {"RAIN.FALL"}
    Leaves = {"INCR", "GET"}
    SaveParams = TRUE
    Gates = FALSE
    MaxUnits = 1
    MaxCalls = 2
    MaxDepth = 1
INVARIANTS
    StreamsReplayToData
CHECK_DEADLOCK FALSE
