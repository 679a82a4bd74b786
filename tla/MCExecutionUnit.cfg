SPECIFICATION Spec
CONSTANTS
    Keys = {k1, k2}
    NoKey = NoKey
    Kinds = {"EXEC", "EVAL", "MODR", "MODV"}
    Leaves = {"INCR", "SCAN", "FLUSHALL", "PUBLISH"}
    SaveParams = TRUE
    Gates = TRUE
    MaxUnits = 2
    MaxCalls = 3
    MaxDepth = 3
SYMMETRY Symmetry
INVARIANTS
    StreamsReplayToData
    CutStreamIsBoundary
    PublishedOncePerReplica
    NoWriteWhileDenied
CHECK_DEADLOCK FALSE
