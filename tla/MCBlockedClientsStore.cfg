SPECIFICATION Spec
CONSTANTS
    c1 = c1
    c2 = c2
    c3 = c3
    k1 = k1
    k2 = k2
    Clients = {c1, c2}
    Keys = {k1}
    NoOne = NoOne
    Commands <- StoreCommands
    InitialData <- StoreInitialData
    MaxCommands = 3
INVARIANT NoLostWakeup
CHECK_DEADLOCK FALSE
