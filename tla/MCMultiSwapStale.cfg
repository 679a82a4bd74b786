CONSTANTS
    Clients = {c1, c2}
    Keys = {k1}
    None = None
    MaxQueue = 1
    Replica = FALSE
    Ops = {"SET", "SETEX", "DEL", "FLUSHDB", "SWAPDB", "GET", "UNWATCH"}
SPECIFICATION Spec
SYMMETRY Symmetry
INVARIANTS
    ExecSeesNoChange
