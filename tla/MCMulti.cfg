CONSTANTS
    Clients = {c1, c2}
    Keys = {k1}
    None = None
    MaxQueue = 2
    Replica = FALSE
    Ops = {"SET", "SETEX", "DEL", "FLUSHDB", "GET", "UNWATCH"}
SPECIFICATION Spec
SYMMETRY Symmetry
INVARIANTS
    WatchTablesAgree
    ExecSeesNoChange
    ExecRunsWhatWasSent
    NoDeniedWriteInExec
