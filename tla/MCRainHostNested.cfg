SPECIFICATION Spec
CONSTANTS
    c1 = c1
    c2 = c2
    Clients = {c1, c2}
    Temp = Temp
    Null = Null
    InProcess = InProcess
    Tcp = {t1}
    Ops = {"CALL", "MODULE"}
    Hosts = {}
    Filters <- MCFilters
    NoPerm <- MCNoPerm
    Standalone = {FALSE}
    MaxCalls = 3
INVARIANTS
    CallerKept
