SPECIFICATION FairSpec
CONSTANTS
    c1 = c1
    c2 = c2
    Clients = {c1, c2}
    Temp = Temp
    Null = Null
    InProcess = InProcess
    Tcp = {t1}
    Ops = {"CALL", "CONNECT"}
    Hosts = {"self"}
    Filters <- MCFilters
    NoPerm <- MCNoPerm
    Standalone = {FALSE}
    MaxCalls = 3
PROPERTIES
    FallReturns
CHECK_DEADLOCK FALSE
