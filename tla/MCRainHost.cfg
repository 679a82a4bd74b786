SPECIFICATION FairSpec
CONSTANTS
    c1 = c1
    c2 = c2
    Clients = {c1, c2}
    Temp = Temp
    Null = Null
    InProcess = InProcess
    Tcp = {t1, t2, t3}
    Ops = {"CALL", "CONNECT", "MODULE"}
    Hosts = {"other"}
    Filters <- MCFilters
    NoPerm <- MCNoPerm
    Standalone = {TRUE, FALSE}
    MaxCalls = 4
INVARIANTS
    CallerIsRunning
    RunsAsItsCaller
    StatesInUseAreOpen
PROPERTIES
    FallReturns
CHECK_DEADLOCK FALSE
