SPECIFICATION FairSpec
CONSTANTS
    c1 = c1
    c2 = c2
    NoClient = NoClient
    Clients <- TwoClients
    Threads <- OneThread
    Commands <- SomeCommands
    MaxPending = 1
    FsyncAlways = FALSE
    MaxEvents = 2
    MaxPartial = 1
INVARIANT InOneList
INVARIANT NoDataRace
INVARIANT SleepersHaveNothingToDo
PROPERTY RequestsAreAnswered
CHECK_DEADLOCK FALSE
