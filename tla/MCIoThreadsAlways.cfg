SPECIFICATION FairSpec
CONSTANTS
    c1 = c1
    c2 = c2
    NoClient = NoClient
    Clients <- TwoClients
    Threads <- OneThread
    Commands <- Writes
    MaxPending = 1
    FsyncAlways = TRUE
    MaxEvents = 2
    MaxPartial = 0
PROPERTY AnswersAreDurable
CHECK_DEADLOCK FALSE
