CONSTANTS
    s1 = s1
    s2 = s2
    s3 = s3
    NoOne = NoOne
    Servers <- MCServers
    FirstHost <- MCFirstHost
    BacklogSize = 1
    MaxWrites = 2
    MaxEvents = 2
SPECIFICATION FairSpec
CHECK_DEADLOCK FALSE
INVARIANTS
    PartialResyncIsSafe
    SlavesGetEverything
    MasterIsMyself
PROPERTY
    FailoverLosesNothing
    ReplicasCatchUp
