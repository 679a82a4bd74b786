SPECIFICATION FairSpec
CONSTANTS
    Shard = {1, 2, 4}
    Voters = {3, 5}
    FirstMaster = 2
    Budgets <- MCBudgets
INVARIANTS
    OneWinnerPerEpoch
    OneVotePerEpoch
    ReplicasOwnNothing
PROPERTIES
    EventuallySettled
CHECK_DEADLOCK FALSE
