SPECIFICATION Spec
CONSTANTS
    Shard = {1, 2, 4}
    Voters = {3, 5}
    FirstMaster = 2
    Budgets <- CrashBudgets
INVARIANTS
    WinnersDiffer
CHECK_DEADLOCK FALSE
