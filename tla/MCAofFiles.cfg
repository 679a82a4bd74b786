CONSTANTS
    Policies = {"always", "everysec"}
    Faults = {"write", "manifest", "rename", "fork", "child"}
    Races = {}
    MaxWrites = 2
    MaxEvents = 3
    MaxCrashes = 1
SPECIFICATION Spec
INVARIANTS
    PromisesSurvivePowerLoss
PROPERTIES
    ImplementsDurableLog
