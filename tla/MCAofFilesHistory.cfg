CONSTANTS
    Policies = {"always"}
    Faults = {"manifest"}
    Races = {"reuse"}
    MaxWrites = 1
    MaxEvents = 2
    MaxCrashes = 1
SPECIFICATION Spec
INVARIANTS
    PromisesSurvivePowerLoss
