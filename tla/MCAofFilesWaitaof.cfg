CONSTANTS
    Policies = {"everysec"}
    Faults = {}
    Races = {"unsynced"}
    MaxWrites = 1
    MaxEvents = 1
    MaxCrashes = 1
SPECIFICATION Spec
INVARIANTS
    AcknowledgedWritesSurvive
