SPECIFICATION Spec
CONSTANTS
    Plugins = {"refund", "flight"}
    Catalogs <- MCCatalogs
    Machines <- MCMachines
    TurnsAsked = {0, 5, 51}
    EventKinds <- MCEventKinds
    Queries = {"", "x"}
    MaxPresses = 2
    MaxEvents = 2
    MaxInputs = 3
    Scripts <- MCScripts
    MaxCalls = 3
    MaxTurns = 3
    MaxChoices = 1
    Cohorts <- MCCohorts
    Behaviours <- MCBehaviours
    Models = {"m1", "m2", "m3"}
    MinComparable = 2
    MaxCohort = 2
INVARIANT NoSafetyIsTraded
