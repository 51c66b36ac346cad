SPECIFICATION InstalledSpec
CONSTANTS
    r1 = r1
    r2 = r2
    Requests = {r1, r2}
    First = r1
    Scenarios = {"race", "faulty", "crash", "tests", "claims", "generations", "shell"}
    MaxVersion = 3
    MaxRows = 3
    MaxCalls = 1
    MaxFaults = 1
    MaxCrashes = 2
    Runs = {t1, t2}
    MaxRules = 1
    MaxTestFaults = 1
    Callers = {o1, o2}
    Keys = {k1, k2}
    Capacity = 5
    Maximum = 1
    Changing = {k1}
    Profiled = {2, 3}
    MaxShellFaults = 3
INVARIANTS Types ReadyIsOneGeneration QuietAndClean DrainedLeavesNothing
    RecordsMatchOwners PlatformIsOneVersion
PROPERTIES OperationsSettle
CHECK_DEADLOCK FALSE
