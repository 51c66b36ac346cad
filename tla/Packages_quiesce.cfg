SPECIFICATION MCSpec
CONSTANTS
    r1 = r1
    r2 = r2
    Requests = {r1, r2}
    First = r1
    Scenarios = {"all"}
    MaxVersion = 2
    MaxRows = 2
    MaxCalls = 1
    MaxFaults = 0
    MaxCrashes = 0
INVARIANTS
    UpgradeIsQuiesced
CHECK_DEADLOCK FALSE
