SPECIFICATION MCSpec
CONSTANTS
    r1 = r1
    Requests = {r1}
    First = r1
    Scenarios = {"all"}
    MaxVersion = 2
    MaxRows = 2
    MaxCalls = 1
    MaxFaults = 0
    MaxCrashes = 0
PROPERTIES
    SiblingUntouched
CHECK_DEADLOCK FALSE
