CONSTANTS
    Owners = {o1, o2}
    Drainers = {d1, d2}
    MaxTasks = 1
    MaxRetains = 2
    MaxTimeouts = 1
    Callers = {c1, c2}
    MaxWork = 1
    MaxRows = 1
    MaxFailures = 1
    Ids = {i1, i2}
    Scopes = {s1}
    Cap = 1
    NoScope = none
    FeatureTasks = 2
    PackageTasks = 2
    MaxCrashes = 1
    MaxCandidates = 2
SPECIFICATION Spec
INVARIANTS TypeOK DrainedIsFinal CleanMeansNothingLost BatchIsAtomic
    InflightIsExact ObligationsAreKept AnswerIsStored
PROPERTIES DrainsReturn
CHECK_DEADLOCK FALSE
