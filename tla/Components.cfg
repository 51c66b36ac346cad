CONSTANTS
    Tables = {t1, t2}
    Extensions = {e1, e2}
    Batches = {b1}
    MaxWrites = 3
    MaxFailures = 2
    MaxDrains = 2
    Nodes = {n1, n2, n3}
    Users = {u1}
    MaxSeq = 2
    Threshold = 2
    MaxRestarts = 1
    Electors = {w1, w2}
    MaxEnvelope = 4
    MaxStamp = 2
    MaxFaults = 1
    Builders = {p1, p2}
    Destroyers = {k1}
    Dispatches = {d1, d2}
    MaxPools = 2
    MaxPoolFailures = 1
    FirstBuilder = p1
    FirstDispatch = d1
    Entries = {x1, x2}
    Loops = {l1, l2}
    Channels = {ch1}
    Subscribers = {x1}
    Capacity = 1
    MaxSubs = 1
    MaxDeliveries = 1
    NoLoop = none
SPECIFICATION Spec
INVARIANTS TypeOK NothingIsDropped PoolsAreOwned LastStartedWins ContextsAreExclusive
PROPERTIES CursorNeverRewinds WorkIsFinished
CHECK_DEADLOCK FALSE
