CONSTANTS
    Channels = {a}
    MaxEvents = 1
    MaxReplays = 1
    Chunk = 1
    RowCap = 1
    BufCap = 1
    MaxSubs = 1
    MaxSwept = 0
    MaxFaults = 0
SPECIFICATION Spec
INVARIANT NoMissedFrame
CHECK_DEADLOCK FALSE
