CONSTANTS
    Channels = {a}
    MaxEvents = 2
    MaxReplays = 1
    Chunk = 1
    RowCap = 1
    BufCap = 1
    MaxSubs = 1
    MaxSwept = 2
    MaxFaults = 0
SPECIFICATION Spec
INVARIANT ExpiredCursorIsTold
CHECK_DEADLOCK FALSE
