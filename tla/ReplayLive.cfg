CONSTANTS
    Channels = {a, b}
    First = a
    MaxEvents = 2
    MaxReplays = 2
    Chunk = 1
    RowCap = 1
    BufCap = 1
    MaxSubs = 2
    MaxSwept = 1
    MaxFaults = 1
SPECIFICATION MCSpec
INVARIANTS TypeOK NoSilentLoss FramesInOrder
PROPERTIES ReplaysReleaseChannels
CHECK_DEADLOCK FALSE
