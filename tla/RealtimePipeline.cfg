CONSTANTS
    Producers = {p1, p2}
    MaxId = 2
    BatchSize = 1
    QueueCap = 1
    MaxFaults = 1
SPECIFICATION FairSpec
INVARIANTS TypeOK PersistedInOrder NoRowSkipped CleanFlushIsComplete
PROPERTIES ImplementsEventLog RowsSettle
CHECK_DEADLOCK FALSE
