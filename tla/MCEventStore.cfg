CONSTANTS
    None = None
    Readers = {r1}
    Capacity = 2
    Positions <- MCPositions
    Times = {1, 2}
    Tables = {t}
    Sizes = {0, 2}
    MaxBatch = 3
    MaxLog = 4
    MaxIds = 4
SPECIFICATION FairStoreSpec
INVARIANTS
    StoreTypeOK
    BufferIsNewestEvents
    WatermarkIsLastDropped
    EndsDescribeBuffer
    NoLostWakeup
    ServedBatchIsComplete
    TimestampBatchHasNoHole
    ServedIdIsNotEmptyId

    
