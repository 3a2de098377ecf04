CONSTANTS
    feeder = feeder
    other = other
    Callers = {feeder, other}
    Connectors = 2
    MaxInFlight = 1
    MaxSize = 2
    MaxBatches = 2
SPECIFICATION Spec
INVARIANTS
    SinkTypeOK
    BatchesInOrder
    MetricsTellTheTruth
PROPERTY EveryBatchTried
CHECK_DEADLOCK FALSE
