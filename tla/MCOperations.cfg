SPECIFICATION Spec
CONSTANTS
    Null = Null
    Bad = Bad
    r1 = r1
    r2 = r2
    Programs = {"server", "embedded"}
    Destinations = {"default", "b"}
    Tables = {"users", "logs"}
    PatternTables <- MCPatternTables
    EmptyPattern = ""
    Configs <- MCConfigs
    Filters <- MCFilters
    AdminTokens = {"secret"}
    Headers = {"", "secret"}
    MaxPort = 5
    Batches <- MCBatches
    Requests = {r1, r2}
    MaxInstances = 2
    MaxSweeps = 2
    MaxFed = 4
    Fed = {"default"}
    MaxFeeders = 1
    Kinds <- MCKinds
INVARIANTS
    OperationsTypeOK
    
    StopHolds
    SweepReachesAll
    StoredIsFiltered
PROPERTIES
    ShutdownExits
CHECK_DEADLOCK FALSE
