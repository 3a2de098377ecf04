CONSTANTS
    None = None
    c1 = c1
    c2 = c2
    a = a
    b = b
    t1 = t1
    t2 = t2
    Readers = {c1, c2}
    ClientIds = {a, b}
    IdsOf <- OwnIds
    Capacity = 1
    Positions <- OnePosition
    Times = {1}
    StartTimes = {0}
    Tables = {t1, t2}
    Filters <- OneOrAll
    Sizes = {}
    FetchSizes <- FetchOne
    DefaultStart <- MCDefaultStart
    MaxFetchSize = 2
    MaxAuthErrors = 1
    MaxUnknown = 1
    MaxConnections = 2
    MaxBatch = 1
    MaxLog = 2
    MaxIds = 2
SPECIFICATION Spec

    
    
PROPERTIES
    ShutdownCompletes
CHECK_DEADLOCK FALSE
