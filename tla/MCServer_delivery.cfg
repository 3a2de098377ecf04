CONSTANTS
    None = None
    c1 = c1
    c2 = c2
    a = a
    b = b
    t1 = t1
    t2 = t2
    Readers = {c1}
    ClientIds = {a}
    IdsOf <- OneConnection
    Capacity = 2
    Positions <- TwoPositions
    Times = {1}
    StartTimes = {0, 1}
    Tables = {t1}
    Filters <- JustT1
    Sizes = {}
    FetchSizes <- FetchOneOrAny
    DefaultStart <- MCDefaultStart
    MaxFetchSize = 2
    MaxAuthErrors = 2
    MaxUnknown = 2
    MaxConnections = 1
    MaxBatch = 2
    MaxLog = 4
    MaxIds = 4
SPECIFICATION Spec
INVARIANTS
    ServerTypeOK
    NothingSkipped
    
PROPERTIES
    OnceWithoutRollback
CHECK_DEADLOCK FALSE
