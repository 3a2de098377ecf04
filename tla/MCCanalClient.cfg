CONSTANTS
    None = None
    c1 = c1
    a = a
    t1 = t1
    t2 = t2
    Readers = {c1}
    ClientIds = {a}
    IdsOf <- MCIdsOf
    IdOf <- MCIdOf
    FilterOf <- MCFilterOf
    Filters <- MCFilters
    Capacity = 2
    Positions <- TwoPositions
    Times = {1}
    StartTimes = {0}
    Tables = {t1, t2}
    Sizes = {}
    FetchSizes = {}
    FetchSize = 1
    ChannelSize = 1
    DefaultStart <- MCDefaultStart
    MaxFetchSize = 2
    MaxAuthErrors = 3
    MaxUnknown = 10
    MaxConnections = 1
    MaxBatch = 1
    MaxLog = 4
    MaxIds = 9
SPECIFICATION ClientSpec
INVARIANTS
    ClientTypeOK
    AckedWasForwarded
PROPERTIES
    
    EndedOnlyByLoss
CHECK_DEADLOCK FALSE
