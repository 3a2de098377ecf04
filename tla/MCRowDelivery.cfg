SPECIFICATION Spec
CONSTANTS
    n = n
    Null = n
    Empty = ""
    Strings <- MCStrings
    TableIds = {1}
    TableDefs <- MCTableDefs
    Journals <- MCJournals
    Gtids <- MCGtids
    Statements = {"sql", "long"}
    LongSql = {"long"}
    Truncated <- MCTruncated
    Values <- MCValues
    ColumnName <- MCColumnName
    MaxSent = 2
    MaxEvents = 3
    HeaderBytes = 2
    MaxPacketSize = 3
    FetchSize = 2
    LargeText = {"lo"}
    MaxGets = 2
INVARIANTS
    DeliveryTypeOK
    
    NothingLostOnTheWire
    
    
    
PROPERTY
    EverythingIsRead
CHECK_DEADLOCK FALSE
