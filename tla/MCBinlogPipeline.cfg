CONSTANTS
    ChannelCapacity = 2
    BatchLimit = 3
    MaxEventRows = 3
    MaxRows = 6
    MaxErrors = 2
SPECIFICATION Spec
INVARIANTS
    TypeOK
    RowsKeptInOrder

    
