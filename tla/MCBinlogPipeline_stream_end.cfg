CONSTANTS
    ChannelCapacity = 1
    BatchLimit = 2
    MaxEventRows = 2
    MaxRows = 4
    MaxErrors = 1
SPECIFICATION Spec
PROPERTY StreamEndTriggersShutdown
