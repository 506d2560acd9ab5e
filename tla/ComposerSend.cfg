CONSTANTS
    Contents <- MCContents
    MaxGeneration = 7
    MaxRequests = 20
    MaxFlushes = 12
    Operations = {"send", "close"}
    MaxOperations = 4
SPECIFICATION ComposerSpec
PROPERTIES TransportAfterDurable NothingTypedIsLost
    SentTextLeavesRecovery SendEnds HiddenWindowResolves
CHECK_DEADLOCK FALSE
