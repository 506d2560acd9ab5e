CONSTANTS
    Contents <- MCContents
    MaxGeneration = 7
    MaxRequests = 20
    MaxFlushes = 12
    Operations = {"send", "save", "clear", "new", "delete", "close"}
    MaxOperations = 5
SPECIFICATION ComposerSpec
PROPERTIES NoStrandedEdit CloseKeepsDraft DraftDeletedAfterUse
CHECK_DEADLOCK FALSE
