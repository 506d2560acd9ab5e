SPECIFICATION ReplacementSpec
CONSTANTS
    MaxPrepared = 3
    MaxCached = 3
    MaxChanges = 2
    EarlierErrors = TRUE
INVARIANT AttachedFilesExist
CHECK_DEADLOCK FALSE
