CONSTANTS
  MaxNamed = 2
  Modes = {"local", "maildir"}
  MaxText = 1
  MaxSaves = 1
  MaxFaults = 1
  MaxCrashes = 1
  MaxPrepared = 3
  MaxCached = 3
  MaxChanges = 2
  EarlierErrors = FALSE
  Threads <- MCThreads
  PartLimit = 3
  TotalLimit = 4
  InlineLimit = 1
  InlineTotal = 2
  AttachmentCount = 3
  PartCount = 6
  MaxDepth = 2
  Keys = {k1, k2, k3, k4}
  Values = {v1, v2}
  Capacity = 3
  MaxRecency = 5
  MaxConfigFaults = 1
SPECIFICATION FilesSpec
INVARIANTS SavedDraftSurvives UnsavedTextRecoverable TrustIsOnDisk
INVARIANTS AttachedFilesExist NoOrphanDirectory ListedIsExtracted
PROPERTIES EvictsOldest ImplementsRecencyList
CHECK_DEADLOCK FALSE
