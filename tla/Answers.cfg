CONSTANTS
  Contents = {c1}
  MaxGeneration = 1
  MaxRequests = 4
  MaxFlushes = 3
  InputSize = 2
  OutputSize = 2
  OutputLimit = 1
  PipeSize = 1
  Readers = {"loader", "attachment"}
  Attempts = 4
  MaxTagged = 2
  MaxMoved = 1
  MaxLoads = 2
  MaxStarts = 1
  MaxTries = 1
  MaxAsks = 2
SPECIFICATION AnswersSpec
INVARIANTS NothingLeftBehind QuietViewFollows
PROPERTIES AnsweredWhenDurable NewerEditSurvives FlushAnswered ChildFinishes ReadFindsFile
CHECK_DEADLOCK FALSE
