CONSTANTS
  MaxCount = 1
  Pressed = {"a", "A", "g", "h", "l", "i", "j", "T", "M", "r", "1", "Z", "v", "F", "o", "c",
             "colon", "space", "esc", "return", "shift", "left", "C-k", "C-2", "C-3", "C-h", "C-return"}
  Total = 3
  PageSize = 1
  MaxRevision = 1
  Threads = {"t1", "t2"}
  NoThread = "none"
  TargetHome = "t1"
  Messages = 1
  MaxGeneration = 3
  Clients = {c1}
  MaxCalls = 2
  MaxDialogs = 1
  Mail <- MCMail
  WindowLimit = 1
  MaxChoices = 0
  MailThreads = {1, 2}
  ListLength = 2
  RowChunk = 1
  MaxShows = 2
  MaxAttachActs = 2
  MaxForeign = 1
SPECIFICATION DeskSpec
INVARIANTS TagsTheRange AwaitedLoadNotSkipped OpensWhatIsShown OnlyPermittedWork ExitAnsweredFirst
INVARIANTS ImagesOnlyWhenPermitted
PROPERTIES SequenceWithinMode NewestLoadWins
CHECK_DEADLOCK FALSE
