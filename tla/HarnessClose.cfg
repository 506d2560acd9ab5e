CONSTANTS
  Clients = {c1}
  MaxCalls = 2
  MaxDialogs = 1
SPECIFICATION AutoSpec
INVARIANTS AnsweredBeforeEnd
CHECK_DEADLOCK FALSE
