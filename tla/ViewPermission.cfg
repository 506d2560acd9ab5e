SPECIFICATION ViewSpec
CONSTANTS
  Mail <- MCMail
  WindowLimit = 1
  MaxChoices = 1
INVARIANTS EveryViewPermitted
