SPECIFICATION FairSpec
CONSTANTS
  OwnNodeListed = {TRUE, FALSE}
  Failures = TRUE
  MaxPings = 2
CHECK_DEADLOCK FALSE
INVARIANTS
  CleanExit
  NoDeadlock
PROPERTIES
  TermEndsProcess
  CancelEndsOrWaits
  StepsRunOut
