SPECIFICATION FairSpec
CONSTANTS
  k1 = k1
  kbad = kbad
  h1 = h1
  l1 = l1
  Key <- AnyKey
  Address <- GoodAddress
  ValidKey <- GoodKey
  ValidAddress <- GoodAddress
  Nil = Nil
  NewNodes = NewNodes
  NoTopic = NoTopic
  Listener <- OneListener
  MaxNodes = 2
  MaxBlock = 4
  MaxFaults = 1
CHECK_DEADLOCK FALSE
INVARIANTS
  GetNodesInRange
  ListFollowsAnswers
  ListIsFresh
  AnnouncedOnce
  IdleCancelIsSafe
PROPERTIES
  ChangeAnnounced
  ImplementsDirectory
  Converges
  CancelStopsLoop
