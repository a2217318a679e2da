SPECIFICATION Spec
CONSTANTS
  k1 = k1
  kbad = kbad
  h1 = h1
  l1 = l1
  Key <- GoodKey
  Address <- GoodAddress
  ValidKey <- GoodKey
  ValidAddress <- GoodAddress
  Nil = Nil
  NewNodes = NewNodes
  NoTopic = NoTopic
  Listener <- OneListener
  MaxNodes = 1
  MaxBlock = 3
  MaxFaults = 0
CHECK_DEADLOCK FALSE
INVARIANTS
  CancelIsSafe
