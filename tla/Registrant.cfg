SPECIFICATION Spec
CONSTANTS
  p1 = p1
  p2 = p2
  k1 = k1
  k2 = k2
  Process <- TwoProcesses
  PublicKey <- TwoKeys
  Nil = Nil
  None = None
  MaxNodes = 4
SYMMETRY Symmetry
INVARIANTS
  RestartAccepted
  EarlierNodesStart
PROPERTIES
  ImplementsOwner
