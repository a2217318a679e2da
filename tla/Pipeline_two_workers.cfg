SPECIFICATION Spec
CONSTANTS
  s1 = s1
  s2 = s2
  c1 = c1
  c2 = c2
  c3 = c3
  n1 = n1
  n2 = n2
  k1 = k1
  k2 = k2
  topic = topic
  payerSig = payerSig
  None = None
  Malformed = Malformed
  Server = {s1, s2}
  Call = {c1, c2}
  Identity <- MCIdentity
  PayerEnv <- MCPayerEnv
  NumRows = 2
  MaxLocalID = 5
  MaxStaged = 2
  MaxFaults = 1
SYMMETRY Symmetry
INVARIANTS
  NeverStuck
  InOrder
  NoRowSkipped
  AnsweredIsDurable
  AnswerMatchesGateway
  TargetsPublisher
PROPERTIES
  GatewayIDsGrow
  ImplementsLog
