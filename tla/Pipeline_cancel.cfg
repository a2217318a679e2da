SPECIFICATION FairSpec
CONSTANTS
  s1 = s1
  s2 = s2
  c1 = c1
  c2 = c2
  c3 = c3
  n1 = n1
  n2 = n2
  k1 = k1
  k2 = k2
  topic = topic
  payerSig = payerSig
  None = None
  Malformed = Malformed
  Server = {s1}
  Call = {c1}
  Identity <- OneIdentity
  PayerEnv <- OnePayerEnv
  NumRows = 1
  MaxLocalID = 3
  MaxStaged = 3
  MaxFaults = 1
PROPERTIES
  CancelClosesUpdates
