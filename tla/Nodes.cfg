SPECIFICATION Spec
CONSTANTS
  a1 = a1
  a2 = a2
  k1 = k1
  k2 = k2
  h1 = h1
  h2 = h2
  Account <- Accounts
  Key <- Keys
  Address <- Addresses
  NoOne = NoOne
  NoBytes = NoBytes
  MaxUint16 = 2
INVARIANTS
  TokensAreNodes
PROPERTIES
  ImplementsNodeList
