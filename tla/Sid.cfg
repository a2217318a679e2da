SPECIFICATION Spec
CONSTANTS
  NodeSpan <- SpanOfNodes
  LocalSpan <- SpanOfLocal
  Node = {0, 1, 3}
  MaxLocal = 5
CHECK_DEADLOCK FALSE
INVARIANTS
  SidIdentifies
  SidsInOrder
  AgreesWithBits
