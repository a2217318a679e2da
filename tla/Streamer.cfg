SPECIFICATION FairSpec
CONSTANTS
  FirstBlock = 1
  BACKFILL_BLOCKS = 2
  Capacity = 1
  Outcomes <- AnyOutcome
  MaxLag = 2
  MaxBlock = 4
  MaxFaults = 2
CHECK_DEADLOCK FALSE
INVARIANTS
  NoGap
  LossIsBounded
  HandledInOrder
  CancelDrains
PROPERTIES
  EventsAreHandled
  CancelEndsIndexing
