SPECIFICATION StartSpec
CONSTANTS
  FirstBlock = 0
  BACKFILL_BLOCKS = 2
  Capacity = 1
  Outcomes <- AnyOutcome
  MaxLag = 0
  MaxBlock = 4
  MaxFaults = 0
CHECK_DEADLOCK FALSE
PROPERTY RunsUntilCancelled
