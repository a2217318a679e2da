SPECIFICATION FairSpec
CONSTANTS
  FirstBlock = 0
  BACKFILL_BLOCKS = 2
  Capacity = 1
  Outcomes <- GroupMessageStorer
  MaxLag = 0
  MaxBlock = 4
  MaxFaults = 0
CHECK_DEADLOCK FALSE
PROPERTY CancelEndsIndexing
