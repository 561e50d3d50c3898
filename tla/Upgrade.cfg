SPECIFICATION FairSpec
CONSTANTS
  old = old  recent = recent
  Rows = {old, recent}
  Newest = 6
  VectorSteps = {2, 6}
  MaxFaults = 3
INVARIANTS RowsRetained ServesRows ReadyIsIndexed
PROPERTIES StartsAgain
CHECK_DEADLOCK FALSE
