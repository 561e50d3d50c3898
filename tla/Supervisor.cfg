SPECIFICATION FairSpec
CONSTANTS
  Budget = 3
INVARIANTS OneBackend
PROPERTIES StopPrevails OperationsEnd
CHECK_DEADLOCK FALSE
