CONSTANTS
  d1 = d1
  d2 = d2
  Docs <- TwoDocs
  Jobs = {1, 2, 3}
  Batches <- TwoBatches
  QueueCap = 1
  Worker = Worker
  Collection = Collection
  NoDoc = NoDoc
  Ops = {"cancel", "retry", "reprocess", "stop", "crash", "delete", "deleteCollection", "bulk"}
  MaxOps = 3
  MaxRuns = 4
  Faults = {"runtime", "vectors"}
SPECIFICATION Spec
INVARIANTS ReadyIsWhole DeletedIsGone
PROPERTIES NoContentLoss ImplementsIndex
CHECK_DEADLOCK FALSE
