CONSTANTS
  d1 = d1
  d2 = d2
  Docs <- TwoDocs
  Jobs = {1, 2, 3, 4}
  Batches <- ShortText
  QueueCap = 1
  Worker = Worker
  Collection = Collection
  NoDoc = NoDoc
  Ops = {"cancel", "retry", "reprocess", "stop", "crash", "delete"}
  MaxOps = 2
  MaxRuns = 3
  Faults = {"runtime"}
SPECIFICATION FairSpec
PROPERTIES DocumentsSettle
CHECK_DEADLOCK FALSE
