SPECIFICATION Spec
CONSTANTS
  u1 = u1  u2 = u2  o1 = o1  o2 = o2  report = report  notes = notes  x = x  y = y
  None = None  Idle = Idle  Empty = Empty  Mixed = Mixed
  Uploads = {u1, u2}
  Files <- MCFiles
  Copies = 2
  Operations <- MCOperations
INVARIANTS SourceUnlessClash NoTwins ThreadIsAlone BackupIsWhole NoneLeftRunning WorkerFollowsApp
CHECK_DEADLOCK FALSE
