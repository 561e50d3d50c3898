CONSTANTS
  r1 = r1
  r2 = r2
  key = key
  knowledge = knowledge
  Db = Db
  Wal = Wal
  First = First
  Blank = Blank
  None = None
  Restores <- TwoRestores
  Names <- Profiles
  Dirs <- Directories
  Covers <- TwoCovers
  Rank <- Order
  MayCrash <- AllPoints
  MayFail <- AllTry
  MaxFaults = 2
SPECIFICATION Spec
INVARIANTS ServesWhole
