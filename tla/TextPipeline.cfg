SPECIFICATION TextSpec
CONSTANTS
  Sources <- MCSources
  Configs <- MCConfigs
  Capacity = 2
  MaxDepth = 2
INVARIANTS ChunksCover PiecesCover
CHECK_DEADLOCK FALSE
