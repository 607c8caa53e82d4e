SPECIFICATION Spec
CHECK_DEADLOCK FALSE
CONSTANTS
  Tokens = 2
  TopK = 2
  Experts = 3
  Ids <- MCIds
  Width = 2
  Chunk = 2
  KeyBlock = 3
  BlockM = 2
  TileBlock = 2
  Calls = 2
  ReplayInputs <- MCReplayInputs
INVARIANTS
  StableOrder
  CountsExact
  TilesPartition
