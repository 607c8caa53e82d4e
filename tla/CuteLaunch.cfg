SPECIFICATION FairSpec
CHECK_DEADLOCK FALSE
CONSTANTS
  w0 = w0
  w1 = w1
  w2 = w2
  s0 = s0
  s1 = s1
  l0 = l0
  l1 = l1
  Configs <- MCConfigs
  OneSmGroups = 5
  PingPongGroups = 8
  TwoSmGroups = 3
  TwoSmSubs = 2
  TwoSmThread = 0
  Warps <- MCWarps
  LeaderWarp = w0
  CopyThreads <- MCCopyThreads
  ScaleLanes <- MCScaleLanes
  Lanes <- MCLanes
  OneSmRing = 2
  PingPongRing = 3
  TwoSmRing = 2
  KBlocks = 3
  TileCounts <- MCTileCounts
INVARIANTS
  OperandStable
  PromotionStable
  GroupsExact
  ExchangeSound
PROPERTIES
  KernelReturns
