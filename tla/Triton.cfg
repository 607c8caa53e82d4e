SPECIFICATION LaunchSpec
CHECK_DEADLOCK FALSE
CONSTANTS
  Tokens = 3
  TopK = 2
  Experts = 2
  OffsetBits = 5
  Launches <- MCLaunches
  BlockRows = 2
  PaddingRows = 2
  BlockGroups = 2
INVARIANTS
  OutputExact
  StoredOnce
  OnlyLiveLoaded
