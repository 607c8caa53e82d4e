SPECIFICATION Spec
CHECK_DEADLOCK FALSE
CONSTANTS
  Tokens = 2
  TopK = 2
  Experts = 2
  Ids <- MCIds
  Align = 3
  DenseRows = 1
  Rooms <- MCRooms
  Calls = 2
  Setups <- AllSetups
INVARIANTS
  InvalidRejected
  NativeJustified
  OutputComplete
