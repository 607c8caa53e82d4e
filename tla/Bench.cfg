SPECIFICATION BenchmarksSpec
CHECK_DEADLOCK FALSE
CONSTANTS
  Operations <- MCOperations
  TokenCounts <- MCTokenCounts
  Dims <- MCDims
  Eligible <- MCEligible
  Sizes <- MCSizes
  Settings <- MCSettings
  Clocks <- MCClocks
  MaxEdits = 1
  MaxSessions = 3
  MaxThorSessions = 2
  SHAPES <- MCShapes
  PairedRounds = 6
  TokenRounds = 5
  MaxPolls = 2
INVARIANTS
  SweepProvenance
  ReportUniform
  ReportComplete
  SavedKept
  OrdersFair
  SuccessIsSound
PROPERTIES
  SessionsEnd
  MeasureEnds
