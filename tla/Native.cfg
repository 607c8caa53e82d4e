SPECIFICATION BuildSpec
CHECK_DEADLOCK FALSE
SYMMETRY MCSymmetry
CONSTANTS
  b1 = b1
  b2 = b2
  p1 = p1
  Builders <- MCBuilders
  Processes <- MCProcesses
  Archs <- MCArchs
  Kinds = {"cuda", "cutlass", "cutlass_moe", "moe_gather"}
  Disturbed = {"moe_gather"}
  MaxVersion = 3
  MaxBuilds = 3
INVARIANTS
  AcceptedBytesMatch
  HashedPairConsistent
  RebuildRepairs
