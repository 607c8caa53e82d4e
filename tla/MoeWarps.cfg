SPECIFICATION Spec
SYMMETRY MCSymmetry
CONSTANTS
  w0 = w0
  w1 = w1
  P = 1
  Buffers = 2
  CachedGroups = 2
  Launches <- MCWarps
INVARIANTS
  OutputComplete
