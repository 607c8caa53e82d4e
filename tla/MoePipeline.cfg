SPECIFICATION Spec
CONSTANTS
  w0 = w0
  w1 = w1
  P = 2
  Buffers = 1
  CachedGroups = 2
  Launches <- MCCached
INVARIANTS
  OperandStable
  FragmentStable
