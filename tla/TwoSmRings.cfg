SPECIFICATION Spec
CONSTANTS
  w0 = w0
  w1 = w1
  P = 2
  Tiles = 1
  Groups = 3
  Parts = {0}
  PartWarps = {0}
  ScaleLanes = {0}
  Lanes = {0, 1}
  Lane0 = 0
  Subs = 1
INVARIANTS
  TypeOK
  OperandStable
  AccumulatorStable
  ScaleStable
  PhasesTrackLaps
  DrainedWhenFreed
  RingInv
