SPECIFICATION Spec
SYMMETRY MCSymmetry
CONSTANTS
  w0 = w0
  w1 = w1
  P = 2
  Tiles = 2
  Groups = 1
  Parts = {0}
  PartWarps <- MCPartWarps
  ScaleLanes = {0}
  Lanes = {0}
  Lane0 = 0
  Subs = 1
PROPERTIES
  ImplementsTileStream
