SPECIFICATION Spec
CONSTANTS
  Workers = {w1, w2, w3}
  Uploads <- MCUploads
  MaxDimension = 3
  MaxPixels = 4
  DefaultCeiling = 7
  None = None
SYMMETRY Sym
INVARIANTS
  TypeOK
  SameVerdict
  GuardUntilOverlap
  CeilingRestored
