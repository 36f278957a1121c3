SPECIFICATION Spec
CONSTANTS
  Workers = {w1, w2}
  Uploads <- MCUploads
  MaxDimension = 3
  MaxPixels = 4
  DefaultCeiling = 7
  None = None
INVARIANT NoBombDecoded
