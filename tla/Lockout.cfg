SPECIFICATION Spec
CONSTANTS
  Workers = {w1, w2, w3}
  MaxFailed = 3
  LockTime = 2
  None = None
  MaxTime = 4
  MaxAttempts = 7
SYMMETRY Sym
INVARIANTS
  TypeOK
  NoPrematureLock
  CountIsExact
  LockedAfterMax
PROPERTIES
  LockRunsItsTime
  LockOutlivesReads
