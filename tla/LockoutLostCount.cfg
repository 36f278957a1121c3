SPECIFICATION Spec
CONSTANTS
  Workers = {w1, w2}
  MaxFailed = 3
  LockTime = 2
  None = None
  MaxTime = 3
  MaxAttempts = 6
INVARIANT LockSetAtMax
