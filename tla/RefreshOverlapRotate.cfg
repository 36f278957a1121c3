SPECIFICATION Spec
CONSTANTS
  Users = {u1}
  SessionIds = {s1,s2,s3}
  Workers = {w1,w2}
  Fresh = Fresh
  Gone = Gone
  None = None
  Lifetime = 1
  MaxTime = 1
  SerialFamilies = {}
  u1 = u1
  s1 = s1
  s2 = s2
  s3 = s3
  w1 = w1
  w2 = w2
INVARIANT OneLiveAlways
