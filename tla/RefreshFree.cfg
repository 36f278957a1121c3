SPECIFICATION FairSpec
CONSTANTS
  Users = {u1}
  SessionIds = {s1, s2, s3}
  Workers = {w1, w2}
  Fresh = Fresh
  Gone = Gone
  None = None
  Lifetime = 1
  MaxTime = 0
  SerialFamilies = {}
INVARIANTS
  ChainsAreLinked
  OwnersExist
PROPERTIES
  RevocationIsFinal
  RequestsFinish
