SPECIFICATION Spec
CONSTANTS
  Users = {u1, u2}
  SessionIds = {s1, s2, s3}
  Workers = {w1, w2}
  Fresh = Fresh
  Gone = Gone
  None = None
  Lifetime = 1
  MaxTime = 1
  SerialFamilies = {s1, s2}
SYMMETRY Sym
INVARIANTS
  TypeOK
  OneLivePerFamily
  BurnedStaysDead
  FamiliesAreChains
PROPERTY ImplementsFamilies
