SPECIFICATION Spec
CONSTANTS
  Users = {u1, u2}
  JobIds = {j1, j2}
  Workers = {w1, w2}
  Fresh = Fresh
  Gone = Gone
  None = None
  FkEnforced = TRUE
SYMMETRY Sym
INVARIANTS
  TypeOK
  ServedRight
  JobsHaveOwners
  CountersExact
PROPERTY DeleteIsFinal
