SPECIFICATION Spec
CONSTANTS
  Users = {u1}
  JobIds = {j1, j2}
  Workers = {w1, w2}
  Fresh = Fresh
  Gone = Gone
  None = None
  FkEnforced = FALSE
SYMMETRY Sym
INVARIANT JobsHaveOwners
