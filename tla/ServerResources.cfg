SPECIFICATION FairSpec
CONSTANTS
  u1 = u1
  s1 = s1
  s2 = s2
  MaxRequests = 4
  Threads = 2
  PoolSize = 2
  Users = {u1}
  Sessions = {s1, s2}
  Jobs = {}
  OwnerOf <- MCOwnerOf
  Rank <- MCRank
  Inputs <- MCInputs
INVARIANTS
  TypeOK
  CyclesNeedDeletion
  NoStandstill
PROPERTIES
  AllAnswered

