SPECIFICATION FairSpec
CONSTANTS
  p1 = p1
  p2 = p2
  aRoot = aRoot
  aLow = aLow
  aUp = aUp
  root = root
  People <- MCPeople
  Addresses <- MCAddresses
  Canon <- MCCanon
  RootRow <- MCRootRow
  UserIds = {root, u1, u2}
  Root = root
  Workers = {w1, w2}
  Fresh = Fresh
  Gone = Gone
  None = None
  Lifetime = 1
INVARIANTS
  TypeOK
  EmailsUnique
  TokensAreOwners
PROPERTIES
  OnlyByRight
  AccessShrinks
  AccessDiesOut
