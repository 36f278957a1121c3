SPECIFICATION Spec
CONSTANTS
  Envelopes = {e1, e2}
  Passphrases = {p1, p2}
  PayloadLens = {0, 1, 2}
  BadLengths = {0, 6}
  Carriers <- MCCarriers
  HeaderLen = 5
  TagBytes = 1
  ByteBits = 2
  FieldOf <- MCFieldOf
  Order <- MCOrder
  None = None
  Fresh = Fresh
  MaxDamage = 2
INVARIANTS
  TypeOK
  ExtractExact
  VerifyCoversExtract
  CapacityAgrees
