\* The trust store under any records, and the suites under their scripts.
CONSTANTS
  WordMod = 4
  Hash <- MCHash
  Root = "R"
  OtherRoot = "X"
  Key = {k1, k2}
  AUTH_PK = auth
  SRC_PK = k1
  SRC2_PK = k2
  WRONG_PK = k2
  NoKey = nokey
  Nonce = {1, 2}
  Epoch = {1, 2, 3, 4}
  Expiry = {0, 1}
  Now = 1
  Ceilings = {1, 2, 3}
  SRC_CEILING = 2
  SEEN_MAX = 2
  TS_REVOKED_MAX = 2
  Sets <- MCSets
  Parts = {"trust", "suites"}
SPECIFICATION AuthSpec
INVARIANTS AcceptSound 
PROPERTIES  SuitesComplete
