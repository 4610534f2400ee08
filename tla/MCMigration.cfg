CONSTANTS
  None = None
  Object <- MCObject
  Trees <- MCTrees
  WS_MAX = 4
  Tamper = {"leaf", "node"}
  Timeouts = TRUE
  BWaits = TRUE
SPECIFICATION Spec
INVARIANTS InLockstep TreeExact
PROPERTY SyncEnds
