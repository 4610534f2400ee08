CONSTANTS
  None = None
  Object <- MCObject
  Trees <- MCTrees
  WS_MAX = 4
  Tamper = {}
  Timeouts = FALSE
  BWaits = FALSE
SPECIFICATION Spec
PROPERTY SyncEnds
CHECK_DEADLOCK FALSE
