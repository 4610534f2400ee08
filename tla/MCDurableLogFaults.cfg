CONSTANTS
  a = a
  b = b
  Content <- MCContent
  None = None
  NBlocks = 3
  IdxCap = 4
  Delta <- MCDeltaUp
  Graph <- MCGraph
  MaxPending = 3
  Faults = {"read", "write", "flush"}
SPECIFICATION Spec
INVARIANTS IndexVerified
VIEW NoHistory
