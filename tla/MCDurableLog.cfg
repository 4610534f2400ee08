CONSTANTS
  a = a
  b = b
  Content <- MCContent
  None = None
  NBlocks = 6
  IdxCap = 4
  Delta <- MCDelta
  Graph <- MCGraph
  MaxPending = 3
  Faults = {}
SPECIFICATION FairSpec
INVARIANTS AckedDurable RecoveredAgrees
PROPERTIES RefinesDurableMap SettlesDown
