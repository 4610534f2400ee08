\* The versioned slot, processes, task state and activations, one part at a time.  Scripts
\* come to their end.
CONSTANTS
  WordMod = 4
  Hash <- MCHash
  Ceiling <- MCCeiling
  RegionCap <- MCRegion
  Requests <- MCRequests
  HalfVersions = 2
  Parts = {"vgate", "conc", "task", "activate"}
SPECIFICATION ProcSpec
INVARIANTS CaptureWhole   BackoffBoundsThrash TaskStateExact 
PROPERTY RefinesAtomicSlot
CHECK_DEADLOCK FALSE
