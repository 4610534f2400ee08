\* The object store and what is built on it, one part at a time.  Scripts come to
\* their end, and tables run full.
CONSTANTS
  Byte <- MCByte
  Contents <- MCContents
  Hash <- MCHash
  ArenaCap = 4
  IndexCap = 3
  MaxPuts = 5
  Parts = {"store", "gc", "cfs", "umem", "ucaps", "loader"}
SPECIFICATION ObjSpec
INVARIANTS ViewsStable LiveBlocksKept  GrantsApart LoadSound
PROPERTY RefinesContentMap
CHECK_DEADLOCK FALSE
