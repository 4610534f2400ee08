\* The libraries beside the kernel, one part at a time.  A library stops when nobody calls it.
CONSTANTS
  WordMod = 8
  Hash <- MCHash
  Node = {n1, n2}
  Roots <- MCRoots
  Regions <- MCRegions
  Presented <- MCPresented
  MaxHeld = 2
  MaxWire = 1
  Parts = {"deleg", "cap", "epoch", "sls", "gate", "blake"}
SPECIFICATION LibSpec
INVARIANTS
  AuthorityNarrows
  BackendsAgree
  IncrementalIsFull
  
  
  HashIsTree
SYMMETRY NodeSymmetry
CHECK_DEADLOCK FALSE
