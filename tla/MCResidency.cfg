CONSTANTS
  Page = {p1, p2}
  Content = {z, a}
  Zero = z
  None = none
  FRAMEDB_N = 3
  RSET_MAX = 2
  PF_BIND_A_MAX = 2
  PF_ANON_MAX = 1
  MaxRef = 2
  StoreCap = 2
  StackResidue = TRUE
  MapMayFail = TRUE
  Tampering = TRUE
  PageOutAgain = FALSE
SPECIFICATION Spec
INVARIANTS  ContentKept 
SYMMETRY Symmetry
VIEW FreeBytesHidden
