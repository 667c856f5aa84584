SPECIFICATION Spec
CONSTANTS
  Mtu = 660
  FirstLen = 540
  Jumbo = 876
  CryptoCpus = {3, 4, 5, 6, 7, 8}
CHECK_DEADLOCK FALSE
INVARIANTS
  FragmentsFit
  SplitOnlyIfNeeded
  ClampedTcpFits
  Transparent
  SynClamped
