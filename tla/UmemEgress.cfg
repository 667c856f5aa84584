SPECIFICATION FairSpec
CONSTANTS
  Frames = {f1, f2, f3, f4}
  Dirs = {"egress"}
  Workers = {w1}
  FrameSize = 4
  Headroom = 1
  MaxSegs = 3
  JumboMax = 7
  WireMax = 5
  Overhead = 1
  JoinLens = {5}
  RxLens <- SmallLens
  Batch = 3
  RingCap = 2
  FqCap = 2
  RxCap = 2
  TxCap = 3
INVARIANTS
  TxWholeChains
PROPERTY FramesComeBack
