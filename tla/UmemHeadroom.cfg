SPECIFICATION Spec
CONSTANTS
  Frames = {f1, f2, f3, f4, f5}
  Dirs = {"ingress"}
  Workers = {w1}
  FrameSize = 4
  Headroom = 1
  MaxSegs = 3
  JumboMax = 7
  WireMax = 6
  Overhead = 2
  JoinLens = {5, 6}
  RxLens <- SmallLens
  Batch = 3
  RingCap = 2
  FqCap = 3
  RxCap = 4
  TxCap = 4
INVARIANT DescsInsideChunk
