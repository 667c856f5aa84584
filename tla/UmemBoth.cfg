SPECIFICATION Spec
CONSTANTS
  Frames = {f1, f2, f3, f4}
  Dirs = {"egress", "ingress"}
  Workers = {w1}
  FrameSize = 4
  Headroom = 1
  MaxSegs = 3
  JumboMax = 5
  WireMax = 5
  Overhead = 1
  JoinLens = {5}
  RxLens <- MixedLens
  Batch = 2
  RingCap = 2
  FqCap = 2
  RxCap = 3
  TxCap = 3
SYMMETRY Symmetry
INVARIANTS
  OneOwner
  LengthsAgree
  RxReleased
