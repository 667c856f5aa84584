SPECIFICATION WakeSpec
CONSTANTS
  Last = 2
  BufCaps = {0, 1}
  MaxPackets = 2
  MayStop = TRUE
  XskFrames = 4
  Size = 2
  Turns = 2
  SegMax = 2
  RxBatch = 2
  TxBatch = 2
INVARIANTS
  NoLostWakeup
  FramesOnce
  TakenInOrder
PROPERTIES
  PipelineDrains
  StopReachesAll
  KernelWoken
