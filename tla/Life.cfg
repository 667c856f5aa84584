SPECIFICATION FairSpec
CONSTANTS
  RxLan = 1
  RxWan = 2
  TxSlots = 2
  Crypto = 2
  MaxQueues = 2
  NFrames = 32
  FqPrefill = 10
  BatchSize = 2
  PollMax = 2
  HwQueues = {0, 1, 3}
  MaxRuns = 3
  MaxKills = 2
INVARIANTS
  ThreadsHaveAll
  UmemLast
  CleanStop
  BindClean
  DataplaneComplete
PROPERTIES
  StopEnds
  BlackholeEnds
