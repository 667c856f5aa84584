SPECIFICATION Spec
CONSTANTS
  Packets <- MCPackets
  Workers <- MCWorkers
  TxSlots = 4
  LiveSlots = 2
  SetCount = 4
  Ways <- MCWays
  FallbackSets = 2
  FallbackWays <- MCFallbackWays
  SeqMod = 3
  Mix <- MCMix
  PeerWorker <- MCPeer
  MaxPackets = 5
  MaxAnswers = 2
INVARIANTS
  Sticky
  FlowInOrder
  SlotsBalanced
  SeqMonotonicWhileRoom
