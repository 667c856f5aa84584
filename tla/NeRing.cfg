SPECIFICATION Spec
CONSTANTS
  Producers = {w1, w2}
  Packets = {a1, a2, a3, a4, a5, a6}
  Cap = 2
  Laps = 2
  NoOne = NoOne
SYMMETRY Symmetry
INVARIANTS
  CountExact
  NoSlotRace
  DeliveredInOrder
  PairTogether
  CountThenPop
PROPERTY ImplementsFifo
