SPECIFICATION FairSpec
CONSTANTS
  Workers = {0}
  Flows = {"f"}
  Protos = {"udp"}
  Sizes = {"oversize"}
  TableSize = 3
  Probe = 2
  Timeout = 1
  IdMod = 8
  NonceMod = 1
  MaxSends = 4
  MaxCopies = 1
  MaxTime = 2
  MaxRestarts = 0
CHECK_DEADLOCK FALSE
INVARIANTS
  OneEntryPerDatagram
  HalfKept
PROPERTY HalvesExpire
