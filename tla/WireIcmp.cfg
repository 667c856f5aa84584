SPECIFICATION Spec
CONSTANTS
  Workers = {0}
  Flows = {"f"}
  Protos = {"udp", "icmp", "data"}
  Sizes = {"fits", "oversize"}
  TableSize = 2
  Probe = 2
  Timeout = 1
  IdMod = 8
  NonceMod = 1
  MaxSends = 1
  MaxCopies = 1
  MaxTime = 1
  MaxRestarts = 0
CHECK_DEADLOCK FALSE
INVARIANT
  IcmpCarried
