SPECIFICATION Spec
CONSTANTS
  Workers = {0, 1}
  Flows = {"f"}
  Protos = {"udp", "icmp", "data"}
  Sizes = {"fits", "oversize"}
  TableSize = 1
  Probe = 1
  Timeout = 1
  IdMod = 1
  NonceMod = 3
  MaxSends = 2
  MaxCopies = 2
  MaxTime = 2
  MaxRestarts = 1
CHECK_DEADLOCK FALSE
INVARIANTS
  JoinSound
  JoinConsumes
  JoinFresh
  NonceOnce
