CONSTANTS
  PartSize = 3
  Split = 1
  Sample = 3
  Readers = {r1}
  MaxBlock = 7
  MaxKills = 1
SPECIFICATION Spec
INVARIANT ReplayComplete
