CONSTANTS
  PartSize = 3
  Split = 1
  Sample = 3
  Readers = {r1}
  MaxBlock = 10
  MaxKills = 1
SPECIFICATION Spec
INVARIANTS TypeOK ReadServed CommittedStored ServesWhole NoStrayFiles
PROPERTY CleanRestart
