\* A fork from below the last irreversible block grows longer.
SPECIFICATION Spec
CONSTANTS
  MCBlock = {"g", "a2", "a3", "b2", "b3", "b4"}
  Block <- MCBlock
  Root = "g"
  NoBlock = NoBlock
  Num <- MCNum
  Prev <- MCPrev
  Producer <- MCProducer
  MaxSize = 1024
  Scheduled <- MCScheduled
  Bad = {}
  Confirmable <- MCConfirmable
  MaxUndoHistory = 10
  StartMinerVotingBlock = 0
  MaxWitnesses = 21
PROPERTY PopsToCommon
