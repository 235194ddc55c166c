\* The LIB follows the head at a fixed distance, from block 4 on by votes.
SPECIFICATION Spec
CONSTANTS
  MCBlock = {"g", "a2", "a3", "a4", "a5", "a6", "d6", "d7"}
  Block <- MCBlock
  Root = "g"
  NoBlock = NoBlock
  Num <- MCNum
  Prev <- MCPrev
  Producer <- MCProducer
  MaxSize = 1024
  Scheduled <- MCScheduled
  Bad = {"d6"}
  Confirmable <- MCConfirmable
  MaxUndoHistory = 3
  StartMinerVotingBlock = 4
  MaxWitnesses = 1
PROPERTY RequestsEnd
