\* A fast confirmation that makes the node switch forks.
SPECIFICATION Spec
CONSTANTS
  MCBlock = {"g", "a2", "a3", "a4", "b2", "b3", "b4", "c3", "c4", "c5"}
  Block <- MCBlock
  Root = "g"
  NoBlock = NoBlock
  Num <- MCNum
  Prev <- MCPrev
  Producer <- MCProducer
  MaxSize = 1024
  Scheduled <- MCScheduled
  Bad = {}
  Confirmable <- MCConfirmable
  MaxUndoHistory = 10
  StartMinerVotingBlock = 0
  MaxWitnesses = 21
INVARIANT NotifiedOnce
