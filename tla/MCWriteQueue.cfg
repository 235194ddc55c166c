\* Blocks, transactions and a producer, with --stop-at-block.
SPECIFICATION Spec
CONSTANTS
  BlockClient = {b1, b2}
  TxClient = {t1}
  ApiClient = {a1}
  Producer = {w1}
  NoClient = NoClient
  MaxLateCalls = 1
  StopAtBlock = TRUE
INVARIANT TypeOK
INVARIANT ContextsMatchCallers
PROPERTY BlocksServed
PROPERTY ShutdownEnds
\* A closed application does nothing any more.
CHECK_DEADLOCK FALSE
