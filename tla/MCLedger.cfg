SPECIFICATION Spec
CONSTANTS
  Account = {a, b, c}
  Prices <- MCPrices
  Feeds <- MCFeeds
  RequestId = {1}
  MaxPending = 1
  MaxRequests = 1
  ConversionDelay = 1
  WithdrawTime = 1
  MaxExpiration = 1
  Percent100 = 20
  CollateralRatio = 40
  ConversionFee = 1
  Year = 1
  InterestRate = 20
  CompoundInterval = 0
  Hive = 5
  Hbd = 4
  Sizes = {2, 5}
  Moves <- MCMoves
  EscrowMoves <- MCEscrowMoves
  MaxEscrows = 1
  MaxTime = 2
  MaxOps = 3
SYMMETRY AccountSymmetry
INVARIANTS
  TypeOK
  SuppliesExact
  BookSettled
  FillsFair
  RequestsSettled
CHECK_DEADLOCK FALSE
