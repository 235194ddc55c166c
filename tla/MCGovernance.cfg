SPECIFICATION Spec
CONSTANTS
  a = a
  b = b
  c = c
  Account = {a, b, c}
  Null = null
  NoProxy = none
  Witness = {v, w}
  Proposal = {1, 2}
  Proxies <- MCProxies
  Voters = {b, c}
  Elected = {w}
  Destinations = {a, c}
  Depth = 2
  DelayInterval = 2
  DelayTotal = 3
  ExpirationPeriod = 3
  DeclinePeriod = 1
  WithdrawInterval = 1
  WithdrawIntervals = 2
  Percent100 = 2
  MaxRoutes = 2
  MaxWitnessVotes = 1
  RemoveThreshold = 1
  Stake = 2
  MaxAmount = 1
  MaxTime = 3
  MaxOps = 3
INVARIANTS
  TypeOK
  ProxiedExact
  WitnessVotesExact
  VestsCounted
  DelayedExact
  GovernanceExpires
CHECK_DEADLOCK FALSE
