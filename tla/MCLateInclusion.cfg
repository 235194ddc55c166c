SPECIFICATION Spec
CONSTANTS
  Tx = {a, b, v}
  a = a
  b = b
  v = v
  w = w
  Expiration <- MCExpiration
  Needs <- MCNeeds
  Clash <- MCClash
  WitnessTx <- MCWitnessTx
  Size <- MCSize
  MaxAge = 2
  MaxSigAge = 8
  MaxMempool = 2
  MaxBlockSize = 2
  FloodLevel = 0
  PostponedLimit = 1
  MaxTime = 4
  MaxHeight = 3
  MaxPops = 2
  MaxPushes = 3
INVARIANTS
  BlocksJudgedAlike
