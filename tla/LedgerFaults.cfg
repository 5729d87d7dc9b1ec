CONSTANTS
  w1 = w1
  w2 = w2
  s = s
  a = a
  g = g
  Account = {s, a}
  NoAddress = NoAddress
  Transaction <- TwoPayments
  GenesisTxs <- MCGenesisTxs
  MaxSecond = 1
  Genesis = Genesis
  NoId = NoId
  lastBlockKey = lastBlockKey
  WorkerId = {w1, w2}
  Node = {}
  Worker = {w1, w2}
  idOf <- SameId
  Route <- ByPayerAndForwarded
  MaxCrashes = 1
  MaxFaults = 2
SPECIFICATION Spec
INVARIANTS ChainUnlinked BuilderMutex AtMostOneBlockPerTx
