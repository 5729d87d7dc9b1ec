CONSTANTS
  w1 = w1
  w2 = w2
  s = s
  a = a
  g = g
  Account = {s, a}
  NoAddress = NoAddress
  Transaction <- ThreePayments
  GenesisTxs <- MCGenesisTxs
  MaxSecond = 2
  Genesis = Genesis
  NoId = NoId
  lastBlockKey = lastBlockKey
  WorkerId = {w1, w2}
  Node = {c}
  Worker = {w1, w2}
  idOf <- OwnIds
  Route <- ByPayer
  MaxCrashes = 1
  MaxFaults = 0
SPECIFICATION LiveSpec
INVARIANTS TypeOK NoOverdraft MoneyAccounted AckedNotLost BlockKept
PROPERTIES BroadcastNewest ImplementsBank PoolDrains
