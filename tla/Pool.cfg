CONSTANTS
  Process = {p1, p2}
  Server <- MCServer
  Conf <- MCConf
  Key <- MCKey
  hash <- MCHash
  txPoolKey = "txs"
  BCLock = "lock"
  Password = TRUE
  EarlyOutage = TRUE
  MaxPush = 1
  MaxOutages = 1
  MaxFaults = 1
CHECK_DEADLOCK FALSE
SPECIFICATION LiveSpec
INVARIANTS SameServer DequeuedOnce
PROPERTIES Recovers
