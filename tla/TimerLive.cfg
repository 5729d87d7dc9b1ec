CONSTANTS
  c1 = c1
  c2 = c2
  m1 = m1
  m2 = m2
  t = t
  Conn = {c1}
  kind <- ServerKind
  Manager = {m1}
  managerOf <- OneManager
  Ticker = {t}
  TIME_CLICK = 2
  CONN_DEL_DELAY_TIME = 1
  CONNECT_TIMEOUT = 4
  CONN_TIMEOUT = 5
  blockSyncInterval = 3
  IntRange = 40
  MaxPending = 2
SPECIFICATION LiveSpec
PROPERTIES IdleConnClosed BlockTimerFires
