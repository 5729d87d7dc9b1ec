CONSTANTS
  Worker = {w1, w2}
  None = None
  Tx = {t1}
  DefaultPort = 9090
  Port = {9080, 9090}
  MaxBlock = 1
  MaxCrashes = 1
  MaxFaults = 1
CHECK_DEADLOCK FALSE
SPECIFICATION LiveSpec
INVARIANTS SomeoneLogsIn
PROPERTIES EveryWorkerReady  AckedArrives
