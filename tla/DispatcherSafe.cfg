CONSTANTS
  c1 = c1
  c2 = c2
  c3 = c3
  Conn = {c1, c2}
  sessionOf <- Sessions
  numWorker = 2
  UInt32 = 4
  ChannelSize = 1
  MaxPid = 7
  MaxCrash = 3
  MaxFault = 1
  MaxBoot = 0
CHECK_DEADLOCK FALSE
SPECIFICATION Spec
SYMMETRY Symmetry
INVARIANTS SerialSessions HeldByTheLiving ReapedUpToThree
