CONSTANTS
  c1 = c1
  c2 = c2
  c3 = c3
  Conn = {c1, c2}
  sessionOf <- Sessions
  numWorker = 1
  UInt32 = 4
  ChannelSize = 1
  MaxPid = 4
  MaxCrash = 1
  MaxFault = 0
  MaxBoot = 1
CHECK_DEADLOCK FALSE
SPECIFICATION LiveSpec
PROPERTIES SlotRecovers ConnDispatched OrphansExit
