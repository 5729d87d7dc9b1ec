CONSTANTS
  BlockSize = 2
  MaxBlocks = 2
  HeaderSize = 2
  FrameSize = {3, 4, 5}
  WireSize = 3
  MaxSends = 4
  MaxFaults = 2
CHECK_DEADLOCK FALSE
SPECIFICATION LiveSpec
INVARIANTS TypeOK InOrder WriteArmed
PROPERTIES ImplementsFifo
