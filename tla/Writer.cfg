CONSTANTS
  Server <- Servers
  Garbled <- GarbledServers
  PortBase = 16
  MaxPort = 3
  CidBase = 4
  QueueSize = 1
  MaxFaults = 2
SPECIFICATION LiveSpec
INVARIANTS RoutesConsistent LossIsLocal
PROPERTIES Reconnects
