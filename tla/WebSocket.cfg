SPECIFICATION Spec
CONSTANTS
  TlsModes = {TRUE, FALSE}
  TextLen = 126
  BinLen = 65536
  MaxMsgs = 2
  PingGap = 1
  PongTimeout = 2
  SweepGap = 1
  MaxRead = 2
  MaxQueue = 1
  MaxBacklog = 1
  MaxPeer = 2
INVARIANTS
  Delivered
  EndsInOrder
PROPERTIES
  ConnectionProgress
CHECK_DEADLOCK FALSE
