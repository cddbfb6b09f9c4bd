CONSTANTS
  MaxQueue = 4
  Formats = {"raw", "flv"}
  BenchCount = 3
  StartInterval = 2
  WaitLimit = 3
  MaxReads = 3
SPECIFICATION ToolSpec
INVARIANTS
  NoLostWakeup
  FedWhileAlive
PROPERTIES
  ToolProgress
CHECK_DEADLOCK FALSE
