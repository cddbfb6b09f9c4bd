CONSTANTS
  RtpSeqMod = 5
  MaxDropout = 3
  MaxMisorder = 2
  Timeout = 0
  ReportGap = 0
  AgeMax = 2
  MaxCycles = 2
  MaxHeld = 3
  PackTimeout = 2
  PackReportGap = 1
  PayloadMax = 2
  Scripts <- MCScripts
  Faults = {"none", "parse", "empty", "unknown"}
  StartSeqs = {0, 3}
  Jumps = {2, 3}
  MaxRestarts = 1
SPECIFICATION VSpec
INVARIANTS
  PathIntact
PROPERTIES
  GateHolds
