CONSTANTS
  RtpSeqMod = 6
  MaxDropout = 3
  MaxMisorder = 2
  Timeout = 1
  ReportGap = 0
  AgeMax = 2
  MaxCycles = 1
  MaxHeld = 3
SPECIFICATION Spec
INVARIANTS
  TypeOK
  HeldBehindHole
  PromptDelivery
PROPERTIES
  Gapless
  BackwardsOnlyFromMap
