CONSTANTS
  SendSeqMod = 6
  RingSize = 3
  NackEnable = TRUE
  HasRtx = TRUE
  FirstSeq = 4
  Intervals = {0}
  ResendSlack = 1
  SrGap = 1
  MaxBurst = 2
  MaxSent = 8
  RecvSeqMod = 6
  MaxDropout = 3
  MaxMisorder = 2
  WordMod = 24
  LostMod = 8
  TicksPerSec = 2
  NtpPerSec = 3
  NtpMod = 12
  KeyGap = 3
  Links <- MCLinks
  Starts = {3, 5}
  Horizon = 5
  MaxDelay = 2
  RrGap = 2
  XrGap = 2
  XrFresh = 3
  Jumps = {3}
  MaxLosses = 1
SPECIFICATION Spec
INVARIANTS
  ReportsExact
  KeyFrameSoon
PROPERTIES
  NoLossHidden
CHECK_DEADLOCK FALSE
