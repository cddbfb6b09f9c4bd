CONSTANTS
  SendSeqMod = 8
  NackSeqMod = 8
  MaskBits = 1
  BlockMax = 1
  RingSize = 2
  NackEnable = TRUE
  HasRtx = TRUE
  FirstSeq = 6
  Intervals = {1}
  ResendSlack = 0
  SrGap = 0
  MaxBurst = 1
  MaxSent = 6
  Window = 4
  Rtt = 1
  RetryMax = 1
  ListMax = 1
SPECIFICATION Spec
INVARIANTS
  ListExact
PROPERTIES
  FeedbackProgress
  ListDrains
