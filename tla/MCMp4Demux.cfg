SPECIFICATION Spec
CONSTANTS
  BRANDS_MAX = 8
  Word = 65536
  Micro = 1000
  BlockSize = 700
  FeedSizes = {300, 2000}
  MaxOdd = 2
  Files <- MCFiles
INVARIANTS
  WalkSound
  SamplesSent
PROPERTIES
  ToolReturns
