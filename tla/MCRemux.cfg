SPECIFICATION RemuxSpec
CONSTANTS
  ExtraMax = 5
  TS_DEF_DATALEN = 8
  PcrLen = 3
  WaitMax = 2
  PatInterval = 2
  TsLimit = 9
  FlvTsMod = 3
  Starts = {0, 2, 6}
  ReadPackets = 2
  MaxTags = 3
  Shapes <- MCShapes
INVARIANTS
  Remuxed
PROPERTIES
  ToolsEnd
