SPECIFICATION Spec
CONSTANTS
  OwnSsrcs <- MCOwnSsrcs
  Answers <- MCAnswers
  Consumes <- MCConsumes
  BlockLen = 8
  DigestLen = 2
  KeyLen = 3
  Times = {1, 2}
  ServerVersions = {3, 6}
  Commands <- MCCommands
  StunRequests <- MCStunRequests
  RtpInputs <- MCRtpInputs
  Frames <- MCFrames
  MaxFrames = 4
  OpusPackets <- MCOpusPackets
  AscConfigs <- MCAscConfigs
  FrameLens = {1, 371, 2041, 8184, 8185}
  AudioLens = {1, 160, 255, 256, 320}
  MaxAudio = 5
  AudioClock = 48000
  AudioTsMod = 480
  SyncTimes = {0, 5, 12, 20, 24, 31}
  MaxSync = 4
  Ports <- MCPorts
  Urls <- MCUrls
  PRE_RESERVE_HEADER_SIZE = 2
  EXTRA_LEN = 4
  Sizes <- MCSizes
  SizeMod = 1000
  BufferSizes = {1, 3, 6, 8}
  MaxAppend = 3
  MaxBytes = 8
INVARIANTS
  NegotiatedAlike
  RtmpReadBack
  RtcReadBack
  HeadersReadBack
  BufferHolds
CHECK_DEADLOCK FALSE
