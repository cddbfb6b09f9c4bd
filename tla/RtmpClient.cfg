CONSTANTS
  MaxMedia = 1
SPECIFICATION RtmpFairSpec
INVARIANTS
  DialogueInStep
PROPERTIES
  SessionSettles
CHECK_DEADLOCK FALSE
