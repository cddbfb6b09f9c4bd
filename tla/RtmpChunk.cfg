SPECIFICATION Spec
CONSTANTS
  Csids = {"narrow", "wide"}
  WideCsids = {"wide"}
  DefSize = 1
  NewSize = 2
  MaxLen = 2
  ExtTs = 2
  Stamps = {1, 2}
  Window = 3
  MaxMsgs = 3
INVARIANTS
  ReaderInStep
PROPERTIES
  ChannelSpec
  MessagesArrive
CHECK_DEADLOCK FALSE
