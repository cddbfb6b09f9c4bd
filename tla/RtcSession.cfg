CONSTANTS
  StunGap = 1
  MaxReads = 2
SPECIFICATION Spec
INVARIANTS
  AnswersInOrder
  SrtpOnce
  StreamsInPlace
PROPERTIES
  StateForward
  ComesUp
CHECK_DEADLOCK FALSE
