SPECIFICATION Spec
CONSTANTS
  a = a
  b = b
  c = c
  NoId = NoId
  Ids = {a, b, c}
  Inputs <- MCInputs
CHECK_DEADLOCK FALSE
INVARIANTS
  TypeOK
  EachOnce
  RepliesUnderFirstNamed
  NoReplyLeftBehind
  SiblingsInOrder
  InOrderComplete
  WebReplyNests
PROPERTIES
  StepsBounded
