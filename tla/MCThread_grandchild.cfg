SPECIFICATION Spec
CONSTANTS
  a = a
  b = b
  c = c
  NoId = NoId
  Ids = {a, b, c}
  Inputs <- MCConversations
CHECK_DEADLOCK FALSE
INVARIANTS
  ClientReplyNests
