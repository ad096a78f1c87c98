SPECIFICATION Spec
CONSTANTS
  Capacity = 1
  Limit = 0
  MaxSeq = 1
  Conns <- MCThreeConns
  MaxId = 4
  MayFailTwice = TRUE
CHECK_DEADLOCK FALSE
INVARIANT AnswerIsOwn
