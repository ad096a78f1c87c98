SPECIFICATION FairSpec
CONSTANTS
  Capacity = 2
  Limit = 1
  MaxSeq = 3
  Conns <- MCTwoConns
  MaxId = 3
  MayFailTwice = FALSE
CHECK_DEADLOCK FALSE
INVARIANTS TypeOK AnswerIsOwn LogsAccounted StoppedMeansQuiet
PROPERTIES EveryCallReturns StopReturns
