SPECIFICATION FairSpec
CONSTANTS
  Capacity = 2
  Topics = {t1, t2}
  None = None
  Scenarios <- MCScenarios
  MaxMessages = 4
  MaxParts = 2
CHECK_DEADLOCK FALSE
INVARIANTS
  TypeOK EveryMessageAccountedFor StopLosesNothing FreshestKept InArrivalOrder
  IndexTellsTheTruth KillLeavesReadableBag
PROPERTIES RecordingEnds
