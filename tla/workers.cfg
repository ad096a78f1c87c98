SPECIFICATION FairSpec
CONSTANTS
  Helpers = {h1, h2}
  Caller = Caller
  NoJob = NoJob
  MaxCalls = 2
  MaxCount = 3
CHECK_DEADLOCK FALSE
INVARIANTS TypeOK JobAlive NoCallMissed
PROPERTIES RunsEachOnce CallsReturn PoolJoins
