SPECIFICATION FairSpec
CONSTANTS
  Calls = {c1, c2}
  Nobody = Nobody
  NoAnswer = NoAnswer
  NoWatch = NoWatch
  Requested <- MCTwoBases
  FactoryBase = 0
  Codes <- MCCodes
  Prompt = FALSE
  OneMover = FALSE
  OtherFrames <- MCForeign
  MaxBus = 1
  MaxStandardId = 15
  ConfigCommandId = 12
CHECK_DEADLOCK FALSE
INVARIANTS ArmedOnlyForHolder WatchOnlyDuringMove
PROPERTIES EveryCallReturns
