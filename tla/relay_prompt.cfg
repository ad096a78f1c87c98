SPECIFICATION Spec
CONSTANTS
  Calls = {c1, c2, c3}
  Nobody = Nobody
  NoAnswer = NoAnswer
  NoWatch = NoWatch
  Requested <- MCRequested
  FactoryBase = 4
  Codes <- MCCodes
  Prompt = TRUE
  OneMover = TRUE
  OtherFrames <- MCNobodyElse
  MaxBus = 1
  MaxStandardId = 15
  ConfigCommandId = 12
CHECK_DEADLOCK FALSE
INVARIANTS TypeOK TelemetryIsTheRelays AnswerIsOwn DecoderAtRelay
PROPERTIES ReportsWhatHappened
