SPECIFICATION FairSpec
CONSTANTS
  PsnMod = 256
  FirstPsn = 99
  Slack = 10
  Delta = 0
  PhoneLsp <- MCWindow2
  OwnLsp <- MCWired
  Payloads = {1, 3}
  MaxChunks = 4
  MaxLoss = 1
  MaxInFlight = 2
  Senders = {"accessory"}
  WhenDrained = TRUE
  MayBreak = TRUE
CHECK_DEADLOCK FALSE
PROPERTIES EverythingArrives
