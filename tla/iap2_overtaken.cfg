SPECIFICATION Spec
CONSTANTS
  PsnMod = 256
  FirstPsn = 99
  Slack = 10
  Delta = 0
  PhoneLsp <- MCWindow1
  OwnLsp <- MCWired
  Payloads = {1, 2}
  MaxChunks = 5
  MaxLoss = 0
  MaxInFlight = 1
  Senders = {"accessory"}
  WhenDrained = FALSE
  MayBreak = FALSE
CHECK_DEADLOCK FALSE
INVARIANTS Concatenated
