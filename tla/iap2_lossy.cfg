SPECIFICATION Spec
CONSTANTS
  PsnMod = 256
  FirstPsn = 254
  Slack = 10
  Delta = 0
  PhoneLsp <- MCWindow2
  OwnLsp <- MCWired
  Payloads = {1, 3}
  MaxChunks = 4
  MaxLoss = 1
  MaxInFlight = 2
  Senders = {"accessory", "phone"}
  WhenDrained = TRUE
  MayBreak = FALSE
CHECK_DEADLOCK FALSE
INVARIANTS TypeOK RetransmissionArmed AcknowledgedWasReceived
PROPERTIES InOrder
