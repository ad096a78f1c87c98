SPECIFICATION FairSpec
CONSTANTS
  MaxPages = 2
  Outputs = {"a", "b", "c"}
  OnPort = {"a", "b"}
  Rates = {0, 1}
  Off = 0
  Unlisted = Unlisted
  MaxRecords = 1
  MaxListed = 2
  Threads = {main, service}
  Nobody = Nobody
  Main = main
  Desired <- MCDesired
  Policy = "exclusive"
  Mode = "enforce"
  Asks <- MCAsks
  MaxTrouble = 3
CHECK_DEADLOCK FALSE
INVARIANTS
  TypeOK
  OwnReply
PROPERTIES
  EventuallySettled
