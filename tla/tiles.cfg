SPECIFICATION FairSpec
CONSTANTS
  a = a
  b = b
  c = c
  o = o
  near = near
  deep = deep
  Tiles <- MCTiles
  OutTiles <- MCOutTiles
  Views <- MCViews
  Shown <- MCShown
  Ring <- MCRing
  MaxPerRequest = 1
  MaxDelay = 2
  MinTiles = 2
  MaxTiles = 3
  InstantPaint = TRUE
  Faults = {"send", "silence", "refusal", "tile"}
  MaxFaults = 1
  MaxMoves = 1
CHECK_DEADLOCK FALSE
INVARIANTS TypeOK InFlightIsAsked QuietMeansComplete
PROPERTIES Settles
