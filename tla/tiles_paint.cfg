SPECIFICATION Spec
CONSTANTS
  a = a
  b = b
  c = c
  o = o
  near = near
  deep = deep
  Tiles <- MCTiles
  OutTiles <- MCOutTiles
  Views <- MCViews
  Shown <- MCShown
  Ring <- MCRing
  MaxPerRequest = 1
  MaxDelay = 2
  MinTiles = 2
  MaxTiles = 3
  InstantPaint = FALSE
  Faults = {"silence"}
  MaxFaults = 1
  MaxMoves = 0
CHECK_DEADLOCK FALSE
INVARIANT QuietMeansComplete
