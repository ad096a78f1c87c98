---------------------------- MODULE MCTileWorkers ----------------------------
(* Instances of TileWorkers for TLC.                                          *)
EXTENDS TileWorkers
=============================================================================
