---------------------------- MODULE MCTileSource -----------------------------
(* Instances of TileSource for TLC.                                           *)
EXTENDS TileSource

CONSTANTS a, b, c, o, near, deep

\* Over a, with b around it; or past the deepest level, over o, where the
\* archive has c to magnify and b around it.  Its level 0 is a.
MCTiles == {a, b, c, o}
MCOutTiles == {o}
MCViews == {near, deep}
MCShown == (near :> [unknown |-> <<a>>, archive |-> <<a>>, zero |-> <<a>>])
           @@ (deep :> [unknown |-> <<o>>, archive |-> <<c>>, zero |-> <<a>>])
MCRing  == (near :> [unknown |-> <<b>>, archive |-> <<b>>, zero |-> <<>>])
           @@ (deep :> [unknown |-> <<c>>, archive |-> <<b>>, zero |-> <<>>])
=============================================================================
