---------------------------- MODULE MCBd992Bridge ----------------------------
(* Instances of Bd992Bridge for TLC.                                          *)
EXTENDS Bd992Bridge, TLC

\* The node wants a sent and b not; a service is asked for b instead.
MCDesired == ("a" :> 1) @@ ("b" :> 0)
MCAsks    == {("b" :> 1)}
=============================================================================
