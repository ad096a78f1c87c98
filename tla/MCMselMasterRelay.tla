-------------------------- MODULE MCMselMasterRelay --------------------------
(* Instances of MselMasterRelay for TLC.                                      *)
EXTENDS MselMasterRelay, TLC

\* With 4 the factory's address: one whose last identifier is 4, a far one, and
\* one validateBaseAddress refuses.
MCRequested == {1, 8, 10}
MCTwoBases  == {4, 10}
MCCodes     == {"InvalidId"}

MCNobodyElse == {}
\* Another device whose status message is at the address a caller asks for.
MCForeign == {[id |-> 4, kind |-> "status", from |-> "other", call |-> Nobody,
               code |-> "Success"]}

CallSymmetry == Permutations(Calls)
==============================================================================
