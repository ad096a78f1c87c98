----------------------------- MODULE ParallelFor -----------------------------
(* What TileWorkers::runAll promises its caller: job(i) runs exactly once for *)
(* each index below count, and the call returns when all of them have         *)
(* finished -- so no job of a call runs before or after it.                   *)
EXTENDS Integers

VARIABLES calls,  \* calls of runAll so far, the one in progress included
          todo,   \* indices of the call in progress not yet started
          doing,  \* indices being run, each with the call it was claimed for
          inside  \* a call is in progress

Init == calls = 0 /\ todo = {} /\ doing = {} /\ inside = FALSE

Call == /\ ~ inside
        /\ inside' = TRUE
        /\ calls' = calls + 1
        /\ todo' # {} /\ \A i \in todo' : i \in Nat /\ 0 .. i \subseteq todo'
        /\ UNCHANGED doing

Begin == \E i \in todo : /\ todo' = todo \ {i}
                         /\ doing' = doing \union {<<calls, i>>}
                         /\ UNCHANGED <<calls, inside>>

End == \E d \in doing : doing' = doing \ {d} /\ UNCHANGED <<calls, todo, inside>>

Return == /\ inside /\ todo = {} /\ doing = {}
          /\ inside' = FALSE
          /\ UNCHANGED <<calls, todo, doing>>

Next == Call \/ Begin \/ End \/ Return

Spec == Init /\ [][Next]_<<calls, todo, doing, inside>>
=============================================================================
