------------------------------ MODULE Iap2Stream ------------------------------
(* What a session of the link promises one direction: the chunks come out in  *)
(* the order they went in, each once.                                         *)
EXTENDS Naturals, Sequences

VARIABLES accepted,  \* how many chunks the sender has submitted
          delivered  \* the chunks handed up at the other end

Init == accepted = 0 /\ delivered = << >>

Submit == accepted' \in Nat /\ accepted' > accepted /\ UNCHANGED delivered

\* Chunks are numbered as they are submitted; a step may hand up several.
Deliver == \E k \in Len(delivered) + 1 .. accepted :
             /\ delivered' = delivered \o [i \in 1 .. k - Len(delivered) |-> Len(delivered) + i]
             /\ UNCHANGED accepted

Spec == Init /\ [][Submit \/ Deliver]_<<accepted, delivered>>
=============================================================================
