--------------------------- MODULE ResponseWaiter ---------------------------
(* libs/msel/src/response_waiter.cpp: the rendezvous between the thread that *)
(* sends a configuration command and the thread that decodes the relay's     *)
(* answer.  mMutex makes every member function one atomic step.              *)

CONSTANTS NoAnswer  \* std::nullopt

VARIABLES armed,    \* mArmed
          response  \* mResponse

waiterVars == <<armed, response>>

WaiterInit == armed = FALSE /\ response = NoAnswer

Arm == armed' = TRUE /\ response' = NoAnswer

\* A response delivered while nothing is armed is dropped; a second one while
\* armed replaces the first.
Deliver(r) == /\ response' = IF armed THEN r ELSE response
              /\ UNCHANGED armed

Disarm == armed' = FALSE /\ response' = NoAnswer

\* wait(): the condition variable's predicate, read with the lock held.  The
\* thread leaves with mResponse, and the same critical section disarms.
Answered == response # NoAnswer
WaitEnds == Disarm
=============================================================================
