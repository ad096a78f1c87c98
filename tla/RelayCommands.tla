---------------------------- MODULE RelayCommands ----------------------------
(* What the configuration services of nodes/msel_master_relay promise: the    *)
(* relay decides commands one at a time, and each caller is told what the     *)
(* relay decided about its own command -- or that it was never sent.          *)
CONSTANTS Calls, Verdicts

VARIABLES decided,  \* what the relay made of each command
          reported  \* what the caller was told

Init == /\ decided  = [c \in Calls |-> "none"]
        /\ reported = [c \in Calls |-> "pending"]

Outstanding(c) == decided[c] # "none" /\ reported[c] = "pending"

Decide(c) ==
  /\ decided[c] = "none" /\ reported[c] = "pending"
  /\ \A d \in Calls : ~ Outstanding(d)
  /\ \E v \in Verdicts \union {"ignored"} : decided' = [decided EXCEPT ![c] = v]
  /\ UNCHANGED reported

Report(c) ==
  /\ Outstanding(c)
  /\ reported' = [reported EXCEPT ![c] = decided[c]]
  /\ UNCHANGED decided

Refuse(c) ==
  /\ decided[c] = "none" /\ reported[c] = "pending"
  /\ reported' = [reported EXCEPT ![c] = "unsent"]
  /\ UNCHANGED decided

Next == \E c \in Calls : Decide(c) \/ Report(c) \/ Refuse(c)

Spec == Init /\ [][Next]_<<decided, reported>>
=============================================================================
