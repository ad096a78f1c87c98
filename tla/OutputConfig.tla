----------------------------- MODULE OutputConfig -----------------------------
(* libs/bd992/src/output_config.cpp: what differs between the outputs of a    *)
(* receiver and those wanted on one of its ports, and the records that put it *)
(* right.  A configuration maps every output the receiver lists to its rate,  *)
(* which may be Off; one it does not list is sent as little, but is not the   *)
(* same to the code.  What is wanted maps some outputs to a rate, Off         *)
(* included (the node's YAML may list an output once).                        *)
EXTENDS Integers

CONSTANTS
  Outputs, \* the outputs of the receiver, on all its ports
  OnPort,  \* those on the port in question
  Rates,   \* the rates
  Off,     \* the one that is no output
  Unlisted \* in place of a rate: not in the receiver's file

ASSUME OutputsAssumption == OnPort \subseteq Outputs
ASSUME RatesAssumption == Off \in Rates /\ Unlisted \notin Rates

Configs == [Outputs -> Rates \union {Unlisted}]

Wishes == UNION {[wanted -> Rates] : wanted \in SUBSET Outputs}

Policies == {"additive", "exclusive"}

\* A change of kind Missing or RateDrift; a wanted output that is not listed is
\* Missing whatever its rate, Off too.
Corrected(actual, desired) ==
  {o \in OnPort \cap DOMAIN desired : actual[o] # desired[o]}

\* A change of kind Unexpected.
Unexpected(actual, desired) ==
  {o \in OnPort \ DOMAIN desired : actual[o] \notin {Off, Unlisted}}

\* Wrong on purpose: leaves the outputs that run at a wrong rate.
PlanWrites_OnlyMissing(actual, desired, policy) ==
  [o \in {c \in Corrected(actual, desired) : actual[c] \in {Off, Unlisted}}
           \union (IF policy = "exclusive" THEN Unexpected(actual, desired) ELSE {})
     |-> IF o \in DOMAIN desired THEN desired[o] ELSE Off]

\* Wrong on purpose: turns off what other ports send.
PlanWrites_AnyPort(actual, desired, policy) ==
  [o \in Corrected(actual, desired)
           \union {u \in Outputs \ DOMAIN desired : policy = "exclusive"
                                                     /\ actual[u] \notin {Off, Unlisted}}
     |-> IF o \in DOMAIN desired THEN desired[o] ELSE Off]

\* The outputs a write sets, with their rates.
PlanWrites(actual, desired, policy) ==
  [o \in Corrected(actual, desired)
           \union (IF policy = "exclusive" THEN Unexpected(actual, desired) ELSE {})
     |-> IF o \in DOMAIN desired THEN desired[o] ELSE Off]

\* External: the receiver applies a file and leaves what it does not mention.
\* What it turns off it may list as Off, or not at all.
Applied(config, records) ==
  {[o \in Outputs |-> IF o \in dropped THEN Unlisted
                      ELSE IF o \in DOMAIN records THEN records[o] ELSE config[o]]
     : dropped \in SUBSET {o \in DOMAIN records : records[o] = Off}}

\* What the receiver sends of an output.
Sent(config, o) == IF config[o] = Unlisted THEN Off ELSE config[o]

\* The port sends what is wanted, and under the exclusive policy nothing else.
AsWanted(config, desired, policy) ==
  /\ \A o \in OnPort \cap DOMAIN desired : Sent(config, o) = desired[o]
  /\ policy = "exclusive" => \A o \in OnPort \ DOMAIN desired : Sent(config, o) = Off

\* Outputs that are as wanted and that diff calls Missing.
OffUnlisted(config, desired) ==
  {o \in OnPort \cap DOMAIN desired : desired[o] = Off /\ config[o] = Unlisted}
=============================================================================
