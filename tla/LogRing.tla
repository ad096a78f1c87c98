------------------------------- MODULE LogRing -------------------------------
(* libs/agent_control/log_sink.cpp: the ring of log records that app.logs     *)
(* reads.  A record is its sequence number.  The spdlog sink lets one logger  *)
(* at a time into sink_it_, which takes the ring's own mutex twice: once for  *)
(* the number, once to store the record; a query can come in between.         *)
EXTENDS Integers, Sequences, FiniteSets

CONSTANTS
  Capacity, \* capacity_
  Limit,    \* the limit of a query, 0 for none
  MaxSeq    \* records logged in a behaviour, a bound of the model

ASSUME CapacityAssumption == Capacity \in Nat \ {0}
ASSUME LimitAssumption == Limit \in Nat /\ MaxSeq \in Nat

VARIABLES
  records, \* records_
  nextSeq, \* next_seq_
  inHand   \* the numbered record its logger has not stored yet, as a set

ringVars == <<records, nextSeq, inHand>>

RingInit == records = <<>> /\ nextSeq = 1 /\ inHand = {}

\* First region of sink_it_.
SinkNumbers ==
  /\ inHand = {}
  /\ nextSeq <= MaxSeq
  /\ inHand' = {nextSeq}
  /\ nextSeq' = nextSeq + 1
  /\ UNCHANGED records

\* Wrong on purpose: evicts only once the ring is over its capacity already.
Stored_OneTooMany(held, seq) ==
  IF Len(held) > Capacity THEN Append(Tail(held), seq) ELSE Append(held, seq)

\* Second region: the record goes in, the oldest go out.
Stored(held, seq) ==
  LET grown == Append(held, seq)
  IN  IF Len(grown) > Capacity THEN Tail(grown) ELSE grown

SinkStores ==
  \E seq \in inHand :
    /\ records' = Stored(records, seq)
    /\ inHand' = {}
    /\ UNCHANGED nextSeq
-----------------------------------------------------------------------------
(* query(): the records from since on, the newest Limit of them, and how many *)
(* were evicted between the caller's cursor and the oldest one held.          *)

Held == {records[i] : i \in DOMAIN records}

\* Wrong on purpose: the bound next_seq is taken for the last record read.
Matching_Exclusive(since) == {seq \in Held : seq > since}

Matching(since) == {seq \in Held : seq >= since}

Newest(seqs) ==
  {seq \in seqs : Limit = 0 \/ Cardinality({s \in seqs : s > seq}) < Limit}

WantFrom(since) == IF since > 1 THEN since ELSE 1

Dropped(since) ==
  IF records # <<>> /\ WantFrom(since) < Head(records)
    THEN Head(records) - WantFrom(since)
    ELSE 0

Query(since) ==
  [since |-> since, records |-> Newest(Matching(since)),
   nextSeq |-> nextSeq, dropped |-> Dropped(since)]
=============================================================================
