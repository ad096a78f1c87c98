---------------------------- MODULE MCAgentClient ----------------------------
(* Instances of AgentClient for TLC.                                          *)
EXTENDS AgentClient

MCTwoConns   == 1..2
MCThreeConns == 1..3
=============================================================================
