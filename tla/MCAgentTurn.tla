---------------------------- MODULE MCAgentTurn ----------------------------
(* A small instance of AgentTurn. *)
EXTENDS AgentTurn

MCTurnFaults   == [k \in TurnFaultKinds |-> 1]
=============================================================================
