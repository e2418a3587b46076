---------------------------- MODULE MCAgentLoop ----------------------------
(* TLC instances of AgentLoop. *)
EXTENDS AgentLoop

CONSTANTS r1, r2
=============================================================================
