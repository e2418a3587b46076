--------------------------- MODULE MCAgentRunner ---------------------------
(* TLC instances of AgentRunner. *)
EXTENDS AgentRunner

CONSTANTS q1, q2
=============================================================================
