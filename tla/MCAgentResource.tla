-------------------------- MODULE MCAgentResource --------------------------
(* TLC instances of AgentResource. *)
EXTENDS AgentResource

CONSTANTS p1, p2, u1, u2, u3
=============================================================================
