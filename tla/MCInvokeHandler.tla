-------------------------- MODULE MCInvokeHandler --------------------------
(* TLC instances of InvokeHandler. *)
EXTENDS InvokeHandler
=============================================================================
