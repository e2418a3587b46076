----------------------------- MODULE MCWebhookd -----------------------------
(* TLC instances of Webhookd. *)
EXTENDS Webhookd

CONSTANTS q1, q2
=============================================================================
