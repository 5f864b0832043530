----------------------------- MODULE MCWebhooks -----------------------------
(* Instances of Webhooks for TLC: every subscription wants every change.   *)
EXTENDS Webhooks

MCWants == [s \in Subs |-> Changes]
=============================================================================
