----------------------------- MODULE MCWebhooks -----------------------------
(* Webhooks for TLC: one event, two endpoints, two attempts.                *)
EXTENDS Webhooks
===============================================================================
