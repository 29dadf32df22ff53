--------------------------- MODULE MCWebhookPark ---------------------------
(***************************************************************************)
(* WebhookPark with two executions of two waits.                           *)
(***************************************************************************)
EXTENDS WebhookPark
=============================================================================
