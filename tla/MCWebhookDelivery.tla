------------------------- MODULE MCWebhookDelivery -------------------------
(* Instances of WebhookDelivery for TLC. *)
EXTENDS WebhookDelivery

\* Minutes to wait after the first, the second, ... failed attempt.
Delays == <<1, 2, 2>>
=============================================================================
