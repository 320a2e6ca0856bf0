------------------------- MODULE MCWebhookDelivery -------------------------
(* An instance of WebhookDelivery for TLC. *)
EXTENDS WebhookDelivery, TLC

WorkerSymmetry == Permutations(Workers)
=============================================================================
