-------------------------- MODULE MCWebhookDelivery --------------------------
(***************************************************************************)
(* Instances of WebhookDelivery for TLC.  Workers differ only in their     *)
(* names, and so do memories.                                              *)
(***************************************************************************)
EXTENDS WebhookDelivery, TLC

WorkerSymmetry == Permutations(Workers) \cup Permutations(Mems)
=============================================================================
