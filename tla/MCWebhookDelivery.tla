-------------------------- MODULE MCWebhookDelivery --------------------------
(***************************************************************************)
(* Model-checking instances of WebhookDelivery.  Events, endpoints and     *)
(* workers are interchangeable; the run with a liveness property does not  *)
(* use the symmetry.                                                       *)
(***************************************************************************)
EXTENDS WebhookDelivery, TLC

Symmetry == Permutations(Events) \cup Permutations(Endpoints) \cup Permutations(Workers)
=============================================================================
