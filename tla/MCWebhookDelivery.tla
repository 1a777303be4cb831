------------------------- MODULE MCWebhookDelivery -------------------------
(* Small instances of WebhookDelivery for TLC.                             *)
EXTENDS WebhookDelivery

(* A growing backoff ladder: 1, 2, 3, ... ticks.                           *)
Ladder == [n \in 1..MaxAttempts |-> n]

(* SettlesWhileActive promises nothing once the endpoint is not active or  *)
(* an instance has failed for good, so the liveness run stops there.       *)
WhileActive ==
  endpoint.status = "Active" /\ \A d \in Deliveries : NeverFailed(d)

(* One fault or one manual retry in a behaviour.                           *)
Retried == {d \in Deliveries : retries[d] > 0}
OneDisturbance == faults + Cardinality(retrying) + Cardinality(Retried) <= 1

=============================================================================
