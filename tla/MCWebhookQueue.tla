--------------------------- MODULE MCWebhookQueue ---------------------------
(* A small instance of WebhookQueue: one endpoint with two deliveries, two  *)
(* workers, one connection that enqueues.                                   *)
EXTENDS WebhookQueue, TLC

CONSTANTS a, d1, d2, w1, w2, k1
OneEndpoint == {a}
Two == {d1, d2}
AA == (d1 :> a) @@ (d2 :> a)
TwoWorkers == {w1, w2}
OneConn == {k1}
=============================================================================
