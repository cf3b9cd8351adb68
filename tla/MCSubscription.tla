--------------------------- MODULE MCSubscription ---------------------------
(* One handler at a time, between the events that are applied at once; two  *)
(* subscriptions, two days, three requests or faults.                       *)
EXTENDS Subscription
CONSTANT q1
MCRequests == {q1}
=============================================================================
