-------------------------- MODULE MCStripeWebhook --------------------------
(* Two events, two overlapping requests, retries and rows for one day. *)
EXTENDS StripeWebhook, TLC
CONSTANTS e1, e2, h1, h2
MCEvents == {e1, e2}
MCHandlers == {h1, h2}
DatabaseDown == {"reserve", "sweep"}
=============================================================================
