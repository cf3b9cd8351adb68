--------------------------- MODULE MCEmailDedupe ---------------------------
(* Two keys, two senders, a stale margin of two ticks and sends of up to two. *)
EXTENDS EmailDedupe, TLC
CONSTANTS k1, k2, s1, s2
MCKeys == {k1, k2}
MCSenders == {s1, s2}
=============================================================================
