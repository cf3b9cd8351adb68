---------------------------- MODULE MCBusinesses ----------------------------
(* Two requests of one user. *)
EXTENDS Businesses, TLC
CONSTANTS q1, q2
MCRequests == {q1, q2}
Symmetry == Permutations(MCRequests)
=============================================================================
