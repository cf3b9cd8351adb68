----------------------------- MODULE MCExports ------------------------------
EXTENDS Exports, TLC

CONSTANTS q1, q2, q3, g1
MCRequests == {q1, q2, q3}
MCGrants == {g1}
Symmetry == Permutations(MCRequests)
=============================================================================
