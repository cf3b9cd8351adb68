------------------------------ MODULE MCLedger ------------------------------
(* Two rows, two dates, up to two requests. *)
EXTENDS Ledger, TLC
CONSTANTS t1, t2, r1, r2
MCTxns == {t1, t2}
TwoRequests == {r1, r2}
NoneOrFirst == {0, 1}
Symmetry == Permutations(MCTxns) \union Permutations(TwoRequests)
=============================================================================
