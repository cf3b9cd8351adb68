----------------------------- MODULE MCReceipts -----------------------------
(* Three receipts, two to a transaction at most, two transactions, two requests. *)
EXTENDS Receipts, TLC
CONSTANTS f1, f2, f3, t1, t2, q1, q2
MCFiles == {f1, f2, f3}
MCTxns == {t1, t2}
MCRequests == {q1, q2}
Symmetry == Permutations(MCFiles) \union Permutations(MCTxns) \union Permutations(MCRequests)
=============================================================================
