---------------------------- MODULE MCPlaidSync ----------------------------
(* Two transactions, each of an account of its own at the bank, two syncs. *)
EXTENDS PlaidSync, TLC
CONSTANTS t1, t2, b1, b2, s1, s2
MCTxns == {t1, t2}
MCBankAccounts == {b1, b2}
MCHome == t1 :> b1 @@ t2 :> b2
MCSyncs == {s1, s2}
=============================================================================
