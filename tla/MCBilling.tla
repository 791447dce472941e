----------------------------- MODULE MCBilling -----------------------------
(* Billing for TLC: which of the transactions is which does not matter.    *)
EXTENDS Billing, TLC

Symmetry == Permutations(Transactions)
=============================================================================
