--------------------------- MODULE MCBudgetLedger ---------------------------
(* Instances of BudgetLedger for TLC.                                      *)
EXTENDS BudgetLedger, TLC

CONSTANTS k1, k2

KeyNames == Permutations(Keys)
=============================================================================
