------------------------------ MODULE MCLedger ------------------------------
(* Model values for TLC's runs of Ledger.  Nothing tells the issues apart.  *)
EXTENDS Ledger
CONSTANTS a, b, c
Symmetric == Permutations(Ids)
=============================================================================
