----------------------------- MODULE MCAccounts -----------------------------
(* Accounts for TLC: two accounts, two requests at a time.                  *)
EXTENDS Accounts, TLC

Symmetry == Permutations(Handlers) \cup Permutations(Users)
===============================================================================
