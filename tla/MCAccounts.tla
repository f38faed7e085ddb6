----------------------------- MODULE MCAccounts -----------------------------
(* Accounts on a small instance: an admin, and a second person to come.     *)
EXTENDS Accounts, TLC

Symmetry == Permutations(Pin) \cup Permutations(Call)
=============================================================================
