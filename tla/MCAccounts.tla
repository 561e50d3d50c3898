------------------------------ MODULE MCAccounts -------------------------------
(* Instances of Accounts. *)
EXTENDS AccountsProperties, TLC

CONSTANTS a, b, c

Symmetry == Permutations(Users)
===============================================================================
