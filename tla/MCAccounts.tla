------------------------------ MODULE MCAccounts ------------------------------
(***************************************************************************)
(* Small instances of Accounts.                                            *)
(***************************************************************************)
EXTENDS Accounts, TLC

Symmetry == Permutations(Callers) \cup Permutations(Tokens) \cup Permutations(Sessions)
=============================================================================
