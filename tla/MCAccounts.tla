----------------------------- MODULE MCAccounts -----------------------------
(***************************************************************************)
(* A small instance of Accounts: two requests in hand and two addresses.     *)
(***************************************************************************)
EXTENDS Accounts, TLC

Symmetry == Permutations(Emails) \cup Permutations(Handlers)

=============================================================================
