----------------------------- MODULE MCSessions -----------------------------
(***************************************************************************)
(* A small instance of Sessions: two requests of the page at a time.        *)
(***************************************************************************)
EXTENDS Sessions, TLC

Symmetry == Permutations(Requests)

=============================================================================
