------------------------------- MODULE MCList -------------------------------
(***************************************************************************)
(* A list of up to four nodes with two items.                              *)
(***************************************************************************)
EXTENDS List, TLC

CONSTANTS n1, n2, n3, n4, a, b

\* Addresses are only compared, and so are items.
Symmetry == Permutations({n1, n2, n3, n4}) \union Permutations({a, b})
=============================================================================
