-------------------------------- MODULE MCHeap --------------------------------
(***************************************************************************)
(* A heap of small pages with three clients.                               *)
(***************************************************************************)
EXTENDS Heap, TLC

CONSTANTS c1, c2, c3

MCClients == {c1, c2, c3}
Symmetry  == Permutations(MCClients)
=============================================================================
