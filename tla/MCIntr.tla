------------------------------- MODULE MCIntr -------------------------------
(***************************************************************************)
(* Interrupt masking with two kernel threads and a user thread.            *)
(***************************************************************************)
EXTENDS Intr

CONSTANTS k1, k2, u1
=============================================================================
