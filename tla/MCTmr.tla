-------------------------------- MODULE MCTmr --------------------------------
(***************************************************************************)
(* The one timer of the kernel, the heartbeat.                             *)
(***************************************************************************)
EXTENDS Tmr

CONSTANTS t1, n1, n2
=============================================================================
