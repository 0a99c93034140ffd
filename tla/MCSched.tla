------------------------------- MODULE MCSched -------------------------------
(***************************************************************************)
(* The scheduler with the init and idle threads, a kernel thread and two   *)
(* threads of one user process, three priorities and a slice of two clock  *)
(* units.                                                                  *)
(***************************************************************************)
EXTENDS Sched

CONSTANTS boot, idle, k1, u1, u2, core, uproc

MCThreads == {boot, idle, k1, u1, u2}
MCParent  == [t \in MCThreads |-> IF t \in {u1, u2} THEN uproc ELSE core]
=============================================================================
