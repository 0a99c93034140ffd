------------------------------ MODULE MCSpace ------------------------------
(***************************************************************************)
(* Instances of Space for TLC.  Structures of six entries hold the regions *)
(* of the code in structures of their own, as there.                       *)
(***************************************************************************)
EXTENDS Space

MCPool == 9 .. 60
=============================================================================
