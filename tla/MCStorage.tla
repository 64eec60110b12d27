------------------------------- MODULE MCStorage -------------------------------
(* The instance of Storage that TLC checks.                                *)
EXTENDS Storage, TLC

Symmetry == Permutations(RoomIds) \cup Permutations(Locked)
===============================================================================
