------------------------------ MODULE MCRegistry ------------------------------
(***************************************************************************)
(* A small registry: an aid with two rids, two connections, two slot       *)
(* objects more than either holds alone, and a lease of two clock units.   *)
(***************************************************************************)
EXTENDS Registry, TLC

Symmetry == Permutations(Key) \cup Permutations(Conn) \cup Permutations(Slot)
=============================================================================
