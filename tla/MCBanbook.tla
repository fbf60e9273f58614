------------------------------ MODULE MCBanbook ------------------------------
(***************************************************************************)
(* A ban book with room for two of three keys, a short and a long rung,    *)
(* and sweeps up to one unit late.                                         *)
(***************************************************************************)
EXTENDS Banbook, TLC

MCLadder == <<1, 3>>
MCSoftLadder == <<1, 2>>
Keys == Permutations(Key)
=============================================================================
