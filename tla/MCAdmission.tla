----------------------------- MODULE MCAdmission -----------------------------
(***************************************************************************)
(* Two requests at a time of the clients in one block.                     *)
(***************************************************************************)
EXTENDS Admission, TLC

CONSTANT b1

MCblock == [a \in Addr |-> b1]
MCLadder == <<1, 2>>
MCSoftLadder == <<1>>
Requests == Permutations(Req)
=============================================================================
