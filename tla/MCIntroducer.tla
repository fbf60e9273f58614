----------------------------- MODULE MCIntroducer -----------------------------
(***************************************************************************)
(* c1 and c2 are two connections of agent A, the second from another       *)
(* address and with a rid more; c3 is agent B, from c1's address, which    *)
(* shares that rid.                                                        *)
(***************************************************************************)
EXTENDS Introducer

CONSTANTS c1, c2, c3, kA, kB, kR, ip1, ip2

MCaid == [c \in Conn |-> IF c = c3 THEN kB ELSE kA]
MCrids == [c \in Conn |-> IF c = c1 THEN {} ELSE {kR}]
MCaddr == [c \in Conn |-> IF c = c2 THEN ip2 ELSE ip1]
=============================================================================
