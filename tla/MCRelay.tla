------------------------------- MODULE MCRelay -------------------------------
(***************************************************************************)
(* One agent and two clients with tickets for the same session: each       *)
(* client may be first, second, a duplicate, or left waiting alone.        *)
(* The agent, first or second itself, sends two frames, and the clients    *)
(* none: the pumps of the two directions have nothing in common but the    *)
(* end of their session.                                                   *)
(***************************************************************************)
EXTENDS Relay, TLC

CONSTANTS a1, b1, b2, s1

MCsid == [c \in Conn |-> s1]
MCrole == [c \in Conn |-> IF c = a1 THEN "agent" ELSE "client"]
MCMaxSent == [c \in Conn |-> IF c = a1 THEN 2 ELSE 0]
=============================================================================
