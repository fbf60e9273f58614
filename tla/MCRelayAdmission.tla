--------------------------- MODULE MCRelayAdmission ---------------------------
(***************************************************************************)
(* One session, its tickets good for a second.  The clients b1 and b2 have *)
(* the same ticket, and present the same string or each a spelling of its  *)
(* own.  Spellings are named by connections, so that those of the clients  *)
(* swap as the clients do.                                                 *)
(***************************************************************************)
EXTENDS RelayAdmission, TLC

CONSTANTS a1, b1, b2, s1

MCsid == [c \in Conn |-> s1]
MCrole == [c \in Conn |-> IF c = a1 THEN "agent" ELSE "client"]
Alike == [c \in Conn |-> a1]
Apart == [c \in Conn |-> c]
MCSpellings == {Alike, Apart}
Clients == Permutations({b1, b2})
=============================================================================
