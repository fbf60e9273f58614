------------------------------ MODULE Directory ------------------------------
(***************************************************************************)
(* What the agent registry promises, without slots, aliases or a map: at   *)
(* any time a key is held by at most one connection, on a lease.  A claim  *)
(* of several keys is one step, and is only possible when none of them is  *)
(* held by another connection; a holder loses a key only by giving it up   *)
(* or by letting the lease run out.  Registry.tla implements it.           *)
(***************************************************************************)
EXTENDS Naturals

CONSTANTS Key, Conn, TTL, Nobody

VARIABLES
  holder,   \* who a lookup of a key finds
  lease     \* how long that answer stands without a renewal

vars == <<holder, lease>>

Init == /\ holder = [k \in Key |-> Nobody]
        /\ lease = [k \in Key |-> 0]

\* c takes, or renews, every key of K for a whole lease.
Claim(c, K) ==
  /\ \A k \in K : holder[k] \in {Nobody, c}
  /\ holder' = [k \in Key |-> IF k \in K THEN c ELSE holder[k]]
  /\ lease' = [k \in Key |-> IF k \in K THEN TTL ELSE lease[k]]

\* c gives up keys it holds.
Release(c, K) ==
  /\ \A k \in K : holder[k] = c
  /\ holder' = [k \in Key |-> IF k \in K THEN Nobody ELSE holder[k]]
  /\ lease' = [k \in Key |-> IF k \in K THEN 0 ELSE lease[k]]

\* Time passes: leases get shorter, and the last unit ends the holding.
Pass ==
  /\ lease' = [k \in Key |-> IF lease[k] > 0 THEN lease[k] - 1 ELSE 0]
  /\ holder' = [k \in Key |-> IF lease[k] > 1 THEN holder[k] ELSE Nobody]

Next == \/ \E c \in Conn, K \in SUBSET Key : Claim(c, K) \/ Release(c, K)
        \/ Pass

Spec == Init /\ [][Next]_vars
=============================================================================
