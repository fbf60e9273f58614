------------------------------ MODULE MCTickets ------------------------------
(***************************************************************************)
(* A ticket manager over nine seconds of half-second ticks: lifetimes of   *)
(* at most two seconds, rotations three seconds apart or more, sweeps at   *)
(* any instant and up to a second late, two spellings of each ticket.      *)
(***************************************************************************)
EXTENDS Tickets, TLC

CONSTANTS asIssued, respelled

MCTTLs == {-1, 1, 5}     \* not given, given, more than is granted
Spellings == Permutations({asIssued, respelled})
=============================================================================
