-------------------------------- MODULE Window --------------------------------
(***************************************************************************)
(* internal/ratelimit/window.go: a sliding window of hits per key.  Both   *)
(* methods hold Window.mu throughout.  A hit is its age, counted only as   *)
(* far as a comparison can tell; a key without hits is a key that the map  *)
(* does not have.                                                          *)
(***************************************************************************)
EXTENDS Integers, Sequences, Ages

CONSTANTS
  Key,
  Limit,   \* Window.limit; 0 is unlimited
  Period,  \* Window.window
  Lag      \* how late Sweep may act on the time it was called with

VARIABLE hits   \* Window.hits

TypeOK == /\ hits \in [Key -> Seq(0..Period + Lag)]
          /\ Limit > 0 => \A k \in Key : Len(hits[k]) <= Limit

Init == hits = [k \in Key |-> <<>>]

\* The hits that were inside the window lag ago.
Kept(s, lag) == Younger(s, Period + lag)

\* What Allow answers.
Room(k) == Limit = 0 \/ Len(Kept(hits[k], 0)) < Limit

\* Mutant: a refused hit counts as well.
AllowCounting(k) ==
  hits' = IF Limit = 0 THEN hits ELSE [hits EXCEPT ![k] = Append(Kept(@, 0), 0)]

Allow(k) ==
  hits' = IF Limit = 0 THEN hits
          ELSE [hits EXCEPT ![k] = IF Room(k) THEN Append(Kept(@, 0), 0) ELSE Kept(@, 0)]

\* Mutant: the sweep keeps the last hit only.
SweepToLast(lag) ==
  hits' = [k \in Key |-> LET s == Kept(hits[k], lag)
                         IN IF s = <<>> THEN s ELSE <<s[Len(s)]>>]

Sweep(lag) == hits' = [k \in Key |-> Kept(hits[k], lag)]

Older(s) == [i \in DOMAIN s |-> IF s[i] < Period + Lag THEN s[i] + 1 ELSE s[i]]

Tick == hits' = [k \in Key |-> Older(hits[k])]
=============================================================================
