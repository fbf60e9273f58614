------------------------------ MODULE RateLimit ------------------------------
(***************************************************************************)
(* What a rate limit promises: no more than Limit hits of a key are let in *)
(* within a Period, and none is turned away before.  log is the whole      *)
(* truth: the ages of all hits let in that a window that ends now covers.  *)
(***************************************************************************)
EXTENDS Integers, Sequences, Ages

CONSTANTS Key, Limit, Period

VARIABLES log,     \* log[k]: ages of the hits let in, oldest first
          answer   \* the last answer: a key and whether it was let in

vars == <<log, answer>>

Init == log = [k \in Key |-> <<>>] /\ answer = <<>>

LetIn(k) == /\ Limit = 0 \/ Len(log[k]) < Limit
            /\ log' = IF Limit = 0 THEN log ELSE [log EXCEPT ![k] = Append(@, 0)]
            /\ answer' = <<k, TRUE>>

TurnAway(k) == /\ Limit > 0 /\ Len(log[k]) = Limit
               /\ answer' = <<k, FALSE>>
               /\ UNCHANGED log

Pass == /\ log' = [k \in Key |-> Younger([i \in DOMAIN log[k] |-> log[k][i] + 1], Period)]
        /\ UNCHANGED answer

Next == (\E k \in Key : LetIn(k) \/ TurnAway(k)) \/ Pass

Spec == Init /\ [][Next]_vars
=============================================================================
