--------------------------------- MODULE Ages ---------------------------------
(***************************************************************************)
(* Sequences of ages, and the loop that both methods of Window run over    *)
(* theirs (window.go).                                                     *)
(***************************************************************************)
EXTENDS Integers, Sequences

\* The ages below t, in their order.
Younger(s, t) ==
  LET kept[i \in 0..Len(s)] ==
        IF i = 0 THEN <<>>
        ELSE IF s[i] < t THEN Append(kept[i-1], s[i]) ELSE kept[i-1]
  IN kept[Len(s)]
=============================================================================
