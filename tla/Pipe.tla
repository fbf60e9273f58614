--------------------------------- MODULE Pipe ---------------------------------
(***************************************************************************)
(* What a blind relay promises, without hubs, pumps, buffers or timeouts:  *)
(* two ends of opposite roles that present the same session are joined, at *)
(* most once each, and from then on each gets the frames the other sent,   *)
(* from the very first, each once and in order.  It may stop at any point. *)
(* Relay.tla implements it.                                                *)
(***************************************************************************)
EXTENDS Naturals, Sequences

CONSTANTS End, Size,
          sid,    \* sid[e]: the session end e presents
          role,   \* role[e]: the role it presents
          Alone   \* the mate of an end that is not joined

VARIABLES mate,   \* the end joined to each end
          sent,   \* frames each end has sent
          got     \* frames each end was given

vars == <<mate, sent, got>>

Init == /\ mate = [e \in End |-> Alone]
        /\ sent = [e \in End |-> <<>>]
        /\ got = [e \in End |-> <<>>]

Send(e, size) ==
  /\ sent' = [sent EXCEPT ![e] = Append(@, [nr |-> Len(@) + 1, size |-> size])]
  /\ UNCHANGED <<mate, got>>

Join(a, b) ==
  /\ a # b /\ mate[a] = Alone /\ mate[b] = Alone
  /\ sid[a] = sid[b] /\ role[a] # role[b]
  /\ mate' = [mate EXCEPT ![a] = b, ![b] = a]
  /\ UNCHANGED <<sent, got>>

\* The next frame e has not been given yet.
Deliver(e) ==
  /\ mate[e] # Alone
  /\ Len(got[e]) < Len(sent[mate[e]])
  /\ got' = [got EXCEPT ![e] = Append(@, sent[mate[e]][Len(@) + 1])]
  /\ UNCHANGED <<mate, sent>>

Next == \/ \E e \in End, size \in Size : Send(e, size)
        \/ \E a, b \in End : Join(a, b)
        \/ \E e \in End : Deliver(e)

Spec == Init /\ [][Next]_vars
=============================================================================
