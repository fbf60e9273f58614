---------------------------- MODULE TicketsProofs ----------------------------
(***************************************************************************)
(* Proofs about Tickets for every lifetime, rotation period, sweep delay,  *)
(* clock resolution and set of spellings: type correctness, that a string  *)
(* is accepted once, and that rotation never invalidates a ticket in       *)
(* flight.                                                                 *)
(***************************************************************************)
EXTENDS Tickets, TLAPS

\* No ticket is from the future, by its key or by its expiry.
Dated == \A t \in issued : /\ t.key \in 1..key
                           /\ t.exp <= now.s + MaxIssueTTL

\* The last rotation is past, and a sweep under way read the clock at most Lag
\* ago.
Clocks == /\ AtLeast(now, rotated)
          /\ sweeping # Idle => /\ AtLeast(now, sweeping)
                                /\ AtLeast(Plus(sweeping, Lag), now)

\* The previous key, while there is one, is kept for a full ticket lifetime
\* and a second after the rotation.  Both are of this process.
Kept == /\ prev < key /\ boot <= key
        /\ prev # NoKey => prev >= boot /\ prevUntil = KeepUntil(rotated)

\* A ticket is signed by the current key; or by the previous one, and then it
\* was issued before the rotation took effect; or it is over, or of an earlier
\* process.
Signed ==
  \A t \in issued :
    \/ t.key = key
    \/ t.key = prev /\ t.exp <= rotated.s + Lag + MaxIssueTTL
    \/ now.s + Lag > t.exp
    \/ t.key < boot

\* A string that was accepted is remembered until its ticket is over, or the
\* process that signed it.
Remembered ==
  \A e \in accepted :
    /\ e.ticket \in issued
    /\ e \in used \/ Over(e.ticket.exp, now) \/ e.ticket.key < boot

IInv == TypeOK /\ Dated /\ Clocks /\ Kept /\ Signed /\ Remembered /\ SpentAsSpelled

-----------------------------------------------------------------------------
LEMMA GrantedRange ==
  ASSUME NEW ttl \in TTLs
  PROVE  Granted(ttl) \in 1..MaxIssueTTL
  BY TTLAssumption DEF Granted

LEMMA SuccessorLater ==
  ASSUME NEW t \in Instant
  PROVE  /\ Successor(t) \in Instant
         /\ AtLeast(Successor(t), t)
         /\ Successor(t).s >= t.s
<1>1. t.s \in Nat /\ t.f \in 0..Frac /\ t = [s |-> t.s, f |-> t.f]
  BY DEF Instant
<1>2. CASE t.f < Frac
  <2>1. Successor(t) = [s |-> t.s, f |-> t.f + 1]
    BY <1>2 DEF Successor
  <2>2. t.f + 1 \in 0..Frac
    BY <1>1, <1>2, ClockAssumption
  <2> QED BY <1>1, <2>1, <2>2 DEF Instant, AtLeast
<1>3. CASE ~(t.f < Frac)
  <2>1. Successor(t) = [s |-> t.s + 1, f |-> 0]
    BY <1>3 DEF Successor
  <2> QED BY <1>1, <2>1, ClockAssumption DEF Instant, AtLeast
<1> QED BY <1>2, <1>3

LEMMA AtLeastTransitive ==
  ASSUME NEW a \in Instant, NEW b \in Instant, NEW c \in Instant,
         AtLeast(a, b), AtLeast(b, c)
  PROVE  AtLeast(a, c)
  BY ClockAssumption DEF AtLeast, Instant

LEMMA Initially == Init => IInv
<1> SUFFICES ASSUME Init PROVE IInv
  OBVIOUS
<1>1. [s |-> 0, f |-> 0] \in Instant
  BY ClockAssumption DEF Instant
<1>2. TypeOK
  BY <1>1 DEF Init, TypeOK, NoKey
<1>3. Clocks /\ Kept
  BY <1>1 DEF Init, Clocks, Kept, AtLeast, NoKey
<1>4. Dated /\ Signed /\ Remembered /\ SpentAsSpelled
  BY DEF Init, Dated, Signed, Remembered, SpentAsSpelled
<1> QED BY <1>2, <1>3, <1>4 DEF IInv

LEMMA IssueKeeps ==
  ASSUME IInv, NEW sid \in SID, NEW role \in Role, NEW ttl \in TTLs,
         Issue(sid, role, ttl)
  PROVE  IInv'
<1> DEFINE t == [sid |-> sid, role |-> role,
                 exp |-> now.s + Granted(ttl), key |-> key]
<1>1. /\ issued' = issued \cup {t}
      /\ UNCHANGED <<now, key, boot, prev, prevUntil, rotated, used, sweeping,
                     accepted, reused>>
  BY DEF Issue, keys
<1>2. /\ now.s \in Nat /\ key \in Nat \ {0}
      /\ Granted(ttl) \in 1..MaxIssueTTL
  BY GrantedRange DEF IInv, TypeOK, Instant, NoKey
<1>3. t \in Ticket /\ t.key = key /\ t.exp <= now.s + MaxIssueTTL
  BY <1>2, TTLAssumption DEF Ticket
<1> HIDE DEF t
<1>4. TypeOK'
  BY <1>1, <1>3 DEF IInv, TypeOK
<1>5. Dated' /\ Signed'
  BY <1>1, <1>2, <1>3 DEF IInv, Dated, Signed
<1>6. Clocks' /\ Kept' /\ Remembered' /\ SpentAsSpelled'
  BY <1>1 DEF IInv, Clocks, Kept, Remembered, SpentAsSpelled
<1> QED BY <1>4, <1>5, <1>6 DEF IInv

LEMMA VerifyKeeps ==
  ASSUME IInv, NEW t \in issued, NEW s \in Spelling,
         Verify([ticket |-> t, spelling |-> s])
  PROVE  IInv'
<1>1. PICK e \in Encoded : e.ticket = t /\ Verify(e)
  BY DEF IInv, TypeOK, Encoded
<1>2. /\ used' = used \cup {e} /\ accepted' = accepted \cup {e}
      /\ reused' = reused \cup (accepted \cap {e})
      /\ UNCHANGED <<now, key, boot, prev, prevUntil, rotated, sweeping, issued>>
      /\ e \notin used /\ ~Over(t.exp, now)
  BY <1>1 DEF Verify, Genuine, keys
<1>3. e \notin accepted
  <2>1. t.key \in {key, prev} /\ t.key \in 1..key
    BY <1>1 DEF Verify, Genuine, IInv, Dated
  <2>2. ~(t.key < boot)
    BY <2>1 DEF IInv, TypeOK, Kept, NoKey
  <2> QED BY <1>1, <1>2, <2>2 DEF IInv, Remembered
<1>4. TypeOK'
  BY <1>1, <1>2, <1>3 DEF IInv, TypeOK
<1>5. Remembered' /\ SpentAsSpelled'
  BY <1>1, <1>2, <1>3 DEF IInv, Remembered, SpentAsSpelled
<1>6. Dated' /\ Signed' /\ Clocks' /\ Kept'
  BY <1>2 DEF IInv, Dated, Signed, Clocks, Kept
<1> QED BY <1>4, <1>5, <1>6 DEF IInv

LEMMA SweepOnceKeeps ==
  ASSUME IInv, SweepOnce
  PROVE  IInv'
<1>1. /\ sweeping' = now
      /\ UNCHANGED <<now, key, boot, prev, prevUntil, rotated, used, issued,
                     accepted, reused>>
  BY DEF SweepOnce, keys
<1>2. now \in Instant
  BY DEF IInv, TypeOK
<1>3. AtLeast(now, now) /\ AtLeast(Plus(now, Lag), now)
  BY <1>2, ClockAssumption DEF AtLeast, Plus, Instant
<1>4. Clocks'
  BY <1>1, <1>3 DEF IInv, Clocks
<1>5. TypeOK'
  BY <1>1, <1>2 DEF IInv, TypeOK
<1>6. Dated' /\ Signed'
  BY <1>1 DEF IInv, Dated, Signed
<1>7. Kept' /\ Remembered' /\ SpentAsSpelled'
  BY <1>1 DEF IInv, Kept, Remembered, SpentAsSpelled
<1> QED BY <1>4, <1>5, <1>6, <1>7 DEF IInv

LEMMA RotateFacts ==
  ASSUME IInv, sweeping # Idle, Rotate
  PROVE  /\ \A t \in issued : t.key # key => now.s + Lag > t.exp \/ t.key < boot
         /\ \A t \in issued : t.exp <= sweeping.s + Lag + MaxIssueTTL
         /\ sweeping \in Instant
         /\ AtLeast(now, sweeping)
<1>1. /\ sweeping \in Instant /\ now \in Instant /\ rotated \in Instant
      /\ AtLeast(now, sweeping) /\ AtLeast(Plus(sweeping, Lag), now)
  BY DEF IInv, TypeOK, Clocks
<1>2. now.s >= sweeping.s /\ now.s <= sweeping.s + Lag
  BY <1>1, ClockAssumption DEF AtLeast, Plus, Instant
<1>3. sweeping.s >= rotated.s + RotateEvery
  BY <1>1, RotateAssumption DEF Rotate, RotationDue, AtLeast, Plus, Instant
<1>4. /\ sweeping.s \in Nat /\ now.s \in Nat /\ rotated.s \in Nat
      /\ Lag \in Nat /\ MaxIssueTTL \in Nat /\ RotateEvery \in Nat
      /\ RotateEvery > MaxIssueTTL
  BY <1>1, ClockAssumption, TTLAssumption, RotateAssumption DEF Instant
<1>5. \A t \in issued : t.exp \in Nat
  BY DEF IInv, TypeOK, Ticket
<1>6. \A t \in issued : t.key # key => now.s + Lag > t.exp \/ t.key < boot
  BY <1>2, <1>3, <1>4, <1>5 DEF IInv, Signed
<1>7. \A t \in issued : t.exp <= sweeping.s + Lag + MaxIssueTTL
  BY <1>2, <1>4, <1>5 DEF IInv, Dated
<1> QED BY <1>1, <1>6, <1>7

LEMMA KeepFacts ==
  ASSUME IInv, sweeping # Idle, KeepKey, prev' # prev
  PROVE  \A t \in issued : t.key = prev => now.s + Lag > t.exp
<1>1. /\ prev # NoKey /\ AtLeast(sweeping, prevUntil)
      /\ prev >= boot /\ prevUntil = KeepUntil(rotated)
  BY DEF KeepKey, IInv, Kept
<1>2. /\ sweeping \in Instant /\ now \in Instant /\ rotated \in Instant
      /\ AtLeast(now, sweeping)
  BY DEF IInv, TypeOK, Clocks
<1>3. /\ sweeping.s \in Nat /\ now.s \in Nat /\ rotated.s \in Nat
      /\ Lag \in Nat /\ MaxIssueTTL \in Nat
  BY <1>2, ClockAssumption, TTLAssumption DEF Instant
<1>4. sweeping.s >= rotated.s + MaxIssueTTL + 1
  BY <1>1, <1>2, <1>3 DEF KeepUntil, Plus, AtLeast
<1>5. now.s >= sweeping.s
  BY <1>2, <1>3 DEF AtLeast
<1>6. ASSUME NEW t \in issued, t.key = prev
      PROVE  now.s + Lag > t.exp
  <2>1. t.exp \in Nat
    BY <1>6 DEF IInv, TypeOK, Ticket
  <2>2. prev # key /\ ~(t.key < boot)
    BY <1>1, <1>6 DEF IInv, Kept, TypeOK
  <2> QED BY <1>3, <1>4, <1>5, <1>6, <2>1, <2>2 DEF IInv, Signed
<1> QED BY <1>6

LEMMA SweepKeeps ==
  ASSUME IInv, Sweep
  PROVE  IInv'
<1>1. /\ sweeping # Idle /\ sweeping' = Idle
      /\ used' = {e \in used : ~Over(e.ticket.exp, sweeping)}
      /\ UNCHANGED <<now, issued, accepted, reused>>
  BY DEF Sweep
<1>2. Remembered' /\ SpentAsSpelled'
  <2>1. now.s >= sweeping.s /\ now.s \in Nat /\ sweeping.s \in Nat
    BY <1>1 DEF IInv, TypeOK, Clocks, AtLeast, Instant
  <2>2. \A e \in used : e.ticket.exp \in Nat
    BY DEF IInv, TypeOK, Encoded, Ticket
  <2>3. \A e \in used : Over(e.ticket.exp, sweeping) => Over(e.ticket.exp, now)
    BY <2>1, <2>2 DEF Over
  <2>4. boot' = boot
    BY DEF Sweep, Rotate, KeepKey
  <2> QED BY <1>1, <2>3, <2>4 DEF IInv, Remembered, SpentAsSpelled
<1>3. used' \in SUBSET Encoded /\ sweeping' \in Instant \cup {Idle}
  BY <1>1 DEF IInv, TypeOK
<1>4. CASE Rotate
  <2>1. /\ key' = key + 1 /\ boot' = boot /\ prev' = key /\ rotated' = sweeping
        /\ prevUntil' = KeepUntil(sweeping)
    BY <1>4 DEF Rotate
  <2>2. key \in Nat /\ key # 0 /\ boot \in Nat /\ boot <= key /\ prev \in Nat
    BY DEF IInv, TypeOK, Kept, NoKey
  <2>3. KeepUntil(sweeping) \in Instant
    BY <1>1, <1>4, RotateFacts, TTLAssumption DEF KeepUntil, Plus, Instant
  <2>4. TypeOK'
    BY <1>1, <1>3, <1>4, <2>1, <2>2, <2>3, RotateFacts DEF IInv, TypeOK, NoKey
  <2>5. Dated'
    BY <1>1, <2>1, <2>2 DEF IInv, Dated
  <2>6. Clocks'
    BY <1>1, <1>4, <2>1, RotateFacts DEF Clocks
  <2>7. Kept'
    BY <2>1, <2>2 DEF Kept
  <2>8. Signed'
    BY <1>1, <1>4, <2>1, RotateFacts DEF Signed
  <2> QED BY <1>2, <2>4, <2>5, <2>6, <2>7, <2>8 DEF IInv
<1>5. CASE KeepKey
  <2>1. /\ key' = key /\ boot' = boot /\ rotated' = rotated
        /\ \/ prev' = NoKey /\ prevUntil' = [s |-> 0, f |-> 0]
           \/ prev' = prev /\ prevUntil' = prevUntil
    BY <1>5 DEF KeepKey
  <2>2. [s |-> 0, f |-> 0] \in Instant
    BY ClockAssumption DEF Instant
  <2>3. TypeOK'
    BY <1>1, <1>3, <2>1, <2>2 DEF IInv, TypeOK, NoKey
  <2>4. Dated'
    BY <1>1, <2>1 DEF IInv, Dated
  <2>5. Clocks'
    BY <1>1, <2>1 DEF IInv, Clocks
  <2>6. Kept'
    BY <2>1 DEF IInv, TypeOK, Kept, NoKey
  <2>7. Signed'
    <3>1. CASE prev' = prev
      BY <1>1, <2>1, <3>1 DEF IInv, Signed
    <3>2. CASE prev' # prev
      BY <1>1, <1>5, <2>1, <3>2, KeepFacts DEF IInv, Signed
    <3> QED BY <3>1, <3>2
  <2> QED BY <1>2, <2>3, <2>4, <2>5, <2>6, <2>7 DEF IInv
<1> QED BY <1>4, <1>5 DEF Sweep

LEMMA TickKeeps ==
  ASSUME IInv, Tick
  PROVE  IInv'
<1>1. /\ now' = Successor(now)
      /\ sweeping # Idle => AtLeast(Plus(sweeping, Lag), Successor(now))
      /\ UNCHANGED <<key, boot, prev, prevUntil, rotated, used, sweeping, issued,
                     accepted, reused>>
  BY DEF Tick, keys
<1>2. now \in Instant /\ rotated \in Instant
  BY DEF IInv, TypeOK
<1>3. /\ now' \in Instant /\ AtLeast(now', now) /\ now'.s >= now.s
      /\ now.s \in Nat /\ now'.s \in Nat
  BY <1>1, <1>2, SuccessorLater DEF Instant
<1>4. \A t \in Ticket : t.exp \in Nat
  BY DEF Ticket
<1>5. TypeOK'
  BY <1>1, <1>3 DEF IInv, TypeOK
<1>6. Dated' /\ Signed'
  BY <1>1, <1>3, <1>4, ClockAssumption, TTLAssumption
     DEF IInv, TypeOK, Dated, Signed
<1>7. AtLeast(now', rotated)
  BY <1>2, <1>3, AtLeastTransitive DEF IInv, Clocks
<1>8. ASSUME sweeping # Idle
      PROVE  AtLeast(now', sweeping)
  BY <1>2, <1>3, <1>8, AtLeastTransitive DEF IInv, TypeOK, Clocks
<1>9. Clocks'
  BY <1>1, <1>7, <1>8 DEF Clocks
<1>10. Kept' /\ SpentAsSpelled'
  BY <1>1 DEF IInv, Kept, SpentAsSpelled
<1>11. Remembered'
  BY <1>1, <1>3, <1>4 DEF IInv, TypeOK, Remembered, Encoded, Over
<1> QED BY <1>5, <1>6, <1>9, <1>10, <1>11 DEF IInv

LEMMA RestartKeeps ==
  ASSUME IInv, Restart
  PROVE  IInv'
<1>1. /\ key' = key + 1 /\ boot' = key + 1 /\ prev' = NoKey
      /\ prevUntil' = [s |-> 0, f |-> 0] /\ rotated' = now
      /\ used' = {} /\ sweeping' = Idle
      /\ UNCHANGED <<now, issued, accepted, reused>>
  BY DEF Restart
<1>2. key \in Nat \ {0} /\ now \in Instant /\ [s |-> 0, f |-> 0] \in Instant
  BY ClockAssumption DEF IInv, TypeOK, Instant, NoKey
<1>3. TypeOK'
  BY <1>1, <1>2 DEF IInv, TypeOK, NoKey
<1>4. \A t \in issued : t.key \in 1..key /\ t.key < boot'
  BY <1>1, <1>2 DEF IInv, Dated
<1>5. Dated' /\ Signed'
  BY <1>1, <1>2, <1>4 DEF IInv, Dated, Signed
<1>6. Clocks' /\ Kept'
  BY <1>1, <1>2, ClockAssumption DEF Clocks, Kept, AtLeast, Instant, NoKey
<1>7. Remembered' /\ SpentAsSpelled'
  BY <1>1, <1>4 DEF IInv, Remembered, SpentAsSpelled
<1> QED BY <1>3, <1>5, <1>6, <1>7 DEF IInv

LEMMA StepKeeps == IInv /\ [Next]_vars => IInv'
<1> SUFFICES ASSUME IInv, [Next]_vars PROVE IInv'
  OBVIOUS
<1>1. CASE UNCHANGED vars
  <2>1. UNCHANGED <<now, key, boot, prev, prevUntil, rotated, used, sweeping, issued,
                    accepted, reused>>
    BY <1>1 DEF vars, keys
  <2>2. TypeOK' /\ Clocks' /\ Kept'
    BY <2>1 DEF IInv, TypeOK, Clocks, Kept
  <2>3. Dated' /\ Signed' /\ Remembered' /\ SpentAsSpelled'
    BY <2>1 DEF IInv, Dated, Signed, Remembered, SpentAsSpelled
  <2> QED BY <2>2, <2>3 DEF IInv
<1> QED BY <1>1, IssueKeeps, VerifyKeeps, SweepOnceKeeps, SweepKeeps, TickKeeps,
           RestartKeeps
        DEF Next

LEMMA Invariance == Spec => []IInv
  BY Initially, StepKeeps, PTL DEF Spec

\* The manager's state is well typed: keys are numbered from one, instants have
\* a fraction below a second, and the used map holds spellings of tickets.
THEOREM TypeCorrect == Spec => []TypeOK
<1>1. IInv => TypeOK
  BY DEF IInv
<1> QED BY Invariance, <1>1, PTL

\* Verify (ticket.go:97-129) accepts a string at most once, for every lifetime,
\* rotation period and delay of the sweep that forgets what was spent.  A ticket is
\* accepted once in each of its spellings.
THEOREM StringsSpentOnce == Spec => []SpentAsSpelled
<1>1. IInv => SpentAsSpelled
  BY DEF IInv
<1> QED BY Invariance, <1>1, PTL

\* Key rotation (ticket.go:68-80) never invalidates a ticket in flight, if a
\* sweep is at most Lag late and the ticket has Lag to go: with prompt sweeps,
\* never at all.
THEOREM LiveTicketsAlwaysVerify == Spec => []LiveTicketsVerify
<1>1. IInv => LiveTicketsVerify
  <2> SUFFICES ASSUME IInv, NEW t \in issued,
                      t.key >= boot, now.s + Lag <= t.exp
               PROVE  t.key \in {key, prev}
    BY DEF LiveTicketsVerify
  <2>1. now.s \in Nat /\ t.exp \in Nat /\ Lag \in Nat
    BY ClockAssumption DEF IInv, TypeOK, Instant, Ticket
  <2>2. ~(t.key < boot)
    BY DEF IInv, TypeOK, Dated
  <2> QED BY <2>1, <2>2 DEF IInv, Signed
<1> QED BY Invariance, <1>1, PTL
=============================================================================
