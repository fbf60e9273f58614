---------------------------- MODULE BanbookProofs ----------------------------
(***************************************************************************)
(* Proofs about the book of bans: its entries are well formed and no more  *)
(* than it has room for, its gauge covers the bans that run, a soft strike *)
(* never bans for long, and a ban that runs is not lost or shortened.      *)
(* The keys may be infinitely many.                                        *)
(***************************************************************************)
EXTENDS Banbook, FiniteSetTheorems, TLAPS

\* The book never has infinitely many entries: Cardinality means something.
FiniteBook == IsFiniteSet(DOMAIN entries)

\* What the steps preserve together.  GaugeCovers is what keeps the gauge from
\* going below zero, so it is part of TypeOK's own proof.
IInv == TypeOK /\ FiniteBook /\ GaugeCovers /\ SoftBansCapped

-----------------------------------------------------------------------------
\* No rung of a ladder is longer than its last, and none of the soft ladder's is
\* longer than the last of the other.
LEMMA Rungs ==
  /\ \A n \in 1..Len(Ladder) : Ladder[n] \in 1..Top(Ladder)
  /\ \A n \in 1..Len(SoftLadder) : SoftLadder[n] \in 1..Top(SoftLadder)
  /\ Len(Ladder) \in Nat \ {0} /\ Len(SoftLadder) \in Nat \ {0}
  /\ Top(Ladder) \in Nat \ {0} /\ Top(SoftLadder) \in 1..Top(Ladder)
<1>1. ASSUME NEW L \in Seq(Nat \ {0}), Len(L) > 0, Rising(L)
      PROVE  /\ Len(L) \in Nat \ {0}
             /\ \A n \in 1..Len(L) : L[n] \in 1..Top(L)
  <2>1. /\ Len(L) \in Nat \ {0} /\ DOMAIN L = 1..Len(L)
        /\ \A n \in 1..Len(L) : L[n] \in Nat \ {0}
    BY <1>1
  <2>2. ASSUME NEW n \in 1..Len(L) PROVE L[n] <= L[Len(L)]
    BY <1>1, <2>1 DEF Rising
  <2> QED BY <2>1, <2>2 DEF Top
<1>2. /\ Ladder \in Seq(Nat \ {0}) /\ SoftLadder \in Seq(Nat \ {0})
      /\ Len(Ladder) > 0 /\ Len(SoftLadder) > 0
      /\ Rising(Ladder) /\ Rising(SoftLadder)
      /\ Top(SoftLadder) <= Top(Ladder)
  BY LadderAssumption
<1>3. /\ Len(Ladder) \in Nat \ {0}
      /\ \A n \in 1..Len(Ladder) : Ladder[n] \in 1..Top(Ladder)
  BY <1>1, <1>2
<1>4. /\ Len(SoftLadder) \in Nat \ {0}
      /\ \A n \in 1..Len(SoftLadder) : SoftLadder[n] \in 1..Top(SoftLadder)
  BY <1>1, <1>2
<1>5. Top(Ladder) \in Nat \ {0} /\ Top(SoftLadder) \in Nat \ {0}
  BY <1>2, <1>3, <1>4 DEF Top
<1> QED BY <1>2, <1>3, <1>4, <1>5

\* The parameters are what the arithmetic below takes them for.
LEMMA Bounds == /\ Decay \in Nat /\ MaxKeys \in Nat /\ Lag \in Nat /\ MaxActive \in Nat
                /\ OldAge \in Nat \ {0}
  BY BoundAssumption DEF OldAge

\* What a strike of either kind makes of an entry.
LEMMA StruckEntry ==
  ASSUME NEW e \in Entry, NEW soft \in BOOLEAN
  PROVE  /\ Struck(e, soft) \in Entry
         /\ Banned(Struck(e, soft))
         /\ Struck(e, soft).struck = 0
         /\ Struck(e, soft).until > Top(SoftLadder) => Struck(e, soft).strikes > 0
<1> DEFINE hard == NextRung(e.strikes, Ladder)
           mild == NextRung(e.soft, SoftLadder)
<1>1. e.strikes \in 0..Len(Ladder) /\ e.soft \in 0..Len(SoftLadder)
  BY DEF Entry
<1>2. hard \in 1..Len(Ladder) /\ mild \in 1..Len(SoftLadder)
  BY <1>1, Rungs DEF NextRung
<1>3. /\ Ladder[hard] \in 1..Top(Ladder) /\ SoftLadder[mild] \in 1..Top(SoftLadder)
      /\ Top(Ladder) \in Nat /\ Top(SoftLadder) \in 1..Top(Ladder)
  BY <1>2, Rungs
<1> HIDE DEF hard, mild
<1>4. /\ hard \in 0..Len(Ladder) /\ hard > 0 /\ mild \in 0..Len(SoftLadder)
      /\ Ladder[hard] \in -Lag..Top(Ladder) /\ Ladder[hard] > 0
      /\ SoftLadder[mild] \in -Lag..Top(Ladder) /\ SoftLadder[mild] > 0
      /\ ~ (SoftLadder[mild] > Top(SoftLadder)) /\ 0 \in 0..OldAge
  BY <1>2, <1>3, Rungs, Bounds
<1>5. CASE soft
  <2>1. Struck(e, soft) = [strikes |-> e.strikes, soft |-> mild,
                           until |-> SoftLadder[mild], struck |-> 0, seen |-> 0]
    BY <1>5 DEF Struck, mild
  <2>2. /\ Struck(e, soft).struck = 0 /\ Struck(e, soft).until = SoftLadder[mild]
    BY <2>1
  <2>3. Struck(e, soft) \in Entry
    BY <1>1, <1>4, <2>1 DEF Entry
  <2> QED BY <1>4, <2>2, <2>3, Zenon DEF Banned
<1>6. CASE ~soft
  <2>1. Struck(e, soft) = [strikes |-> hard, soft |-> e.soft,
                           until |-> Ladder[hard], struck |-> 0, seen |-> 0]
    BY <1>6 DEF Struck, hard
  <2>2. /\ Struck(e, soft).struck = 0 /\ Struck(e, soft).until = Ladder[hard]
        /\ Struck(e, soft).strikes = hard
    BY <2>1
  <2>3. Struck(e, soft) \in Entry
    BY <1>1, <1>4, <2>1 DEF Entry
  <2> QED BY <1>4, <2>2, <2>3, Zenon DEF Banned
<1> QED BY <1>5, <1>6

\* The entry a strike works on is well formed, and banned just when its key is.
LEMMA FoundEntry ==
  ASSUME TypeOK, NEW k \in Key
  PROVE  Found(k) \in Entry /\ (Banned(Found(k)) <=> k \in BannedKeys)
<1>1. CASE k \notin DOMAIN entries
  BY <1>1, Bounds, Rungs DEF Found, NewEntry, Entry, Banned, BannedKeys
<1>2. CASE k \in DOMAIN entries
  <2>1. entries[k] \in Entry
    BY <1>2 DEF TypeOK
  <2>2. CASE entries[k].struck > Decay
    <3>1. Found(k) = [strikes |-> 0, soft |-> 0, until |-> entries[k].until,
                      struck |-> entries[k].struck, seen |-> entries[k].seen]
      BY <1>2, <2>1, <2>2 DEF Found, Entry
    <3>2. 0 \in 0..Len(Ladder) /\ 0 \in 0..Len(SoftLadder)
      BY Rungs
    <3>3. Found(k) \in Entry
      BY <2>1, <3>1, <3>2 DEF Entry
    <3>4. Found(k).until = entries[k].until
      BY <3>1
    <3> QED BY <1>2, <3>3, <3>4 DEF Banned, BannedKeys
  <2>3. CASE ~(entries[k].struck > Decay)
    BY <1>2, <2>1, <2>3 DEF Found, Banned, BannedKeys
  <2> QED BY <2>2, <2>3
<1> QED BY <1>1, <1>2

\* Evictions make room for the one entry that follows, and only then.
LEMMA EvictedKeys ==
  ASSUME TypeOK, FiniteBook, NEW k \in Key, NEW gone \in Evicted(k)
  PROVE  /\ gone \subseteq DOMAIN entries /\ k \notin gone
         /\ IsFiniteSet((DOMAIN entries \ gone) \cup {k})
         /\ MaxKeys > 0 => Cardinality((DOMAIN entries \ gone) \cup {k}) <= MaxKeys
<1> DEFINE D == DOMAIN entries
<1>1. IsFiniteSet(D) /\ Cardinality(D) \in Nat /\ MaxKeys \in Nat
  BY FS_CardinalityType, Bounds DEF FiniteBook
<1>2. MaxKeys > 0 => Cardinality(D) <= MaxKeys
  BY DEF TypeOK
<1>3. CASE k \in D
  <2>1. gone = {}
    BY <1>3 DEF Evicted
  <2>2. (D \ gone) \cup {k} = D
    BY <1>3, <2>1
  <2> QED BY <1>1, <1>2, <2>1, <2>2
<1>4. CASE k \notin D /\ ~NoRoom
  <2>1. gone = {} /\ D \ gone = D
    BY <1>4 DEF Evicted
  <2>2. IsFiniteSet(D \cup {k}) /\ Cardinality(D \cup {k}) = Cardinality(D) + 1
    BY <1>1, <1>4, FS_AddElement
  <2> QED BY <1>1, <1>4, <2>1, <2>2 DEF NoRoom
<1>5. CASE k \notin D /\ NoRoom
  <2>1. PICK v \in Victims : gone = {v}
    BY <1>5 DEF Evicted
  <2>2. v \in D
    BY <2>1 DEF Victims
  <2>3. IsFiniteSet(D \ {v}) /\ Cardinality(D \ {v}) = Cardinality(D) - 1
    BY <1>1, <2>2, FS_RemoveElement
  <2>4. /\ IsFiniteSet((D \ {v}) \cup {k})
        /\ Cardinality((D \ {v}) \cup {k}) = Cardinality(D \ {v}) + 1
    BY <1>5, <2>3, FS_AddElement
  <2> QED BY <1>1, <1>2, <1>5, <2>1, <2>2, <2>3, <2>4
<1> QED BY <1>3, <1>4, <1>5

\* Fewer keys or fewer bans: what a smaller set does to the counts.
LEMMA Fewer ==
  ASSUME NEW S, IsFiniteSet(S), NEW T, T \subseteq S
  PROVE  /\ IsFiniteSet(T) /\ Cardinality(T) \in Nat /\ Cardinality(S) \in Nat
         /\ Cardinality(T) <= Cardinality(S)
  BY FS_Subset, FS_CardinalityType

-----------------------------------------------------------------------------
\* The empty book satisfies the invariant.
LEMMA InitInv == Init => IInv
<1> SUFFICES ASSUME Init PROVE IInv
  OBVIOUS
<1>1. entries = [k \in {} |-> 0] /\ bansActive = 0
  BY DEF Init
<1>2. DOMAIN entries = {} /\ BannedKeys = {}
  BY <1>1 DEF BannedKeys
<1> QED
  BY <1>1, <1>2, FS_EmptySet, Bounds DEF IInv, TypeOK, FiniteBook, GaugeCovers, SoftBansCapped

\* An entry that is seen keeps its ban, and everything but the time it was seen.
LEMMA SawKeeps ==
  ASSUME IInv, NEW k \in DOMAIN entries, Saw(k), UNCHANGED bansActive
  PROVE  /\ IInv'
         /\ DOMAIN entries' = DOMAIN entries
         /\ \A j \in DOMAIN entries : entries'[j].until = entries[j].until
<1> USE DEF IInv
<1>1. /\ DOMAIN entries' = DOMAIN entries
      /\ \A j \in DOMAIN entries :
           entries'[j] = IF j = k THEN [entries[j] EXCEPT !.seen = 0] ELSE entries[j]
  BY DEF Saw
<1>2. \A j \in DOMAIN entries : entries[j] \in Entry
  BY DEF TypeOK
<1>3. \A j \in DOMAIN entries :
        /\ entries'[j] \in Entry
        /\ entries'[j].until = entries[j].until
        /\ entries'[j].strikes = entries[j].strikes
  <2> SUFFICES ASSUME NEW j \in DOMAIN entries
               PROVE  /\ entries'[j] \in Entry
                      /\ entries'[j].until = entries[j].until
                      /\ entries'[j].strikes = entries[j].strikes
    OBVIOUS
  <2>1. CASE j = k
    <3>1. entries'[j] = [strikes |-> entries[j].strikes, soft |-> entries[j].soft,
                         until |-> entries[j].until, struck |-> entries[j].struck,
                         seen |-> 0]
      BY <1>1, <1>2, <2>1 DEF Entry
    <3>2. 0 \in 0..OldAge
      BY Bounds
    <3> QED BY <1>2, <3>1, <3>2 DEF Entry
  <2>2. CASE j # k
    BY <1>1, <1>2, <2>2
  <2> QED BY <2>1, <2>2
<1>4. BannedKeys' = BannedKeys
  BY <1>1, <1>3 DEF BannedKeys, Banned
<1>5. TypeOK'
  BY <1>1, <1>3 DEF TypeOK
<1>6. FiniteBook' /\ GaugeCovers'
  BY <1>1, <1>4 DEF FiniteBook, GaugeCovers
<1>7. SoftBansCapped'
  BY <1>1, <1>3 DEF SoftBansCapped
<1>8. IInv'
  BY <1>5, <1>6, <1>7
<1> QED BY <1>1, <1>3, <1>8

\* A strike of either kind, whatever it finds and evicts.
LEMMA StrikeKeeps ==
  ASSUME IInv, NEW k \in Key, NEW soft \in BOOLEAN, StrikeAs(k, soft)
  PROVE  IInv'
<1> USE DEF IInv
<1> DEFINE e == Found(k)
<1>1. PICK gone \in Evicted(k) :
        /\ entries' = [j \in (DOMAIN entries \ gone) \cup {k} |->
                         IF j = k THEN Struck(e, soft) ELSE entries[j]]
        /\ bansActive' = GaugeAfter(gone, e)
  BY DEF StrikeAs
<1>2. e \in Entry /\ (Banned(e) <=> k \in BannedKeys)
  BY FoundEntry
<1>3. /\ Struck(e, soft) \in Entry /\ Banned(Struck(e, soft))
      /\ Struck(e, soft).until > Top(SoftLadder) => Struck(e, soft).strikes > 0
  BY <1>2, StruckEntry
<1>4. /\ gone \subseteq DOMAIN entries /\ k \notin gone
      /\ IsFiniteSet((DOMAIN entries \ gone) \cup {k})
      /\ MaxKeys > 0 => Cardinality((DOMAIN entries \ gone) \cup {k}) <= MaxKeys
  BY EvictedKeys
<1> HIDE DEF e
<1>5. /\ DOMAIN entries' = (DOMAIN entries \ gone) \cup {k}
      /\ entries'[k] = Struck(e, soft)
      /\ \A j \in DOMAIN entries' : j # k => j \in DOMAIN entries /\ entries'[j] = entries[j]
  BY <1>1
<1>6. FiniteBook'
  BY <1>4, <1>5 DEF FiniteBook
<1>7. SoftBansCapped'
  BY <1>3, <1>5 DEF SoftBansCapped
<1>8. BannedKeys' = (BannedKeys \ gone) \cup {k}
  BY <1>3, <1>4, <1>5 DEF BannedKeys
<1>9. bansActive' \in Nat /\ bansActive' >= Cardinality(BannedKeys')
  <2>1. IsFiniteSet(BannedKeys) /\ Cardinality(BannedKeys) \in Nat
    <3>1. BannedKeys \subseteq DOMAIN entries
      BY DEF BannedKeys
    <3> QED BY <3>1, Fewer DEF FiniteBook
  <2>2. /\ IsFiniteSet(BannedKeys \ gone)
        /\ Cardinality(BannedKeys \ gone)
             = Cardinality(BannedKeys) - Cardinality(BannedKeys \cap gone)
    BY <2>1, FS_Difference
  <2>3. Cardinality(BannedKeys \ gone) \in Nat /\ Cardinality(BannedKeys \cap gone) \in Nat
    <3>1. BannedKeys \ gone \subseteq BannedKeys /\ BannedKeys \cap gone \subseteq BannedKeys
      OBVIOUS
    <3> QED BY <2>1, <3>1, Fewer
  <2>4. Cardinality(BannedKeys')
          = Cardinality(BannedKeys \ gone) + (IF k \in BannedKeys THEN 0 ELSE 1)
    <3>1. k \in BannedKeys <=> k \in BannedKeys \ gone
      BY <1>4
    <3>2. Cardinality((BannedKeys \ gone) \cup {k})
            = IF k \in BannedKeys \ gone THEN Cardinality(BannedKeys \ gone)
                                         ELSE Cardinality(BannedKeys \ gone) + 1
      BY <2>2, FS_AddElement
    <3> QED BY <1>8, <2>3, <3>1, <3>2
  <2>5. bansActive' = bansActive - Cardinality(BannedKeys \cap gone)
                        + (IF k \in BannedKeys THEN 0 ELSE 1)
    <3>1. gone \cap BannedKeys = BannedKeys \cap gone
      OBVIOUS
    <3> QED BY <1>1, <1>2, <3>1 DEF GaugeAfter
  <2>6. bansActive \in Nat /\ bansActive >= Cardinality(BannedKeys)
    BY DEF TypeOK, GaugeCovers
  <2> QED BY <2>1, <2>2, <2>3, <2>4, <2>5, <2>6
<1>10. TypeOK'
  BY <1>3, <1>4, <1>5, <1>9 DEF TypeOK
<1> QED BY <1>6, <1>7, <1>9, <1>10 DEF GaugeCovers

\* A sweep that acts on an old time drops no entry whose ban runs, and counts
\* no fewer bans than there are.
LEMMA SweepKeeps ==
  ASSUME IInv, NEW lag \in 0..Lag, Sweep(lag)
  PROVE  IInv'
<1> USE DEF IInv
<1> DEFINE counted == {k \in DOMAIN entries : entries[k].until > -lag}
<1>1. /\ DOMAIN entries' \subseteq DOMAIN entries
      /\ \A k \in DOMAIN entries' : entries'[k] = entries[k]
      /\ bansActive' = Cardinality(counted)
  BY DEF Sweep, Without
<1>2. /\ FiniteBook'
      /\ Cardinality(DOMAIN entries') <= Cardinality(DOMAIN entries)
      /\ Cardinality(DOMAIN entries') \in Nat /\ Cardinality(DOMAIN entries) \in Nat
  BY <1>1, Fewer DEF FiniteBook
<1>3. IsFiniteSet(counted) /\ Cardinality(counted) \in Nat
  <2>1. counted \subseteq DOMAIN entries
    OBVIOUS
  <2> QED BY <2>1, Fewer DEF FiniteBook
<1>4. Cardinality(BannedKeys') <= Cardinality(counted)
  <2>1. \A k \in DOMAIN entries : entries[k].until \in Int
    BY Bounds, Rungs DEF TypeOK, Entry
  <2>2. BannedKeys' \subseteq counted
    BY <1>1, <2>1, Bounds DEF BannedKeys, Banned
  <2> HIDE DEF counted
  <2> QED BY <1>3, <2>2, Fewer
<1> HIDE DEF counted
<1>5. TypeOK'
  BY <1>1, <1>2, <1>3, Bounds DEF TypeOK
<1>6. GaugeCovers'
  BY <1>1, <1>4 DEF GaugeCovers
<1>7. SoftBansCapped'
  BY <1>1 DEF SoftBansCapped
<1> QED BY <1>2, <1>5, <1>6, <1>7

\* What the passing of time does to one entry.
LEMMA OlderEntry ==
  ASSUME IInv, Tick, NEW k \in DOMAIN entries
  PROVE  /\ entries[k] \in Entry /\ entries'[k] \in Entry
         /\ entries'[k].strikes = entries[k].strikes
         /\ entries'[k].until
              = IF entries[k].until > -Lag THEN entries[k].until - 1 ELSE entries[k].until
<1>1. entries[k] \in Entry
  BY DEF IInv, TypeOK
<1>2. entries'[k] = [entries[k] EXCEPT !.until = IF @ > -Lag THEN @ - 1 ELSE @,
                                       !.struck = Older(@), !.seen = Older(@)]
  BY DEF Tick
<1>3. ASSUME NEW t \in 0..OldAge PROVE Older(t) \in 0..OldAge
  BY Bounds DEF Older
<1>4. /\ entries[k].strikes \in 0..Len(Ladder) /\ entries[k].soft \in 0..Len(SoftLadder)
      /\ entries[k].until \in -Lag..Top(Ladder)
      /\ entries[k].struck \in 0..OldAge /\ entries[k].seen \in 0..OldAge
  BY <1>1 DEF Entry
<1>5. /\ entries'[k] = [strikes |-> entries[k].strikes, soft |-> entries[k].soft,
                        until |-> IF entries[k].until > -Lag THEN entries[k].until - 1
                                                            ELSE entries[k].until,
                        struck |-> Older(entries[k].struck),
                        seen |-> Older(entries[k].seen)]
  BY <1>1, <1>2 DEF Entry
<1>6. (IF entries[k].until > -Lag THEN entries[k].until - 1 ELSE entries[k].until)
         \in -Lag..Top(Ladder)
  BY <1>4, Bounds, Rungs
<1>7. Older(entries[k].struck) \in 0..OldAge /\ Older(entries[k].seen) \in 0..OldAge
  BY <1>3, <1>4
<1> QED BY <1>1, <1>4, <1>5, <1>6, <1>7 DEF Entry

\* Time starts no ban and forgets no strike.
LEMMA TickKeeps ==
  ASSUME IInv, Tick
  PROVE  IInv'
<1> USE DEF IInv
<1>1. DOMAIN entries' = DOMAIN entries /\ bansActive' = bansActive
  BY DEF Tick
<1>2. \A k \in DOMAIN entries :
        /\ entries[k] \in Entry /\ entries'[k] \in Entry
        /\ entries'[k].strikes = entries[k].strikes
        /\ entries'[k].until
             = IF entries[k].until > -Lag THEN entries[k].until - 1 ELSE entries[k].until
  BY OlderEntry
<1>3. \A k \in DOMAIN entries : /\ entries[k].until \in Int
                                /\ entries'[k].until \in Int
                                /\ entries'[k].until <= entries[k].until
  BY <1>2, Bounds, Rungs DEF Entry
<1>4. BannedKeys' \subseteq BannedKeys
  BY <1>1, <1>3 DEF BannedKeys, Banned
<1>5. GaugeCovers'
  <2>1. BannedKeys \subseteq DOMAIN entries
    BY DEF BannedKeys
  <2>2. IsFiniteSet(BannedKeys)
    BY <2>1, Fewer DEF FiniteBook
  <2>3. /\ Cardinality(BannedKeys') <= Cardinality(BannedKeys)
        /\ Cardinality(BannedKeys') \in Nat /\ Cardinality(BannedKeys) \in Nat
    BY <1>4, <2>2, Fewer
  <2> QED BY <1>1, <2>3 DEF GaugeCovers, TypeOK
<1>6. TypeOK' /\ FiniteBook'
  BY <1>1, <1>2 DEF TypeOK, FiniteBook
<1>7. SoftBansCapped'
  BY <1>1, <1>2, <1>3, Rungs DEF SoftBansCapped
<1> QED BY <1>5, <1>6, <1>7

\* A step that changes neither the book nor the gauge keeps the invariant.
LEMMA UnchangedInv == IInv /\ UNCHANGED vars => IInv'
  BY DEF vars, IInv, TypeOK, FiniteBook, GaugeCovers, SoftBansCapped, BannedKeys

\* Every call of the book, and time, keeps the invariant.
LEMMA NextInv == IInv /\ [Next]_vars => IInv'
<1> SUFFICES ASSUME IInv, [Next]_vars PROVE IInv'
  OBVIOUS
<1>1. ASSUME NEW k \in Key, Blocked(k) PROVE IInv'
  <2>1. CASE k \in DOMAIN entries
    BY <1>1, <2>1, SawKeeps DEF Blocked
  <2>2. CASE k \notin DOMAIN entries
    BY <1>1, <2>2, UnchangedInv DEF Blocked, vars
  <2> QED BY <2>1, <2>2
<1>2. ASSUME NEW k \in Key, NoteRejected(k) PROVE IInv'
  <2>1. CASE IsBlocked(k)
    <3>1. k \in DOMAIN entries
      BY <2>1 DEF IsBlocked, BannedKeys
    <3> QED BY <1>2, <2>1, <3>1, SawKeeps DEF NoteRejected
  <2>2. CASE ~IsBlocked(k)
    BY <1>2, <2>2, UnchangedInv DEF NoteRejected, vars
  <2> QED BY <2>1, <2>2
<1>3. ASSUME NEW k \in Key, Strike(k) \/ SoftStrike(k) PROVE IInv'
  BY <1>3, StrikeKeeps DEF Strike, SoftStrike
<1>4. ASSUME NEW lag \in 0..Lag, Sweep(lag) PROVE IInv'
  BY <1>4, SweepKeeps
<1>5. ASSUME Tick PROVE IInv'
  BY <1>5, TickKeeps
<1>6. ASSUME UNCHANGED vars PROVE IInv'
  BY <1>6, UnchangedInv
<1> QED BY <1>1, <1>2, <1>3, <1>4, <1>5, <1>6 DEF Next

\* The inductive invariant holds in every state the book can be in.
THEOREM Invariant == Spec => []IInv
<1>1. Init => IInv
  BY InitInv
<1>2. IInv /\ [Next]_vars => IInv'
  BY NextInv
<1> QED BY <1>1, <1>2, PTL DEF Spec

\* TypeOK: entries are well formed, their number is within maxKeys whatever was
\* evicted and swept (guard.go:156-180), and the gauge is never below zero.
THEOREM TypeCorrect == Spec => []TypeOK
<1>1. IInv => TypeOK
  BY DEF IInv
<1> QED BY <1>1, Invariant, PTL

\* GaugeCovers: the gauge never shows fewer bans than there are.
THEOREM GaugeAlwaysCovers == Spec => []GaugeCovers
<1>1. IInv => GaugeCovers
  BY DEF IInv
<1> QED BY <1>1, Invariant, PTL

\* SoftBansCapped: no ban is longer than the soft ladder's without a strike.
THEOREM SoftBansAlwaysCapped == Spec => []SoftBansCapped
<1>1. IInv => SoftBansCapped
  BY DEF IInv
<1> QED BY <1>1, Invariant, PTL

-----------------------------------------------------------------------------
\* What a step does to one ban: the body of BansHeld.
Held(k) ==
  IF k \in DOMAIN entries'
    THEN \/ entries'[k].until \in {entries[k].until, entries[k].until - 1}
         \/ entries'[k].struck = 0
    ELSE /\ NoRoom /\ BannedKeys = DOMAIN entries
         /\ \A j \in BannedKeys : entries[k].until <= entries[j].until

\* A banned key goes only when all are banned and no ban ends sooner.
LEMMA BannedVictim ==
  ASSUME IInv, NEW k \in BannedKeys, k \in Victims
  PROVE  /\ BannedKeys = DOMAIN entries
         /\ \A j \in BannedKeys : entries[k].until <= entries[j].until
<1>1. \A j \in DOMAIN entries : entries[j].until \in Int /\ entries[j].seen \in Nat
  BY Bounds, Rungs DEF IInv, TypeOK, Entry
<1>2. k \in DOMAIN entries /\ entries[k].until > 0
  BY DEF BannedKeys, Banned
<1>3. ~Idle(entries[k], 0)
  BY <1>1, <1>2 DEF Idle
<1>4. \A j \in DOMAIN entries : Rank(entries[k]) <= Rank(entries[j])
  BY <1>3 DEF Victims
<1>5. Rank(entries[k]) = entries[k].until
  BY <1>2 DEF Rank, Banned
<1>6. ASSUME NEW j \in DOMAIN entries
      PROVE  entries[j].until > 0 /\ entries[k].until <= entries[j].until
  <2>1. CASE entries[j].until > 0
    BY <1>4, <1>5, <2>1 DEF Rank, Banned
  <2>2. CASE ~(entries[j].until > 0)
    <3>1. Rank(entries[j]) = -entries[j].seen
      BY <2>2 DEF Rank, Banned
    <3> QED BY <1>1, <1>2, <1>4, <1>5, <3>1
  <2> QED BY <2>1, <2>2
<1> QED BY <1>6 DEF BannedKeys, Banned

\* A strike ends or moves no running ban but the one it deals, and the one it evicts
\* from a book full of running bans.
LEMMA StrikeHolds ==
  ASSUME IInv, NEW k \in Key, NEW soft \in BOOLEAN, StrikeAs(k, soft), NEW j \in BannedKeys
  PROVE  Held(j)
<1>1. PICK gone \in Evicted(k) :
        entries' = [i \in (DOMAIN entries \ gone) \cup {k} |->
                      IF i = k THEN Struck(Found(k), soft) ELSE entries[i]]
  BY DEF StrikeAs
<1>2. j \in DOMAIN entries
  BY DEF BannedKeys
<1>3. CASE j = k
  <2>1. Struck(Found(k), soft).struck = 0
    BY FoundEntry, StruckEntry DEF IInv
  <2>2. j \in DOMAIN entries' /\ entries'[j] = Struck(Found(k), soft)
    BY <1>1, <1>3
  <2> QED BY <2>1, <2>2 DEF Held
<1>4. CASE j # k /\ j \notin gone
  BY <1>1, <1>2, <1>4 DEF Held
<1>5. CASE j # k /\ j \in gone
  <2>1. NoRoom /\ gone \in {{v} : v \in Victims}
    BY <1>5 DEF Evicted
  <2>2. j \in Victims
    BY <1>5, <2>1
  <2>3. j \notin DOMAIN entries'
    BY <1>1, <1>5
  <2> QED BY <2>1, <2>2, <2>3, BannedVictim DEF Held
<1> QED BY <1>3, <1>4, <1>5

\* The same for every call of the book, and for time.
LEMMA NextHolds ==
  ASSUME IInv, [Next]_vars, NEW j \in BannedKeys
  PROVE  Held(j)
<1>1. /\ j \in DOMAIN entries /\ entries[j].until > 0
      /\ entries[j].until \in Int
  BY Bounds, Rungs DEF BannedKeys, Banned, IInv, TypeOK, Entry
<1>2. ASSUME UNCHANGED entries PROVE Held(j)
  BY <1>1, <1>2 DEF Held
<1>3. ASSUME NEW k \in DOMAIN entries, Saw(k), UNCHANGED bansActive PROVE Held(j)
  BY <1>1, <1>3, SawKeeps DEF Held
<1>4. ASSUME NEW k \in Key, Blocked(k) \/ NoteRejected(k) PROVE Held(j)
  BY <1>2, <1>3, <1>4 DEF Blocked, NoteRejected, IsBlocked, BannedKeys
<1>5. ASSUME NEW k \in Key, Strike(k) \/ SoftStrike(k) PROVE Held(j)
  BY <1>5, StrikeHolds DEF Strike, SoftStrike
<1>6. ASSUME NEW lag \in 0..Lag, Sweep(lag) PROVE Held(j)
  <2>1. ~Idle(entries[j], lag)
    BY <1>1, Bounds DEF Idle
  <2>2. j \in DOMAIN entries' /\ entries'[j] = entries[j]
    BY <1>1, <1>6, <2>1 DEF Sweep, Without
  <2> QED BY <2>2 DEF Held
<1>7. ASSUME Tick PROVE Held(j)
  <2>1. j \in DOMAIN entries'
    BY <1>1, <1>7 DEF Tick
  <2>2. entries'[j].until = entries[j].until - 1
    BY <1>1, <1>7, Bounds, OlderEntry
  <2> QED BY <2>1, <2>2 DEF Held
<1> QED BY <1>2, <1>4, <1>5, <1>6, <1>7 DEF Next, vars

\* BansHeld: no step loses a ban that runs, or moves its end, but time, its own
\* strikes, and the eviction from a full book of running bans.
THEOREM BansAlwaysHeld == Spec => BansHeld
<1>1. IInv /\ [Next]_vars => [\A k \in BannedKeys : Held(k)]_vars
  BY NextHolds
<1>2. [\A k \in BannedKeys : Held(k)]_vars =>
        [\A k \in BannedKeys :
           IF k \in DOMAIN entries'
             THEN \/ entries'[k].until \in {entries[k].until, entries[k].until - 1}
                  \/ entries'[k].struck = 0
             ELSE /\ NoRoom /\ BannedKeys = DOMAIN entries
                  /\ \A j \in BannedKeys : entries[k].until <= entries[j].until]_vars
  BY DEF Held
<1> QED BY <1>1, <1>2, Invariant, PTL DEF Spec, BansHeld
=============================================================================
