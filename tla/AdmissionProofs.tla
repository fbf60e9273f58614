---------------------------- MODULE AdmissionProofs ----------------------------
(***************************************************************************)
(* Proofs about Admission for any requests, addresses, blocks, ladders and *)
(* limits: its state is well typed, the book of bans is used as Banbook    *)
(* says, and no strike is on record, and no long ban in force, that the    *)
(* faults of a block did not earn.                                         *)
(***************************************************************************)
EXTENDS Admission, Ages, SequenceTheorems, FiniteSetTheorems,
        WellFoundedInduction, TLAPS

BP == INSTANCE BanbookProofs WITH Key <- Block, Lag <- 0

-----------------------------------------------------------------------------
(***************************************************************************)
(* The windows' sequences of hits.                                         *)
(***************************************************************************)
\* Induction over the natural numbers, for a set of them.
LEMMA NatInd ==
  ASSUME NEW T \in SUBSET Nat, 0 \in T, \A n \in T : n + 1 \in T
  PROVE  T = Nat
<1> SUFFICES ASSUME Nat \ T # {} PROVE FALSE
  OBVIOUS
<1>1. PICK x \in Nat \ T : \A y \in Nat \ T : ~(<<y, x>> \in OpToRel(<, Nat))
  BY WFMin, NatLessThanWellFounded, Nat \ T \subseteq Nat
<1>2. \A y \in Nat \ T : ~(y < x)
  BY <1>1 DEF OpToRel
<1>3. x - 1 \in T
  BY <1>2
<1> QED BY <1>3

\* The rounds of the pruning loop up to the n-th, as a function.
Rounds(f, s, t, n) ==
  f = [i \in 0..n |-> IF i = 0 THEN <<>>
                      ELSE IF s[i] < t THEN Append(f[i-1], s[i]) ELSE f[i-1]]

\* The loop has a function of any number of rounds.
LEMMA RoundsExist ==
  ASSUME NEW s, NEW t, NEW m \in Nat
  PROVE  \E f : Rounds(f, s, t, m)
<1> DEFINE N == {n \in Nat : \E f : Rounds(f, s, t, n)}
<1>1. 0 \in N
  <2>1. Rounds([i \in 0..0 |-> <<>>], s, t, 0)
    BY DEF Rounds
  <2> QED BY <2>1
<1>2. ASSUME NEW n \in N PROVE n + 1 \in N
  <2>1. PICK f : Rounds(f, s, t, n)
    OBVIOUS
  <2> DEFINE g == [i \in 0..(n+1) |->
                     IF i <= n THEN f[i]
                     ELSE IF s[i] < t THEN Append(f[i-1], s[i]) ELSE f[i-1]]
  <2>2. ASSUME NEW i \in 0..(n+1)
        PROVE  g[i] = IF i = 0 THEN <<>>
                      ELSE IF s[i] < t THEN Append(g[i-1], s[i]) ELSE g[i-1]
    <3>1. i # 0 => g[i-1] = f[i-1]
      OBVIOUS
    <3>2. CASE i = n + 1
      BY <3>1, <3>2
    <3>3. CASE i # n + 1
      <4>1. i \in 0..n /\ g[i] = f[i]
        BY <3>3
      <4>2. f[i] = IF i = 0 THEN <<>>
                   ELSE IF s[i] < t THEN Append(f[i-1], s[i]) ELSE f[i-1]
        BY <2>1, <4>1 DEF Rounds
      <4> QED BY <3>1, <4>1, <4>2
    <3> QED BY <3>2, <3>3
  <2>3. g = [i \in 0..(n+1) |-> g[i]]
    OBVIOUS
  <2> HIDE DEF g
  <2>4. Rounds(g, s, t, n + 1)
    BY <2>2, <2>3 DEF Rounds
  <2> QED BY <2>4
<1>3. N = Nat
  <2> HIDE DEF N
  <2>1. N \in SUBSET Nat
    BY DEF N
  <2> QED BY <1>1, <1>2, <2>1, NatInd
<1> QED BY <1>3

\* Pruning returns some of the hits, and no more than there were.
LEMMA YoungerType ==
  ASSUME NEW S, NEW s \in Seq(S), NEW t
  PROVE  /\ Younger(s, t) \in Seq(S)
         /\ Len(Younger(s, t)) \in Nat /\ Len(Younger(s, t)) <= Len(s)
<1> DEFINE f == CHOOSE g : Rounds(g, s, t, Len(s))
           N == {n \in Nat : n <= Len(s) => f[n] \in Seq(S) /\ Len(f[n]) <= n}
<1>1. Younger(s, t) = f[Len(s)]
  BY DEF Younger, Rounds
<1>2. Len(s) \in Nat /\ \A i \in 1..Len(s) : s[i] \in S
  BY LenProperties
<1>3. Rounds(f, s, t, Len(s))
  BY <1>2, RoundsExist
<1> HIDE DEF f
<1>4. 0 \in N
  <2>1. f[0] = <<>>
    BY <1>2, <1>3 DEF Rounds
  <2>2. f[0] \in Seq(S) /\ Len(f[0]) = 0
    BY <2>1, EmptySeq
  <2> QED BY <2>2
<1>5. ASSUME NEW n \in N PROVE n + 1 \in N
  <2> SUFFICES ASSUME n + 1 <= Len(s) PROVE f[n+1] \in Seq(S) /\ Len(f[n+1]) <= n + 1
    OBVIOUS
  <2>1. n + 1 \in 0..Len(s) /\ n + 1 # 0 /\ (n + 1) - 1 = n /\ s[n+1] \in S
    BY <1>2
  <2>2. f[n+1] = IF s[n+1] < t THEN Append(f[n], s[n+1]) ELSE f[n]
    BY <1>3, <2>1 DEF Rounds
  <2>3. f[n] \in Seq(S) /\ Len(f[n]) <= n
    BY <1>2
  <2>4. /\ Append(f[n], s[n+1]) \in Seq(S) /\ Len(Append(f[n], s[n+1])) = Len(f[n]) + 1
        /\ Len(f[n]) \in Nat
    BY <2>1, <2>3, AppendProperties, LenProperties
  <2> QED BY <2>2, <2>3, <2>4
<1>6. N = Nat
  <2>1. N \in SUBSET Nat
    OBVIOUS
  <2> HIDE DEF N
  <2> QED BY <1>4, <1>5, <2>1, NatInd
<1>7. f[Len(s)] \in Seq(S) /\ Len(f[Len(s)]) <= Len(s)
  BY <1>2, <1>6
<1> QED BY <1>1, <1>7, LenProperties

-----------------------------------------------------------------------------
(***************************************************************************)
(* The inductive invariant.                                                *)
(***************************************************************************)
\* Requests whose fault goes over the limit, and who have yet to deal the strike.
Pending == {r \in Req : At(r, "strike")}
Striking(b) == {r \in Pending : Of(r) = b}

Strikes(b) == IF b \in DOMAIN entries THEN entries[b].strikes ELSE 0

\* The strikes a block has on record, and those that it is about to have.
Dealt(b) == Strikes(b) + Cardinality(Striking(b))

\* n, as far as the history tells.
Told(n) == IF n < EnoughFaults THEN n ELSE EnoughFaults

\* The keys under which the faults of a block are counted.
FaultKeys(b) == {ProtoKey(b)} \cup {TicketKey(a) : a \in {x \in Addr : block[x] = b}}

ReqTypes == req \in [Req -> {Nothing} \cup [addr : Addr, way : Way, at : Place]]
WindowTypes == AgentWindow!TypeOK /\ LookupWindow!TypeOK
FaultTypes == faults \in [Block -> 0..EnoughFaults]

\* A fault is either one that a window still counts, or has made a strike: the
\* hit that is refused is not recorded, so no fault is both.
Separate ==
  \A b \in Block : \A k \in FaultKeys(b) :
    Told(Dealt(b) + Len(agentHits[k])) <= faults[b]

\* Behind every strike is one fault, and behind the first of them a full window.
Earned ==
  \A b \in Block : Dealt(b) > 0 =>
    AgentLimit > 0 /\ Told(Dealt(b) + AgentLimit) <= faults[b]

\* Separate is what makes Earned inductive: the fault that goes over the limit
\* finds a window that is full of others.
Counts == IsFiniteSet(Pending) /\ Separate /\ Earned

IInv == ReqTypes /\ WindowTypes /\ FaultTypes /\ Counts /\ BP!IInv

-----------------------------------------------------------------------------
(***************************************************************************)
(* The book: what Banbook's own proofs say of it.                          *)
(***************************************************************************)
\* What BanbookProofs assumes of its constants.
LEMMA BookConstants ==
  /\ Ladder \in Seq(Nat \ {0}) /\ SoftLadder \in Seq(Nat \ {0})
  /\ Len(Ladder) > 0 /\ Len(SoftLadder) > 0
  /\ BP!Rising(Ladder) /\ BP!Rising(SoftLadder)
  /\ BP!Top(SoftLadder) <= BP!Top(Ladder) /\ BP!Top(Ladder) <= Decay
  /\ {Decay, MaxKeys, 0, MaxActive} \subseteq Nat
  BY BookAssumption DEF B!Rising, B!Top, BP!Rising, BP!Top

LEMMA BookInitially == BP!Init => BP!IInv
  BY BP!InitInv, BookConstants

LEMMA BookKept == BP!IInv /\ [BP!Next]_(BP!vars) => BP!IInv'
  BY BP!NextInv, BookConstants

\* A request that a handler serves has a block, and it is one of Banbook's keys.
LEMMA BlockOfRequest ==
  ASSUME ReqTypes, NEW r \in Req, ~At(r, "idle")
  PROVE  /\ req[r] \in [addr : Addr, way : Way, at : Place]
         /\ Of(r) \in Block
  BY DEF ReqTypes, At, Nothing, Of, Block

\* Every step is one of the book's, or leaves it alone.
LEMMA BookStep == ReqTypes /\ [Next]_vars => [BP!Next]_(BP!vars)
<1> SUFFICES ASSUME ReqTypes, [Next]_vars PROVE [BP!Next]_(BP!vars)
  OBVIOUS
<1>1. ASSUME UNCHANGED book PROVE UNCHANGED BP!vars
  BY <1>1 DEF book, BP!vars
<1>2. ASSUME NEW k \in Block, B!Blocked(k) PROVE BP!Next
  <2>1. BP!Blocked(k)
    BY <1>2 DEF B!Blocked, BP!Blocked, B!Saw, BP!Saw
  <2> QED BY <2>1 DEF BP!Next
<1>3. ASSUME NEW k \in Block, B!NoteRejected(k) PROVE BP!Next
  <2>1. BP!NoteRejected(k)
    BY <1>3 DEF B!NoteRejected, BP!NoteRejected, B!Saw, BP!Saw, B!IsBlocked, BP!IsBlocked,
                B!BannedKeys, BP!BannedKeys, B!Banned, BP!Banned
  <2> QED BY <2>1 DEF BP!Next
<1>4. ASSUME NEW k \in Block, NEW soft \in BOOLEAN, B!StrikeAs(k, soft)
      PROVE  BP!StrikeAs(k, soft)
  <2>1. B!Victims = BP!Victims
    BY DEF B!Victims, BP!Victims, B!Idle, BP!Idle, B!Rank, BP!Rank, B!Banned, BP!Banned
  <2>2. B!Evicted(k) = BP!Evicted(k)
    BY <2>1 DEF B!Evicted, BP!Evicted, B!NoRoom, BP!NoRoom,
                   B!Cardinality, BP!Cardinality
  <2>3. B!Found(k) = BP!Found(k)
    BY DEF B!Found, BP!Found, B!NewEntry, BP!NewEntry
  <2>4. \A e : B!Struck(e, soft) = BP!Struck(e, soft)
    BY DEF B!Struck, BP!Struck, B!NextRung, BP!NextRung
  <2>5. \A gone, e : B!GaugeAfter(gone, e) = BP!GaugeAfter(gone, e)
    BY DEF B!GaugeAfter, BP!GaugeAfter, B!BannedKeys, BP!BannedKeys, B!Banned, BP!Banned,
           B!Cardinality, BP!Cardinality
  <2> QED BY <1>4, <2>2, <2>3, <2>4, <2>5 DEF B!StrikeAs, BP!StrikeAs
<1>5. ASSUME NEW k \in Block, B!Strike(k) \/ B!SoftStrike(k) PROVE BP!Next
  <2>1. BP!Strike(k) \/ BP!SoftStrike(k)
    BY <1>4, <1>5 DEF B!Strike, B!SoftStrike, BP!Strike, BP!SoftStrike
  <2> QED BY <2>1 DEF BP!Next
<1>6. ASSUME B!Sweep(0) PROVE BP!Next
  <2>1. BP!Sweep(0) /\ 0 \in 0..0
    BY <1>6 DEF B!Sweep, BP!Sweep, B!Without, BP!Without, B!Idle, BP!Idle,
                B!Cardinality, BP!Cardinality
  <2> QED BY <2>1 DEF BP!Next
<1>7. ASSUME B!Tick PROVE BP!Next
  <2>1. BP!Tick
    BY <1>7 DEF B!Tick, BP!Tick, B!Older, BP!Older, B!OldAge, BP!OldAge
  <2> QED BY <2>1 DEF BP!Next
<1>8. ASSUME NEW r \in Req, NEW a \in Addr, NEW w \in Way, Check(r, a, w) PROVE BP!Next
  BY <1>2, <1>8 DEF Check, Block
<1>9. ASSUME NEW r \in Req, Note(r) \/ AskAgain(r) \/ Trip(r) \/ Refuse(r) \/ Strike(r)
      PROVE  BP!Next
  <2>1. Of(r) \in Block
    BY <1>9, BlockOfRequest DEF Note, AskAgain, Trip, Refuse, Strike, At
  <2> QED BY <1>2, <1>3, <1>5, <1>9, <2>1 DEF Note, AskAgain, Trip, Refuse, Strike
<1>10. ASSUME NEW r \in Req, Hit(r) \/ Leave(r) \/ Fault(r) PROVE UNCHANGED BP!vars
  BY <1>1, <1>10 DEF Hit, Leave, Fault
<1>11. CASE Sweep
  BY <1>1, <1>6, <1>11 DEF Sweep
<1>12. CASE Tick
  BY <1>7, <1>12 DEF Tick
<1>13. CASE UNCHANGED vars
  BY <1>1, <1>13 DEF vars
<1> QED BY <1>8, <1>9, <1>10, <1>11, <1>12, <1>13 DEF Next

\* The record of a block's auth strikes grows by its own strike only, and by one.
LEMMA StrikesOnRecord ==
  ASSUME BP!IInv
  PROVE  /\ \A b \in Block : Strikes(b) \in 0..Len(Ladder)
         /\ Len(Ladder) \in Nat \ {0}
<1>1. Len(Ladder) \in Nat \ {0}
  BY BookAssumption
<1>2. \A b \in DOMAIN entries : entries[b].strikes \in 0..Len(Ladder)
  BY DEF BP!IInv, BP!TypeOK, BP!Entry
<1> QED BY <1>1, <1>2 DEF Strikes

\* A strike of either kind.
LEMMA StrikeAdds ==
  ASSUME BP!IInv, NEW k \in Block, NEW soft \in BOOLEAN, B!StrikeAs(k, soft)
  PROVE  /\ \A b \in Block : b # k \/ soft => Strikes(b)' \in 0..Strikes(b)
         /\ Strikes(k)' \in 0..(Strikes(k) + 1)
<1>1. PICK gone \in B!Evicted(k) :
        entries' = [j \in (DOMAIN entries \ gone) \cup {k} |->
                      IF j = k THEN B!Struck(B!Found(k), soft) ELSE entries[j]]
  BY DEF B!StrikeAs
<1>2. \A b \in Block : Strikes(b) \in Nat
  BY StrikesOnRecord
<1>3. ASSUME NEW b \in Block, b # k PROVE Strikes(b)' \in 0..Strikes(b)
  <2>1. CASE b \in DOMAIN entries \ gone
    BY <1>1, <1>2, <1>3, <2>1 DEF Strikes
  <2>2. CASE b \notin DOMAIN entries \ gone
    BY <1>1, <1>2, <1>3, <2>2 DEF Strikes
  <2> QED BY <2>1, <2>2
<1>4. Strikes(k)' = B!Struck(B!Found(k), soft).strikes
  BY <1>1 DEF Strikes
<1>5. B!Found(k).strikes \in 0..Strikes(k)
  <2>1. CASE k \notin DOMAIN entries
    BY <1>2, <2>1 DEF B!Found, B!NewEntry, Strikes
  <2>2. CASE k \in DOMAIN entries
    <3>1. entries[k] \in BP!Entry
      BY <2>2 DEF BP!IInv, BP!TypeOK
    <3> QED BY <1>2, <2>2, <3>1 DEF B!Found, BP!Entry, Strikes
  <2> QED BY <2>1, <2>2
<1>6. CASE soft
  BY <1>2, <1>3, <1>4, <1>5, <1>6 DEF B!Struck
<1>7. CASE ~soft
  BY <1>2, <1>3, <1>4, <1>5, <1>7, StrikesOnRecord DEF B!Struck, B!NextRung
<1> QED BY <1>6, <1>7

\* Whatever else the book is asked leaves the strikes alone or forgets some.
LEMMA OthersAddNone ==
  ASSUME BP!IInv,
         \/ \E k \in Block : B!Blocked(k) \/ B!NoteRejected(k) \/ B!SoftStrike(k)
         \/ B!Sweep(0) \/ B!Tick \/ UNCHANGED book
  PROVE  \A b \in Block : Strikes(b)' \in 0..Strikes(b)
<1> SUFFICES ASSUME NEW b \in Block PROVE Strikes(b)' \in 0..Strikes(b)
  OBVIOUS
<1>1. Strikes(b) \in Nat
  BY StrikesOnRecord
<1>2. ASSUME NEW k \in Block, B!SoftStrike(k) PROVE Strikes(b)' \in 0..Strikes(b)
  BY <1>2, StrikeAdds DEF B!SoftStrike
<1>3. ASSUME NEW k \in DOMAIN entries, B!Saw(k) PROVE Strikes(b)' = Strikes(b)
  <2>1. DOMAIN entries' = DOMAIN entries
    BY <1>3 DEF B!Saw
  <2>2. CASE b = k
    <3>1. entries[k] \in BP!Entry
      BY DEF BP!IInv, BP!TypeOK
    <3>2. entries'[k].strikes = entries[k].strikes
      BY <1>3, <3>1 DEF B!Saw, BP!Entry
    <3> QED BY <2>1, <2>2, <3>2 DEF Strikes
  <2>3. CASE b # k
    BY <1>3, <2>1, <2>3 DEF B!Saw, Strikes
  <2> QED BY <2>2, <2>3
<1>4. CASE UNCHANGED book
  BY <1>1, <1>4 DEF book, Strikes
<1>5. ASSUME NEW k \in Block, B!Blocked(k) \/ B!NoteRejected(k)
      PROVE  Strikes(b)' = Strikes(b)
  <2>1. UNCHANGED entries \/ (k \in DOMAIN entries /\ B!Saw(k))
    BY <1>5 DEF B!Blocked, B!NoteRejected, B!IsBlocked, B!BannedKeys
  <2>2. UNCHANGED entries => Strikes(b)' = Strikes(b)
    BY DEF Strikes
  <2> QED BY <1>3, <2>1, <2>2
<1>6. CASE B!Sweep(0)
  <2>1. /\ DOMAIN entries' \subseteq DOMAIN entries
        /\ \A k \in DOMAIN entries' : entries'[k] = entries[k]
    BY <1>6 DEF B!Sweep, B!Without
  <2> QED BY <1>1, <2>1 DEF Strikes
<1>7. CASE B!Tick
  <2>1. DOMAIN entries' = DOMAIN entries
    BY <1>7 DEF B!Tick
  <2>2. CASE b \in DOMAIN entries
    <3>1. entries[b] \in BP!Entry
      BY <2>2 DEF BP!IInv, BP!TypeOK
    <3>2. entries'[b].strikes = entries[b].strikes
      BY <1>7, <2>2, <3>1 DEF B!Tick, BP!Entry
    <3> QED BY <1>1, <2>1, <3>2 DEF Strikes
  <2>3. CASE b \notin DOMAIN entries
    BY <1>1, <2>1, <2>3 DEF Strikes
  <2> QED BY <2>2, <2>3
<1> QED BY <1>1, <1>2, <1>4, <1>5, <1>6, <1>7

-----------------------------------------------------------------------------
(***************************************************************************)
(* The windows.                                                            *)
(***************************************************************************)
Hits == Seq(0..Period)

\* Both windows in the same words.
LEMMA WindowsAre ==
  /\ Period \in Nat \ {0} /\ AgentLimit \in Nat /\ LookupLimit \in Nat
  /\ WindowTypes <=>
       /\ agentHits \in [AgentKeys -> Hits]
       /\ AgentLimit > 0 => \A k \in AgentKeys : Len(agentHits[k]) <= AgentLimit
       /\ lookupHits \in [{HitKey(b) : b \in Block} -> Hits]
       /\ LookupLimit > 0 =>
            \A k \in {HitKey(b) : b \in Block} : Len(lookupHits[k]) <= LookupLimit
  /\ \A s : /\ AgentWindow!Kept(s, 0) = Younger(s, Period)
            /\ LookupWindow!Kept(s, 0) = Younger(s, Period)
<1>1. Period \in Nat \ {0} /\ AgentLimit \in Nat /\ LookupLimit \in Nat
  BY AdmissionAssumption
<1>2. Period + 0 = Period
  BY <1>1
<1>3. \A s : /\ AgentWindow!Kept(s, 0) = Younger(s, Period)
             /\ LookupWindow!Kept(s, 0) = Younger(s, Period)
  BY <1>2 DEF AgentWindow!Kept, LookupWindow!Kept, AgentWindow!Younger,
              LookupWindow!Younger, Younger
<1>4. Seq(0..(Period + 0)) = Hits
  BY <1>2 DEF Hits
<1> QED BY <1>1, <1>3, <1>4 DEF WindowTypes, AgentWindow!TypeOK, LookupWindow!TypeOK

\* What pruning and a new hit make of the hits of a key.
LEMMA Pruned ==
  ASSUME NEW s \in Hits
  PROVE  /\ Younger(s, Period) \in Hits /\ Append(Younger(s, Period), 0) \in Hits
         /\ Len(s) \in Nat /\ Len(Younger(s, Period)) \in 0..Len(s)
         /\ Len(Append(Younger(s, Period), 0)) = Len(Younger(s, Period)) + 1
<1>1. /\ Younger(s, Period) \in Hits /\ Len(s) \in Nat
      /\ Len(Younger(s, Period)) \in 0..Len(s)
  BY YoungerType, LenProperties DEF Hits
<1>2. 0 \in 0..Period
  BY WindowsAre
<1> QED BY <1>1, <1>2, AppendProperties DEF Hits

\* Time makes hits older, no more and no fewer.
LEMMA OlderHits ==
  ASSUME NEW s \in Hits
  PROVE  /\ AgentWindow!Older(s) \in Hits /\ Len(AgentWindow!Older(s)) = Len(s)
         /\ LookupWindow!Older(s) \in Hits /\ Len(LookupWindow!Older(s)) = Len(s)
<1> DEFINE o == [i \in DOMAIN s |-> IF s[i] < Period + 0 THEN s[i] + 1 ELSE s[i]]
<1>1. /\ Len(s) \in Nat /\ DOMAIN s = 1..Len(s)
      /\ \A i \in 1..Len(s) : s[i] \in 0..Period
  BY LenProperties DEF Hits
<1>2. o \in [1..Len(s) -> 0..Period]
  BY <1>1, WindowsAre
<1>3. o \in Hits /\ Len(o) = Len(s)
  <2>1. o \in Seq(0..Period)
    BY <1>1, <1>2, SeqDef
  <2> HIDE DEF o
  <2> QED BY <1>1, <1>2, <2>1, LenProperties DEF Hits
<1> QED BY <1>3 DEF AgentWindow!Older, LookupWindow!Older

\* Allow on the window of /v1/agent.  It records a hit only where there is room,
\* and turns away only over a full window.
LEMMA AgentAllow ==
  ASSUME WindowTypes, NEW k \in AgentKeys, AgentWindow!Allow(k), UNCHANGED lookupHits
  PROVE  /\ WindowTypes'
         /\ \A j \in AgentKeys : j # k => agentHits'[j] = agentHits[j]
         /\ Len(agentHits'[k]) \in Nat /\ Len(agentHits'[k]) <= Len(agentHits[k]) + 1
         /\ ~AgentWindow!Room(k) =>
              /\ AgentLimit > 0 /\ Len(agentHits[k]) = AgentLimit
              /\ Len(agentHits'[k]) <= Len(agentHits[k])
<1> DEFINE s == agentHits[k]
           q == Younger(s, Period)
<1>1. s \in Hits /\ agentHits \in [AgentKeys -> Hits] /\ AgentLimit \in Nat
      /\ (AgentLimit > 0 => Len(s) <= AgentLimit)
  BY WindowsAre
<1>2. /\ q \in Hits /\ Append(q, 0) \in Hits
      /\ Len(s) \in Nat /\ Len(q) \in 0..Len(s) /\ Len(Append(q, 0)) = Len(q) + 1
  BY <1>1, Pruned
<1>3. AgentWindow!Kept(s, 0) = q
  BY WindowsAre
<1>4. AgentWindow!Room(k) <=> AgentLimit = 0 \/ Len(q) < AgentLimit
  BY <1>3 DEF AgentWindow!Room
<1>5. agentHits' = IF AgentLimit = 0 THEN agentHits
                   ELSE [agentHits EXCEPT ![k] =
                           IF AgentWindow!Room(k) THEN Append(q, 0) ELSE q]
  BY <1>3 DEF AgentWindow!Allow
<1> HIDE DEF q
<1>6. \A j \in AgentKeys : j # k => agentHits'[j] = agentHits[j]
  BY <1>1, <1>5
<1>7. CASE AgentLimit = 0
  <2>1. agentHits' = agentHits
    BY <1>5, <1>7
  <2>2. WindowTypes'
    BY <2>1, WindowsAre DEF WindowTypes, AgentWindow!TypeOK, LookupWindow!TypeOK
  <2> QED BY <1>1, <1>2, <1>4, <1>7, <2>1, <2>2
<1>8. CASE AgentLimit > 0
  <2>1. agentHits'[k] = IF AgentWindow!Room(k) THEN Append(q, 0) ELSE q
    BY <1>1, <1>5, <1>8
  <2>2. agentHits'[k] \in Hits /\ Len(agentHits'[k]) <= AgentLimit
    BY <1>1, <1>2, <1>4, <1>8, <2>1
  <2>3. agentHits' \in [AgentKeys -> Hits]
    BY <1>1, <1>2, <1>5
  <2>4. \A j \in AgentKeys : Len(agentHits'[j]) <= AgentLimit
    BY <1>6, <1>8, <2>2, WindowsAre
  <2>5. WindowTypes'
    <3>1. /\ lookupHits \in [{HitKey(b) : b \in Block} -> Hits]
          /\ LookupLimit > 0 =>
               \A j \in {HitKey(b) : b \in Block} : Len(lookupHits[j]) <= LookupLimit
      BY WindowsAre
    <3>2. Seq(0..(Period + 0)) = Hits
      BY WindowsAre DEF Hits
    <3> QED BY <2>3, <2>4, <3>1, <3>2
            DEF WindowTypes, AgentWindow!TypeOK, LookupWindow!TypeOK
  <2> QED BY <1>1, <1>2, <1>4, <1>6, <1>8, <2>1, <2>5
<1> QED BY <1>1, <1>7, <1>8

\* What else the windows are asked leaves no key more hits of faults.
LEMMA OthersCountNone ==
  ASSUME WindowTypes,
         \/ \E k \in {HitKey(b) : b \in Block} :
              LookupWindow!Allow(k) /\ UNCHANGED agentHits
         \/ AgentWindow!Sweep(0) /\ UNCHANGED lookupHits
         \/ LookupWindow!Sweep(0) /\ UNCHANGED agentHits
         \/ AgentWindow!Tick /\ LookupWindow!Tick
         \/ UNCHANGED windows
  PROVE  /\ WindowTypes'
         /\ \A k \in AgentKeys : Len(agentHits'[k]) \in 0..Len(agentHits[k])
<1> DEFINE LK == {HitKey(b) : b \in Block}
<1>1. /\ agentHits \in [AgentKeys -> Hits]
      /\ AgentLimit > 0 => \A k \in AgentKeys : Len(agentHits[k]) <= AgentLimit
      /\ lookupHits \in [LK -> Hits]
      /\ LookupLimit > 0 => \A k \in LK : Len(lookupHits[k]) <= LookupLimit
      /\ AgentLimit \in Nat /\ LookupLimit \in Nat /\ Period \in Nat
  BY WindowsAre
<1> HIDE DEF LK
<1>2. \A k \in AgentKeys : Len(agentHits[k]) \in Nat
  BY <1>1, Pruned
<1>3. \A k \in LK : Len(lookupHits[k]) \in Nat
  BY <1>1, Pruned
<1>4. ASSUME /\ agentHits' \in [AgentKeys -> Hits]
             /\ \A k \in AgentKeys : Len(agentHits'[k]) \in 0..Len(agentHits[k])
             /\ lookupHits' \in [LK -> Hits]
             /\ LookupLimit > 0 => \A k \in LK : Len(lookupHits'[k]) <= LookupLimit
      PROVE  /\ WindowTypes'
             /\ \A k \in AgentKeys : Len(agentHits'[k]) \in 0..Len(agentHits[k])
  <2>1. AgentLimit > 0 => \A k \in AgentKeys : Len(agentHits'[k]) <= AgentLimit
    BY <1>1, <1>2, <1>4
  <2>2. Seq(0..(Period + 0)) = Hits
    BY <1>1 DEF Hits
  <2> QED BY <1>4, <2>1, <2>2
          DEF WindowTypes, AgentWindow!TypeOK, LookupWindow!TypeOK, LK
<1>5. ASSUME UNCHANGED agentHits
      PROVE  /\ agentHits' \in [AgentKeys -> Hits]
             /\ \A k \in AgentKeys : Len(agentHits'[k]) \in 0..Len(agentHits[k])
  BY <1>1, <1>2, <1>5
<1>6. ASSUME NEW k \in LK, LookupWindow!Allow(k), UNCHANGED agentHits
      PROVE  /\ WindowTypes'
             /\ \A j \in AgentKeys : Len(agentHits'[j]) \in 0..Len(agentHits[j])
  <2> DEFINE q == Younger(lookupHits[k], Period)
  <2>1. /\ q \in Hits /\ Append(q, 0) \in Hits
        /\ Len(lookupHits[k]) \in Nat /\ Len(q) \in 0..Len(lookupHits[k])
        /\ Len(Append(q, 0)) = Len(q) + 1
    BY <1>1, Pruned
  <2>2. LookupWindow!Kept(lookupHits[k], 0) = q
    BY WindowsAre
  <2> HIDE DEF q
  <2>3. lookupHits' = IF LookupLimit = 0 THEN lookupHits
                      ELSE [lookupHits EXCEPT ![k] =
                              IF Len(q) < LookupLimit THEN Append(q, 0) ELSE q]
    BY <1>6, <2>2 DEF LookupWindow!Allow, LookupWindow!Room
  <2>4. lookupHits' \in [LK -> Hits]
    BY <1>1, <2>1, <2>3
  <2>5. ASSUME LookupLimit > 0, NEW j \in LK PROVE Len(lookupHits'[j]) <= LookupLimit
    <3>1. lookupHits'[j] = IF j # k THEN lookupHits[j]
                           ELSE IF Len(q) < LookupLimit THEN Append(q, 0) ELSE q
      BY <1>1, <2>3, <2>5
    <3> QED BY <1>1, <2>1, <2>5, <3>1
  <2> QED BY <1>4, <1>5, <1>6, <2>4, <2>5
<1>7. CASE AgentWindow!Sweep(0) /\ UNCHANGED lookupHits
  <2>1. agentHits' = [k \in AgentKeys |-> Younger(agentHits[k], Period)]
    BY <1>7, WindowsAre DEF AgentWindow!Sweep
  <2>2. \A k \in AgentKeys : /\ agentHits'[k] \in Hits
                             /\ Len(agentHits'[k]) \in 0..Len(agentHits[k])
    BY <1>1, <2>1, Pruned
  <2> QED BY <1>1, <1>4, <1>7, <2>1, <2>2
<1>8. CASE LookupWindow!Sweep(0) /\ UNCHANGED agentHits
  <2>1. lookupHits' = [k \in LK |-> Younger(lookupHits[k], Period)]
    BY <1>8, WindowsAre DEF LookupWindow!Sweep, LK
  <2>2. \A k \in LK : /\ lookupHits'[k] \in Hits
                      /\ Len(lookupHits'[k]) \in 0..Len(lookupHits[k])
    BY <1>1, <2>1, Pruned
  <2>3. LookupLimit > 0 => \A k \in LK : Len(lookupHits'[k]) <= LookupLimit
    BY <1>1, <1>3, <2>2
  <2> QED BY <1>4, <1>5, <1>8, <2>1, <2>2, <2>3
<1>9. CASE AgentWindow!Tick /\ LookupWindow!Tick
  <2>1. /\ agentHits' = [k \in AgentKeys |-> AgentWindow!Older(agentHits[k])]
        /\ lookupHits' = [k \in LK |-> LookupWindow!Older(lookupHits[k])]
    BY <1>9 DEF AgentWindow!Tick, LookupWindow!Tick, LK
  <2>2. \A k \in AgentKeys : /\ agentHits'[k] \in Hits
                             /\ Len(agentHits'[k]) = Len(agentHits[k])
    BY <1>1, <2>1, OlderHits
  <2>3. \A k \in LK : /\ lookupHits'[k] \in Hits /\ Len(lookupHits'[k]) = Len(lookupHits[k])
    BY <1>1, <2>1, OlderHits
  <2> QED BY <1>1, <1>2, <1>4, <2>1, <2>2, <2>3
<1>10. CASE UNCHANGED windows
  BY <1>1, <1>4, <1>5, <1>10 DEF windows
<1> QED BY <1>6, <1>7, <1>8, <1>9, <1>10 DEF LK

-----------------------------------------------------------------------------
(***************************************************************************)
(* Requests, and what their steps do to the counts.                        *)
(***************************************************************************)
\* One request goes on, or is over.
LEMMA GotoMoves ==
  ASSUME ReqTypes, NEW r \in Req, ~At(r, "idle"), NEW l \in Place, Goto(r, l) \/ Over(r)
  PROVE  /\ ReqTypes'
         /\ \A q \in Req : q # r => req'[q] = req[q]
         /\ Goto(r, l) => req'[r].at = l /\ req'[r].addr = req[r].addr
         /\ Over(r) => req'[r].at = "idle"
<1>1. req[r] \in [addr : Addr, way : Way, at : Place]
  BY BlockOfRequest
<1>2. CASE Goto(r, l)
  <2> DEFINE v == [addr |-> req[r].addr, way |-> req[r].way, at |-> l]
  <2>1. v \in [addr : Addr, way : Way, at : Place]
    BY <1>1
  <2>2. [req[r] EXCEPT !.at = l] = v
    BY <1>1
  <2>3. req' = [req EXCEPT ![r] = v]
    BY <1>2, <2>2 DEF Goto
  <2>4. req'[r] = v /\ \A q \in Req : q # r => req'[q] = req[q]
    BY <2>3 DEF ReqTypes
  <2>5. ReqTypes'
    BY <2>1, <2>3 DEF ReqTypes
  <2>6. Over(r) => req'[r].at = "idle"
    BY DEF Over, Nothing, ReqTypes
  <2> QED BY <2>4, <2>5, <2>6
<1>3. CASE Over(r)
  <2>1. req'[r] = Nothing /\ \A q \in Req : q # r => req'[q] = req[q]
    BY <1>3 DEF Over, ReqTypes
  <2>2. ReqTypes'
    BY <1>3 DEF Over, ReqTypes
  <2>3. Goto(r, l) => req'[r].at = l /\ req'[r].addr = req[r].addr
    <3> SUFFICES ASSUME Goto(r, l) PROVE req'[r].at = l /\ req'[r].addr = req[r].addr
      OBVIOUS
    <3>1. req'[r] = [req[r] EXCEPT !.at = l]
      BY DEF Goto, ReqTypes
    <3> QED BY <1>1, <3>1
  <2> QED BY <2>1, <2>2, <2>3 DEF Nothing
<1> QED BY <1>2, <1>3

\* A request that neither is to strike nor comes to it changes no count of those
\* that are.
LEMMA SamePending ==
  ASSUME NEW r \in Req, \A q \in Req : q # r => req'[q] = req[q],
         ~At(r, "strike"), req'[r].at # "strike"
  PROVE  Pending' = Pending /\ \A b \in Block : Striking(b)' = Striking(b)
<1>1. Pending' = Pending
  BY DEF Pending, At
<1>2. \A q \in Pending : req'[q] = req[q]
  BY DEF Pending, At
<1> QED BY <1>1, <1>2 DEF Striking, Of

\* The counts are natural numbers.
LEMMA CountTypes ==
  ASSUME IInv
  PROVE  /\ \A b \in Block : /\ IsFiniteSet(Striking(b))
                             /\ Cardinality(Striking(b)) \in Nat
                             /\ Strikes(b) \in 0..Len(Ladder)
                             /\ Dealt(b) \in Nat /\ faults[b] \in 0..EnoughFaults
                             /\ FaultKeys(b) \subseteq AgentKeys
         /\ \A k \in AgentKeys : Len(agentHits[k]) \in Nat
         /\ AgentLimit \in Nat /\ Len(Ladder) \in Nat /\ EnoughFaults \in Nat
<1>1. \A b \in Block : IsFiniteSet(Striking(b)) /\ Cardinality(Striking(b)) \in Nat
  <2>1. \A b \in Block : Striking(b) \subseteq Pending
    BY DEF Striking
  <2> QED BY <2>1, FS_Subset, FS_CardinalityType DEF IInv, Counts
<1>2. \A b \in Block : Strikes(b) \in 0..Len(Ladder)
  BY StrikesOnRecord DEF IInv
<1>3. \A k \in AgentKeys : Len(agentHits[k]) \in Nat
  BY WindowsAre, Pruned DEF IInv
<1>4. AgentLimit \in Nat /\ Len(Ladder) \in Nat /\ EnoughFaults \in Nat
  BY AdmissionAssumption, StrikesOnRecord DEF EnoughFaults, IInv
<1>5. \A b \in Block : FaultKeys(b) \subseteq AgentKeys
  BY DEF FaultKeys, AgentKeys
<1>6. \A b \in Block : faults[b] \in 0..EnoughFaults
  BY DEF IInv, FaultTypes
<1> QED BY <1>1, <1>2, <1>3, <1>4, <1>5, <1>6 DEF Dealt

\* Steps after which no block has more strikes to its account, no window counts
\* more of its faults, and none of its faults is forgotten.
LEMMA CountsKept ==
  ASSUME IInv, IsFiniteSet(Pending'), BP!IInv', WindowTypes', FaultTypes',
         \A b \in Block : Dealt(b)' <= Dealt(b) /\ faults'[b] >= faults[b],
         \A b \in Block : \A k \in FaultKeys(b) :
           Len(agentHits'[k]) <= Len(agentHits[k])
  PROVE  Counts'
<1>1. /\ AgentLimit \in Nat /\ EnoughFaults \in Nat
      /\ \A b \in Block : /\ Dealt(b) \in Nat /\ faults[b] \in Nat
                          /\ FaultKeys(b) \subseteq AgentKeys
      /\ \A k \in AgentKeys : Len(agentHits[k]) \in Nat
  BY CountTypes
<1>2. \A b \in Block : Dealt(b)' \in Nat /\ faults'[b] \in Nat
  <2>1. ASSUME NEW b \in Block PROVE Cardinality(Striking(b)') \in Nat
    <3>1. Striking(b)' \subseteq Pending'
      BY DEF Striking
    <3> QED BY <3>1, FS_Subset, FS_CardinalityType
  <2>2. ASSUME NEW b \in Block PROVE Strikes(b)' \in Nat
    <3>1. Len(Ladder) \in Nat
      BY BookAssumption
    <3>2. \A k \in DOMAIN entries' : entries'[k].strikes \in 0..Len(Ladder)
      BY DEF BP!IInv, BP!TypeOK, BP!Entry
    <3> QED BY <3>1, <3>2 DEF Strikes
  <2>3. \A b \in Block : faults'[b] \in Nat
    BY <1>1 DEF FaultTypes
  <2> QED BY <2>1, <2>2, <2>3 DEF Dealt
<1>3. \A k \in AgentKeys : Len(agentHits'[k]) \in Nat
  <2>1. agentHits' \in [AgentKeys -> Seq(0..(Period + 0))]
    BY DEF WindowTypes, AgentWindow!TypeOK
  <2> QED BY <2>1, LenProperties
<1>4. Separate'
  <2> SUFFICES ASSUME NEW b \in Block, NEW k \in FaultKeys(b)
               PROVE  Told(Dealt(b)' + Len(agentHits'[k])) <= faults'[b]
    BY DEF Separate, FaultKeys, Told, EnoughFaults
  <2>1. Told(Dealt(b) + Len(agentHits[k])) <= faults[b]
    BY DEF IInv, Counts, Separate
  <2>2. k \in AgentKeys /\ Len(agentHits'[k]) <= Len(agentHits[k])
    BY <1>1
  <2> QED BY <1>1, <1>2, <1>3, <2>1, <2>2 DEF Told
<1>5. Earned'
  <2> SUFFICES ASSUME NEW b \in Block, Dealt(b)' > 0
               PROVE  AgentLimit > 0 /\ Told(Dealt(b)' + AgentLimit) <= faults'[b]
    BY DEF Earned, Told, EnoughFaults
  <2>1. Dealt(b) > 0
    BY <1>1, <1>2
  <2>2. AgentLimit > 0 /\ Told(Dealt(b) + AgentLimit) <= faults[b]
    BY <2>1 DEF IInv, Counts, Earned
  <2> QED BY <1>1, <1>2, <2>2 DEF Told
<1> QED BY <1>4, <1>5 DEF Counts

\* A step of a request that has nothing to do with a fault.
LEMMA QuietKeeps ==
  ASSUME IInv, ReqTypes', BP!IInv', WindowTypes', UNCHANGED faults,
         Pending' = Pending, \A b \in Block : Striking(b)' = Striking(b),
         \A b \in Block : Strikes(b)' \in 0..Strikes(b),
         \A b \in Block : \A k \in FaultKeys(b) :
           Len(agentHits'[k]) <= Len(agentHits[k])
  PROVE  IInv'
<1>1. FaultTypes'
  BY DEF IInv, FaultTypes, EnoughFaults
<1>2. \A b \in Block : Dealt(b)' <= Dealt(b) /\ faults'[b] >= faults[b]
  BY CountTypes DEF Dealt
<1>3. IsFiniteSet(Pending')
  BY DEF IInv, Counts
<1>4. Counts'
  BY <1>1, <1>2, <1>3, CountsKept
<1> QED BY <1>1, <1>4 DEF IInv

\* The fault of a request: the window counts it or, full, makes it a strike.
LEMMA FaultKeeps ==
  ASSUME IInv, BP!IInv', NEW r \in Req, Fault(r)
  PROVE  IInv'
<1>1. ReqTypes /\ WindowTypes /\ FaultTypes /\ Counts
  BY DEF IInv
<1>2. At(r, "in") /\ ~At(r, "idle") /\ ~At(r, "strike") /\ "strike" \in Place
  BY DEF Fault, At, Place
<1>3. req[r] \in [addr : Addr, way : Way, at : Place] /\ Of(r) \in Block
  BY <1>1, <1>2, BlockOfRequest
<1>b. PICK b \in Block : b = Of(r)
  BY <1>3
<1>4. FaultKey(r) \in FaultKeys(b) /\ FaultKey(r) \in AgentKeys
  <2>1. FaultKey(r) \in FaultKeys(b)
    BY <1>3, <1>b DEF FaultKey, FaultKeys, Of
  <2> QED BY <2>1, CountTypes
<1>k. PICK k \in AgentKeys : k = FaultKey(r) /\ k \in FaultKeys(b)
  BY <1>4
<1>m. PICK room \in BOOLEAN : room <=> AgentWindow!Room(k)
  OBVIOUS
<1>5. \A c \in Block : c # b => k \notin FaultKeys(c)
  <2> SUFFICES ASSUME NEW c \in Block, k \in FaultKeys(c) PROVE c = b
    OBVIOUS
  <2>1. CASE req[r].way = "agent"
    <3>1. k = <<"proto", b>>
      BY <1>b, <1>k, <2>1 DEF FaultKey, ProtoKey
    <3> QED BY <3>1 DEF FaultKeys, ProtoKey, TicketKey
  <2>2. CASE req[r].way # "agent"
    <3>1. k = <<"badticket", req[r].addr>>
      BY <1>k, <2>2 DEF FaultKey, TicketKey
    <3> QED BY <1>b, <3>1 DEF FaultKeys, ProtoKey, TicketKey, Of
  <2> QED BY <2>1, <2>2
<1>6. /\ faults' = [faults EXCEPT ![b] = IF @ < EnoughFaults THEN @ + 1 ELSE @]
      /\ AgentWindow!Allow(k) /\ UNCHANGED lookupHits /\ UNCHANGED book
      /\ IF room THEN Over(r) ELSE Goto(r, "strike")
  BY <1>b, <1>k, <1>m DEF Fault
<1>7. /\ WindowTypes'
      /\ \A j \in AgentKeys : j # k => agentHits'[j] = agentHits[j]
      /\ Len(agentHits'[k]) \in Nat /\ Len(agentHits'[k]) <= Len(agentHits[k]) + 1
      /\ ~room => /\ AgentLimit > 0 /\ Len(agentHits[k]) = AgentLimit
                  /\ Len(agentHits'[k]) <= Len(agentHits[k])
  BY <1>1, <1>6, <1>m, AgentAllow
<1>8. /\ ReqTypes' /\ \A q \in Req : q # r => req'[q] = req[q]
      /\ room => req'[r].at = "idle"
      /\ ~room => req'[r].at = "strike" /\ req'[r].addr = req[r].addr
  BY <1>1, <1>2, <1>6, GotoMoves
<1>9. /\ FaultTypes'
      /\ \A c \in Block : c # b => faults'[c] = faults[c]
      /\ faults'[b] = IF faults[b] < EnoughFaults THEN faults[b] + 1 ELSE faults[b]
      /\ faults[b] \in 0..EnoughFaults /\ EnoughFaults \in Nat
  BY <1>1, <1>6, CountTypes DEF FaultTypes, EnoughFaults
<1>10. \A c \in Block : Strikes(c)' = Strikes(c)
  BY <1>6 DEF book, Strikes
<1>11. /\ \A c \in Block : c # b => Striking(c)' = Striking(c)
       /\ IsFiniteSet(Pending')
       /\ Dealt(b)' = IF room THEN Dealt(b) ELSE Dealt(b) + 1
  <2>1. CASE room
    <3>1. Pending' = Pending /\ \A c \in Block : Striking(c)' = Striking(c)
      BY <1>2, <1>8, <2>1, SamePending
    <3> QED BY <1>1, <1>10, <2>1, <3>1 DEF Counts, Dealt
  <2>2. CASE ~room
    <3>1. Pending' = Pending \cup {r} /\ r \notin Pending
      BY <1>2, <1>8, <2>2 DEF Pending, At
    <3>2. Of(r)' = b
      BY <1>b, <1>8, <2>2 DEF Of
    <3>3. \A q \in Pending : Of(q)' = Of(q)
      BY <1>8, <3>1 DEF Of, Pending
    <3>4. \A c \in Block : c # b => Striking(c)' = Striking(c)
      BY <3>1, <3>2, <3>3 DEF Striking
    <3>5. Striking(b)' = Striking(b) \cup {r} /\ r \notin Striking(b)
      BY <3>1, <3>2, <3>3 DEF Striking
    <3>6. Cardinality(Striking(b) \cup {r}) = Cardinality(Striking(b)) + 1
      BY <3>5, CountTypes, FS_AddElement
    <3>7. IsFiniteSet(Pending')
      BY <1>1, <3>1, FS_AddElement DEF Counts
    <3>8. Dealt(b)' = Dealt(b) + 1
      BY <1>10, <3>5, <3>6, CountTypes DEF Dealt
    <3> QED BY <2>2, <3>4, <3>7, <3>8
  <2> QED BY <2>1, <2>2
<1>12. \A c \in Block : c # b => Dealt(c)' = Dealt(c)
  BY <1>10, <1>11 DEF Dealt
<1>13. /\ Dealt(b) \in Nat /\ AgentLimit \in Nat
       /\ \A j \in AgentKeys : Len(agentHits[j]) \in Nat
       /\ \A c \in Block : FaultKeys(c) \subseteq AgentKeys
  BY CountTypes
<1>14. Separate'
  <2> SUFFICES ASSUME NEW c \in Block, NEW j \in FaultKeys(c)
               PROVE  Told(Dealt(c)' + Len(agentHits'[j])) <= faults'[c]
    BY DEF Separate, FaultKeys, Told, EnoughFaults
  <2>1. Told(Dealt(c) + Len(agentHits[j])) <= faults[c]
    BY <1>1 DEF Counts, Separate
  <2>2. CASE c # b
    BY <1>5, <1>7, <1>9, <1>12, <1>13, <2>1, <2>2
  <2>3. CASE c = b /\ j # k
    <3>1. agentHits'[j] = agentHits[j] /\ Len(agentHits[j]) \in Nat
      BY <1>7, <1>13, <2>3
    <3> QED BY <1>9, <1>11, <1>13, <2>1, <2>3, <3>1 DEF Told
  <2>4. CASE c = b /\ j = k
    BY <1>7, <1>9, <1>11, <1>13, <2>1, <2>4 DEF Told
  <2> QED BY <2>2, <2>3, <2>4
<1>15. Earned'
  <2> SUFFICES ASSUME NEW c \in Block, Dealt(c)' > 0
               PROVE  AgentLimit > 0 /\ Told(Dealt(c)' + AgentLimit) <= faults'[c]
    BY DEF Earned, Told, EnoughFaults
  <2>1. Dealt(c) > 0 => AgentLimit > 0 /\ Told(Dealt(c) + AgentLimit) <= faults[c]
    BY <1>1 DEF Counts, Earned
  <2>2. CASE c # b
    BY <1>9, <1>12, <2>1, <2>2
  <2>3. CASE c = b /\ room
    <3>1. Dealt(c)' = Dealt(c)
      BY <1>11, <2>3
    <3> QED BY <1>9, <1>13, <2>1, <2>3, <3>1 DEF Told
  <2>4. CASE c = b /\ ~room
    <3>1. Told(Dealt(b) + AgentLimit) <= faults[b]
      BY <1>1, <1>k, <1>7, <2>4 DEF Counts, Separate
    <3> QED BY <1>7, <1>9, <1>11, <1>13, <2>4, <3>1 DEF Told
  <2> QED BY <2>2, <2>3, <2>4
<1> QED BY <1>7, <1>8, <1>9, <1>11, <1>14, <1>15 DEF IInv, Counts

\* The strike that a fault has led to: one more on record, one fewer to come.
LEMMA StrikeKeeps ==
  ASSUME IInv, BP!IInv', NEW r \in Req, Strike(r)
  PROVE  IInv'
<1>1. ReqTypes /\ WindowTypes /\ FaultTypes /\ Counts /\ BP!IInv
  BY DEF IInv
<1>2. At(r, "strike") /\ ~At(r, "idle") /\ "in" \in Place
  BY DEF Strike, At, Place
<1>3. PICK b \in Block : b = Of(r)
  BY <1>1, <1>2, BlockOfRequest
<1>4. B!StrikeAs(b, FALSE) /\ Over(r) /\ UNCHANGED <<windows, faults>>
  BY <1>3 DEF Strike, B!Strike
<1>5. /\ ReqTypes' /\ \A q \in Req : q # r => req'[q] = req[q]
      /\ req'[r].at = "idle"
  BY <1>1, <1>2, <1>4, GotoMoves
<1>6. /\ \A c \in Block : c # b => Strikes(c)' \in 0..Strikes(c)
      /\ Strikes(b)' \in 0..(Strikes(b) + 1)
  BY <1>1, <1>4, StrikeAdds
<1>7. Pending' = Pending \ {r} /\ r \in Pending
  BY <1>2, <1>5 DEF Pending, At
<1>8. \A q \in Pending' : Of(q)' = Of(q)
  BY <1>5, <1>7 DEF Of, Pending
<1>9. \A c \in Block : c # b => Striking(c)' = Striking(c)
  BY <1>3, <1>7, <1>8 DEF Striking
<1>10. Striking(b)' = Striking(b) \ {r} /\ r \in Striking(b)
  BY <1>3, <1>7, <1>8 DEF Striking
<1>11. Cardinality(Striking(b) \ {r}) = Cardinality(Striking(b)) - 1
  BY <1>10, CountTypes, FS_RemoveElement
<1>12. \A c \in Block : Dealt(c)' <= Dealt(c) /\ faults'[c] >= faults[c]
  <2> SUFFICES ASSUME NEW c \in Block PROVE Dealt(c)' <= Dealt(c) /\ faults'[c] >= faults[c]
    OBVIOUS
  <2>1. Cardinality(Striking(c)) \in Nat /\ Strikes(c) \in Nat /\ faults[c] \in Nat
    BY CountTypes
  <2>2. faults'[c] = faults[c]
    BY <1>4
  <2>3. CASE c # b
    BY <1>6, <1>9, <2>1, <2>2, <2>3 DEF Dealt
  <2>4. CASE c = b
    <3>1. Dealt(b)' = Strikes(b)' + (Cardinality(Striking(b)) - 1)
      BY <1>10, <1>11 DEF Dealt
    <3>2. Dealt(b) = Strikes(b) + Cardinality(Striking(b))
      BY DEF Dealt
    <3>3. Dealt(b)' <= Dealt(b)
      BY <1>6, <2>1, <2>4, <3>1, <3>2
    <3> QED BY <2>1, <2>2, <2>4, <3>3
  <2> QED BY <2>3, <2>4
<1>13. IsFiniteSet(Pending')
  BY <1>1, <1>7, FS_RemoveElement DEF Counts
<1>14. /\ WindowTypes' /\ FaultTypes'
       /\ \A c \in Block : \A k \in FaultKeys(c) : Len(agentHits'[k]) <= Len(agentHits[k])
  <2>1. UNCHANGED windows /\ UNCHANGED faults
    BY <1>4
  <2>2. /\ WindowTypes'
        /\ \A k \in AgentKeys : Len(agentHits'[k]) \in 0..Len(agentHits[k])
    BY <1>1, <2>1, OthersCountNone
  <2>3. FaultTypes'
    BY <1>1, <2>1 DEF FaultTypes, EnoughFaults
  <2> QED BY <2>2, <2>3, CountTypes
<1>15. Counts'
  BY <1>12, <1>13, <1>14, CountsKept
<1> QED BY <1>5, <1>14, <1>15 DEF IInv

-----------------------------------------------------------------------------
(***************************************************************************)
(* The invariant holds at first, and every step keeps it.                  *)
(***************************************************************************)
LEMMA Initially == Init => IInv
<1> SUFFICES ASSUME Init PROVE IInv
  OBVIOUS
<1>1. ReqTypes /\ Pending = {}
  BY DEF Init, ReqTypes, Pending, At, Nothing
<1>2. BP!IInv /\ \A b \in Block : Strikes(b) = 0
  <2>1. BP!Init
    BY DEF Init, B!Init, BP!Init
  <2>2. \A b \in Block : Strikes(b) = 0
    BY DEF Init, B!Init, Strikes
  <2> QED BY <2>1, <2>2, BookInitially
<1>3. AgentLimit \in Nat /\ Len(Ladder) \in Nat /\ EnoughFaults \in Nat
  BY WindowsAre, BookAssumption DEF EnoughFaults
<1>4. FaultTypes /\ \A b \in Block : faults[b] = 0
  BY <1>3 DEF Init, FaultTypes
<1>5. WindowTypes /\ \A k \in AgentKeys : Len(agentHits[k]) = 0
  <2>1. <<>> \in Hits /\ Len(<<>>) = 0
    BY EmptySeq DEF Hits
  <2>2. /\ agentHits = [k \in AgentKeys |-> <<>>]
        /\ lookupHits = [k \in {HitKey(b) : b \in Block} |-> <<>>]
    BY DEF Init, AgentWindow!Init, LookupWindow!Init
  <2> QED BY <1>3, <2>1, <2>2, WindowsAre
<1>6. ASSUME NEW b \in Block PROVE Dealt(b) = 0
  <2>1. Striking(b) = {}
    BY <1>1 DEF Striking
  <2> QED BY <1>2, <2>1, FS_EmptySet DEF Dealt
<1>7. Separate
  BY <1>3, <1>4, <1>5, <1>6 DEF Separate, FaultKeys, AgentKeys, Told
<1>8. Counts
  BY <1>1, <1>6, <1>7, FS_EmptySet DEF Counts, Earned
<1> QED BY <1>1, <1>2, <1>4, <1>5, <1>8 DEF IInv

\* CheckBan of a new request.
LEMMA CheckKeeps ==
  ASSUME IInv, BP!IInv', NEW r \in Req, NEW a \in Addr, NEW w \in Way, Check(r, a, w)
  PROVE  IInv'
<1> DEFINE at == IF B!IsBlocked(block[a]) THEN "barred" ELSE "allow"
           v == [addr |-> a, way |-> w, at |-> at]
<1>1. ReqTypes /\ WindowTypes /\ BP!IInv
  BY DEF IInv
<1>2. /\ At(r, "idle") /\ B!Blocked(block[a]) /\ req' = [req EXCEPT ![r] = v]
      /\ UNCHANGED windows /\ UNCHANGED faults
  BY DEF Check
<1>3. v \in [addr : Addr, way : Way, at : Place] /\ v.at # "strike"
  BY DEF Place
<1> HIDE DEF v
<1>4. ReqTypes' /\ req'[r] = v /\ \A q \in Req : q # r => req'[q] = req[q]
  BY <1>1, <1>2, <1>3 DEF ReqTypes
<1>5. Pending' = Pending /\ \A b \in Block : Striking(b)' = Striking(b)
  BY <1>2, <1>3, <1>4, SamePending DEF At
<1>6. \A b \in Block : Strikes(b)' \in 0..Strikes(b)
  BY <1>1, <1>2, OthersAddNone DEF Block
<1>7. WindowTypes' /\ \A k \in AgentKeys : Len(agentHits'[k]) \in 0..Len(agentHits[k])
  BY <1>1, <1>2, OthersCountNone
<1>8. \A b \in Block : \A k \in FaultKeys(b) : Len(agentHits'[k]) <= Len(agentHits[k])
  BY <1>7, CountTypes
<1> QED BY <1>2, <1>4, <1>5, <1>6, <1>7, <1>8, QuietKeeps

\* What a request does next to the book, short of a strike.
LEMMA BookStepKeeps ==
  ASSUME IInv, BP!IInv', NEW r \in Req,
         Note(r) \/ AskAgain(r) \/ Trip(r) \/ Refuse(r) \/ Leave(r)
  PROVE  IInv'
<1>1. ReqTypes /\ WindowTypes /\ BP!IInv
  BY DEF IInv
<1>2. /\ ~At(r, "idle") /\ ~At(r, "strike")
      /\ \E l \in Place : l # "strike" /\ (Goto(r, l) \/ Over(r))
      /\ UNCHANGED windows /\ UNCHANGED faults
  <2>1. CASE Note(r)
    BY <2>1 DEF Note, At, Place
  <2>2. CASE AskAgain(r)
    BY <2>2 DEF AskAgain, At, Place
  <2>3. CASE Trip(r) \/ Refuse(r) \/ Leave(r)
    BY <2>3 DEF Trip, Refuse, Leave, At, Place
  <2> QED BY <2>1, <2>2, <2>3
<1>3. \E k \in Block : \/ B!Blocked(k) \/ B!NoteRejected(k) \/ B!SoftStrike(k)
                       \/ UNCHANGED book
  <2>1. Of(r) \in Block
    BY <1>1, <1>2, BlockOfRequest
  <2> QED BY <2>1 DEF Note, AskAgain, Trip, Refuse, Leave
<1>4. PICK l \in Place : l # "strike" /\ (Goto(r, l) \/ Over(r))
  BY <1>2
<1>5. ReqTypes' /\ (\A q \in Req : q # r => req'[q] = req[q]) /\ req'[r].at # "strike"
  BY <1>1, <1>2, <1>4, GotoMoves
<1>6. Pending' = Pending /\ \A b \in Block : Striking(b)' = Striking(b)
  BY <1>2, <1>5, SamePending
<1>7. \A b \in Block : Strikes(b)' \in 0..Strikes(b)
  BY <1>1, <1>3, OthersAddNone
<1>8. WindowTypes' /\ \A k \in AgentKeys : Len(agentHits'[k]) \in 0..Len(agentHits[k])
  BY <1>1, <1>2, OthersCountNone
<1>9. \A b \in Block : \A k \in FaultKeys(b) : Len(agentHits'[k]) <= Len(agentHits[k])
  BY <1>8, CountTypes
<1> QED BY <1>2, <1>5, <1>6, <1>7, <1>8, <1>9, QuietKeeps

\* The window of /v1/agent or of /v1/client: a hit is under no key of a fault.
LEMMA HitKeeps ==
  ASSUME IInv, BP!IInv', NEW r \in Req, Hit(r)
  PROVE  IInv'
<1>1. ReqTypes /\ WindowTypes /\ BP!IInv
  BY DEF IInv
<1>2. /\ ~At(r, "idle") /\ ~At(r, "strike") /\ UNCHANGED book /\ UNCHANGED faults
      /\ \E l \in Place : l # "strike" /\ Goto(r, l)
  BY DEF Hit, At, Place
<1>3. PICK k \in {HitKey(b) : b \in Block} : k = HitKey(Of(r))
  BY <1>1, <1>2, BlockOfRequest
<1>4. k \in AgentKeys /\ \A b \in Block : k \notin FaultKeys(b)
  BY DEF AgentKeys, FaultKeys, HitKey, ProtoKey, TicketKey
<1>5. \/ AgentWindow!Allow(k) /\ UNCHANGED lookupHits
      \/ LookupWindow!Allow(k) /\ UNCHANGED agentHits
  BY <1>3 DEF Hit
<1>6. /\ WindowTypes'
      /\ \A b \in Block : \A j \in FaultKeys(b) : Len(agentHits'[j]) <= Len(agentHits[j])
  <2>1. /\ \A b \in Block : FaultKeys(b) \subseteq AgentKeys
        /\ \A j \in AgentKeys : Len(agentHits[j]) \in Nat
    BY CountTypes
  <2>2. CASE AgentWindow!Allow(k) /\ UNCHANGED lookupHits
    <3>1. WindowTypes' /\ \A j \in AgentKeys : j # k => agentHits'[j] = agentHits[j]
      BY <1>1, <1>4, <2>2, AgentAllow
    <3> QED BY <1>4, <2>1, <3>1
  <2>3. CASE LookupWindow!Allow(k) /\ UNCHANGED agentHits
    <3>1. /\ WindowTypes'
          /\ \A j \in AgentKeys : Len(agentHits'[j]) \in 0..Len(agentHits[j])
      BY <1>1, <2>3, OthersCountNone
    <3> QED BY <2>1, <3>1
  <2> QED BY <1>5, <2>2, <2>3
<1>7. PICK l \in Place : l # "strike" /\ Goto(r, l)
  BY <1>2
<1>8. ReqTypes' /\ (\A q \in Req : q # r => req'[q] = req[q]) /\ req'[r].at # "strike"
  BY <1>1, <1>2, <1>7, GotoMoves
<1>9. Pending' = Pending /\ \A b \in Block : Striking(b)' = Striking(b)
  BY <1>2, <1>8, SamePending
<1>10. \A b \in Block : Strikes(b)' \in 0..Strikes(b)
  BY <1>1, <1>2, OthersAddNone
<1> QED BY <1>2, <1>6, <1>8, <1>9, <1>10, QuietKeeps

\* The sweeps, and time.
LEMMA ClockKeeps ==
  ASSUME IInv, BP!IInv', Sweep \/ Tick \/ UNCHANGED vars
  PROVE  IInv'
<1>1. ReqTypes /\ WindowTypes /\ BP!IInv
  BY DEF IInv
<1>2. UNCHANGED req /\ UNCHANGED faults
  BY DEF Sweep, Tick, vars
<1>3. /\ ReqTypes'
      /\ Pending' = Pending /\ \A b \in Block : Striking(b)' = Striking(b)
  BY <1>1, <1>2 DEF ReqTypes, Pending, Striking, At, Of
<1>4. B!Sweep(0) \/ B!Tick \/ UNCHANGED book
  BY DEF Sweep, Tick, vars
<1>5. \/ AgentWindow!Sweep(0) /\ UNCHANGED lookupHits
      \/ LookupWindow!Sweep(0) /\ UNCHANGED agentHits
      \/ AgentWindow!Tick /\ LookupWindow!Tick
      \/ UNCHANGED windows
  BY DEF Sweep, Tick, vars
<1>6. \A b \in Block : Strikes(b)' \in 0..Strikes(b)
  BY <1>1, <1>4, OthersAddNone
<1>7. WindowTypes' /\ \A k \in AgentKeys : Len(agentHits'[k]) \in 0..Len(agentHits[k])
  BY <1>1, <1>5, OthersCountNone
<1>8. \A b \in Block : \A k \in FaultKeys(b) : Len(agentHits'[k]) <= Len(agentHits[k])
  BY <1>7, CountTypes
<1> QED BY <1>2, <1>3, <1>6, <1>7, <1>8, QuietKeeps

LEMMA StepKeeps == IInv /\ [Next]_vars => IInv'
<1> SUFFICES ASSUME IInv, [Next]_vars PROVE IInv'
  OBVIOUS
<1>1. BP!IInv'
  BY BookStep, BookKept DEF IInv
<1>2. ASSUME NEW r \in Req, \E a \in Addr, w \in Way : Check(r, a, w) PROVE IInv'
  BY <1>1, <1>2, CheckKeeps
<1>3. ASSUME NEW r \in Req, Note(r) \/ AskAgain(r) \/ Trip(r) \/ Refuse(r) \/ Leave(r)
      PROVE  IInv'
  BY <1>1, <1>3, BookStepKeeps
<1>4. ASSUME NEW r \in Req, Hit(r) PROVE IInv'
  BY <1>1, <1>4, HitKeeps
<1>5. ASSUME NEW r \in Req, Fault(r) PROVE IInv'
  BY <1>1, <1>5, FaultKeeps
<1>6. ASSUME NEW r \in Req, Strike(r) PROVE IInv'
  BY <1>1, <1>6, StrikeKeeps
<1>7. CASE Sweep \/ Tick \/ UNCHANGED vars
  BY <1>1, <1>7, ClockKeeps
<1> QED BY <1>2, <1>3, <1>4, <1>5, <1>6, <1>7 DEF Next

\* The invariant holds however admissions, faults, strikes and sweeps interleave.
THEOREM Invariance == Spec => []IInv
BY Initially, StepKeeps, PTL DEF Spec

\* Every handler is where Admit, noteFault or the relay's upgrade can be; the book
\* and the windows hold what Banbook and Window may hold, a full window no more
\* than its limit, for any requests in parallel.
THEOREM TypeCorrect == Spec => []TypeOK
<1>1. IInv => TypeOK
  <2> SUFFICES ASSUME IInv PROVE TypeOK
    OBVIOUS
  <2>1. BP!TypeOK
    BY DEF IInv, BP!IInv
  <2>2. B!TypeOK
    BY <2>1 DEF B!TypeOK, BP!TypeOK, B!Entry, BP!Entry, B!OldAge, BP!OldAge,
                B!Top, BP!Top, B!Cardinality, BP!Cardinality
  <2> QED BY <2>2 DEF IInv, TypeOK, ReqTypes, WindowTypes, FaultTypes
<1> QED BY <1>1, Invariance, PTL

\* A6 (signal/handler.go:72-74): a block has to fault as often as the window
\* allows, and once more for every strike it has on record.  This is so however
\* many requests check, count and strike at the same time, whatever the window
\* forgets in between and whichever entries the book evicts.
THEOREM StrikesAlwaysEarned == Spec => []StrikesAreEarned
<1>1. IInv => StrikesAreEarned
  <2> SUFFICES ASSUME IInv, NEW b \in DOMAIN entries, entries[b].strikes > 0
               PROVE  AgentLimit > 0 /\ entries[b].strikes + AgentLimit <= faults[b]
    BY DEF StrikesAreEarned
  <2>1. b \in Block
    BY DEF IInv, BP!IInv, BP!TypeOK
  <2>2. /\ entries[b].strikes \in 0..Len(Ladder) /\ Strikes(b) = entries[b].strikes
        /\ Cardinality(Striking(b)) \in Nat /\ AgentLimit \in Nat /\ Len(Ladder) \in Nat
    BY <2>1, CountTypes DEF Strikes
  <2>3. Dealt(b) >= entries[b].strikes /\ Dealt(b) \in Nat
    BY <2>2 DEF Dealt
  <2>4. AgentLimit > 0 /\ Told(Dealt(b) + AgentLimit) <= faults[b]
    BY <2>1, <2>2, <2>3 DEF IInv, Counts, Earned
  <2> QED BY <2>1, <2>2, <2>3, <2>4, CountTypes DEF Told, EnoughFaults
<1> QED BY <1>1, Invariance, PTL

-----------------------------------------------------------------------------
(***************************************************************************)
(* What is proved of the book alone holds of the book in use.              *)
(***************************************************************************)
\* The handlers and the sweep use the book as Banbook says: their steps are its
\* own calls, so whatever holds of Banbook holds here.
THEOREM UsesBanbook == Spec => BP!Spec
<1>1. Init => BP!Init
  BY DEF Init, B!Init, BP!Init
<1>2. IInv /\ [Next]_vars => [BP!Next]_(BP!vars)
  BY BookStep DEF IInv
<1> QED BY <1>1, <1>2, Invariance, PTL DEF Spec, BP!Spec

\* Under any load of requests the gauge covers the bans (guard.go:199-201), no soft
\* strike bans for long (A5), and a running ban is lost only by an eviction from a
\* book full of bans of which it ends first (guard.go:160-161), and moved only by
\* strikes on its own key, which may bring its end forward.
THEOREM BansStand == Spec => [](BP!GaugeCovers /\ BP!SoftBansCapped) /\ BP!BansHeld
<1>1. BP!Spec => []BP!GaugeCovers
  BY BP!GaugeAlwaysCovers, BookConstants
<1>2. BP!Spec => []BP!SoftBansCapped
  BY BP!SoftBansAlwaysCapped, BookConstants
<1>3. BP!Spec => BP!BansHeld
  BY BP!BansAlwaysHeld, BookConstants
<1> QED BY <1>1, <1>2, <1>3, UsesBanbook, PTL

-----------------------------------------------------------------------------
(***************************************************************************)
(* How long a ban may be.                                                  *)
(***************************************************************************)
\* A ban longer than any of the soft ladder's is no longer than the strikes on its
\* record account for.
Fits ==
  \A k \in DOMAIN entries : entries[k].until > B!Top(SoftLadder) =>
    entries[k].strikes > 0 /\ entries[k].until <= Ladder[entries[k].strikes]

\* Bans run down, and a strike sets the ban to the rung that it has come to.
LEMMA FitsKept ==
  ASSUME BP!IInv, BP!IInv', Fits, [BP!Next]_(BP!vars)
  PROVE  Fits'
<1> DEFINE top == B!Top(SoftLadder)
           Fit(e) == e.until > top => e.strikes > 0 /\ e.until <= Ladder[e.strikes]
<1>1. /\ \A n \in 1..Len(SoftLadder) : SoftLadder[n] \in Nat /\ SoftLadder[n] <= top
      /\ top \in Nat /\ Len(SoftLadder) \in Nat \ {0} /\ Len(Ladder) \in Nat \ {0}
      /\ \A n \in 1..Len(Ladder) : Ladder[n] \in Nat
  <2>1. /\ Len(SoftLadder) \in Nat \ {0} /\ Len(Ladder) \in Nat \ {0}
        /\ DOMAIN SoftLadder = 1..Len(SoftLadder)
        /\ \A n \in 1..Len(SoftLadder) : SoftLadder[n] \in Nat
        /\ \A n \in 1..Len(Ladder) : Ladder[n] \in Nat
    BY BookAssumption
  <2>2. \A n \in 1..Len(SoftLadder) : SoftLadder[n] <= SoftLadder[Len(SoftLadder)]
    <3> SUFFICES ASSUME NEW n \in 1..Len(SoftLadder)
                 PROVE  SoftLadder[n] <= SoftLadder[Len(SoftLadder)]
      OBVIOUS
    <3>1. \A i, j \in 1..Len(SoftLadder) : i < j => SoftLadder[i] <= SoftLadder[j]
      BY <2>1, BookAssumption DEF B!Rising
    <3>2. PICK l \in Nat \ {0} : l = Len(SoftLadder)
      BY <2>1
    <3>3. n \in 1..l /\ l \in 1..l
      BY <3>2
    <3>4. SoftLadder[n] \in Nat
      BY <2>1
    <3>5. CASE n = l
      BY <3>2, <3>4, <3>5
    <3>6. CASE n < l
      BY <3>1, <3>2, <3>3, <3>6
    <3> QED BY <3>3, <3>5, <3>6
  <2> QED BY <2>1, <2>2 DEF B!Top
<1>2. \A k \in DOMAIN entries :
        /\ Fit(entries[k]) /\ entries[k] \in BP!Entry
        /\ entries[k].until \in Int /\ entries[k].strikes \in 0..Len(Ladder)
        /\ entries[k].soft \in 0..Len(SoftLadder)
  <2>1. BP!Top(Ladder) \in Nat
    BY BookAssumption DEF BP!Top
  <2> QED BY <2>1 DEF Fits, BP!IInv, BP!TypeOK, BP!Entry
<1>3. (\A k \in DOMAIN entries' : Fit(entries'[k])) => Fits'
  BY DEF Fits, B!Top
<1> HIDE DEF top
<1>4. ASSUME NEW k \in DOMAIN entries, BP!Saw(k) PROVE Fits'
  <2>1. DOMAIN entries' = DOMAIN entries
    BY <1>4 DEF BP!Saw
  <2>2. entries'[k].until = entries[k].until /\ entries'[k].strikes = entries[k].strikes
    BY <1>2, <1>4 DEF BP!Saw, BP!Entry
  <2>3. \A j \in DOMAIN entries : j # k => entries'[j] = entries[j]
    BY <1>4 DEF BP!Saw
  <2>4. \A j \in DOMAIN entries' : Fit(entries'[j])
    BY <1>2, <2>1, <2>2, <2>3
  <2> QED BY <1>3, <2>4
<1>5. ASSUME UNCHANGED entries PROVE Fits'
  BY <1>2, <1>3, <1>5
<1>6. ASSUME NEW k \in Block, BP!Blocked(k) \/ BP!NoteRejected(k) PROVE Fits'
  BY <1>4, <1>5, <1>6 DEF BP!Blocked, BP!NoteRejected, BP!IsBlocked, BP!BannedKeys
<1>7. ASSUME NEW k \in Block, NEW soft \in BOOLEAN, BP!StrikeAs(k, soft) PROVE Fits'
  <2>1. PICK gone \in BP!Evicted(k) :
          entries' = [j \in (DOMAIN entries \ gone) \cup {k} |->
                        IF j = k THEN BP!Struck(BP!Found(k), soft) ELSE entries[j]]
    BY <1>7 DEF BP!StrikeAs
  <2>2. BP!Found(k).strikes \in 0..Len(Ladder) /\ BP!Found(k).soft \in 0..Len(SoftLadder)
    <3>1. CASE k \in DOMAIN entries
      BY <1>1, <1>2, <3>1 DEF BP!Found, BP!Entry
    <3>2. CASE k \notin DOMAIN entries
      BY <1>1, <3>2 DEF BP!Found, BP!NewEntry
    <3> QED BY <3>1, <3>2
  <2>3. Fit(BP!Struck(BP!Found(k), soft))
    <3> DEFINE f == BP!Found(k)
    <3> HIDE DEF f
    <3>1. f.strikes \in 0..Len(Ladder) /\ f.soft \in 0..Len(SoftLadder)
      BY <2>2 DEF f
    <3>2. CASE soft
      <4>1. BP!NextRung(f.soft, SoftLadder) \in 1..Len(SoftLadder)
        BY <1>1, <3>1 DEF BP!NextRung
      <4>2. BP!Struck(f, soft).until <= top /\ BP!Struck(f, soft).until \in Nat
        BY <1>1, <3>2, <4>1 DEF BP!Struck
      <4> QED BY <1>1, <4>2 DEF f
    <3>3. CASE ~soft
      <4>1. BP!NextRung(f.strikes, Ladder) \in 1..Len(Ladder)
        BY <1>1, <3>1 DEF BP!NextRung
      <4>2. /\ BP!Struck(f, soft).strikes = BP!NextRung(f.strikes, Ladder)
            /\ BP!Struck(f, soft).until = Ladder[BP!NextRung(f.strikes, Ladder)]
        BY <3>3 DEF BP!Struck
      <4> QED BY <1>1, <4>1, <4>2 DEF f
    <3> QED BY <3>2, <3>3
  <2>4. \A j \in DOMAIN entries' : Fit(entries'[j])
    BY <1>2, <2>1, <2>3
  <2> QED BY <1>3, <2>4
<1>8. ASSUME NEW lag \in 0..0, BP!Sweep(lag) PROVE Fits'
  <2>1. /\ DOMAIN entries' \subseteq DOMAIN entries
        /\ \A j \in DOMAIN entries' : entries'[j] = entries[j]
    BY <1>8 DEF BP!Sweep, BP!Without
  <2>2. \A j \in DOMAIN entries' : Fit(entries'[j])
    BY <1>2, <2>1
  <2> QED BY <1>3, <2>2
<1>9. ASSUME BP!Tick PROVE Fits'
  <2>1. DOMAIN entries' = DOMAIN entries
    BY <1>9 DEF BP!Tick
  <2>2. ASSUME NEW j \in DOMAIN entries PROVE Fit(entries'[j])
    <3>1. /\ entries'[j].strikes = entries[j].strikes
          /\ entries'[j].until \in {entries[j].until, entries[j].until - 1}
      <4>1. entries'[j] = [entries[j] EXCEPT
              !.until = IF entries[j].until > -0 THEN entries[j].until - 1
                        ELSE entries[j].until,
              !.struck = BP!Older(entries[j].struck), !.seen = BP!Older(entries[j].seen)]
        BY <1>9 DEF BP!Tick
      <4>2. entries[j] \in BP!Entry
        BY <1>2
      <4> QED BY <4>1, <4>2 DEF BP!Entry
    <3>2. entries'[j].until <= entries[j].until /\ entries'[j].until \in Int
      BY <1>2, <3>1
    <3> QED BY <1>1, <1>2, <3>1, <3>2
  <2> QED BY <1>3, <2>1, <2>2
<1> QED BY <1>5, <1>6, <1>7, <1>8, <1>9
        DEF BP!Next, BP!vars, BP!Strike, BP!SoftStrike

\* A5 and A6: who is banned for longer than rate trips are worth has faulted once for
\* every rung to that ban and as often as the window allows besides, for any ladders,
\* limits, blocks and number of requests at a time.
THEOREM LongBansAlwaysEarned == Spec => []LongBansAreEarned
<1>1. Init => Fits
  BY DEF Init, B!Init, Fits
<1>2. IInv /\ IInv' /\ Fits /\ [Next]_vars => Fits'
  BY BookStep, FitsKept DEF IInv
<1>3. IInv /\ StrikesAreEarned /\ Fits => LongBansAreEarned
  <2> SUFFICES ASSUME IInv, StrikesAreEarned, Fits,
                      NEW b \in DOMAIN entries, entries[b].until > B!Top(SoftLadder)
               PROVE  \E n \in DOMAIN Ladder :
                        /\ entries[b].until <= Ladder[n]
                        /\ AgentLimit > 0 /\ n + AgentLimit <= faults[b]
    BY DEF LongBansAreEarned
  <2> DEFINE n == entries[b].strikes
  <2>1. n > 0 /\ entries[b].until <= Ladder[n]
    BY DEF Fits
  <2>2. n \in 0..Len(Ladder) /\ DOMAIN Ladder = 1..Len(Ladder) /\ Len(Ladder) \in Nat
    BY BookAssumption DEF IInv, BP!IInv, BP!TypeOK, BP!Entry
  <2>3. AgentLimit > 0 /\ n + AgentLimit <= faults[b]
    BY <2>1 DEF StrikesAreEarned
  <2>4. n \in DOMAIN Ladder
    BY <2>1, <2>2
  <2> QED BY <2>1, <2>3, <2>4
<1> QED BY <1>1, <1>2, <1>3, Invariance, StrikesAlwaysEarned, PTL DEF Spec
=============================================================================
