---------------------------- MODULE RegistryProofs ----------------------------
(***************************************************************************)
(* Proofs about Registry for every set of keys, connections, slots and     *)
(* addresses and every lease: type correctness, KeysBelong, the takeover   *)
(* rule A1 and the refinement of Directory, all from one invariant.        *)
(***************************************************************************)
EXTENDS Registry, TLAPS

\* The inductive invariant: whatever a key leads to is an object some
\* connection built, and it lists that key.
IInv ==
  /\ TypeOK
  /\ \A k \in Key : Present(k) => /\ k \in obj[slots[k]].keys
                                  /\ obj[slots[k]].conn \in Conn

-----------------------------------------------------------------------------
\* Deleting slots only ever unbinds keys, and of a slot that lists all the keys
\* that lead to it it unbinds every one.
LEMMA WithoutFacts ==
  ASSUME IInv, NEW S
  PROVE  /\ Without(S) \in [Key -> Slot \cup {NoSlot}]
         /\ \A k \in Key : Without(S)[k] = IF slots[k] \in S /\ Present(k)
                                             THEN NoSlot ELSE slots[k]
<1>1. Without(S) \in [Key -> Slot \cup {NoSlot}]
  BY DEF IInv, TypeOK, Without
<1>2. ASSUME NEW k \in Key
      PROVE  Without(S)[k] = IF slots[k] \in S /\ Present(k)
                               THEN NoSlot ELSE slots[k]
  BY <1>2 DEF IInv, TypeOK, Without, Present
<1> QED BY <1>1, <1>2

\* A step that only deletes slots keeps the invariant.
LEMMA DeletingKeeps ==
  ASSUME IInv, NEW S, slots' = Without(S), UNCHANGED <<obj, life>>
  PROVE  IInv'
<1>1. TypeOK'
  BY WithoutFacts DEF IInv, TypeOK
<1>2. ASSUME NEW k \in Key, Present(k)'
      PROVE  (k \in obj[slots[k]].keys /\ obj[slots[k]].conn \in Conn)'
  BY <1>2, WithoutFacts DEF IInv, Present
<1> QED BY <1>1, <1>2 DEF IInv

LEMMA Typing == Init => IInv
  BY TTLAssumption DEF Init, IInv, TypeOK, SlotRecord, Unused, Present

LEMMA UpsertKeeps ==
  ASSUME IInv, NEW s \in Slot, NEW c \in Conn, NEW ip \in IP,
         NEW K \in SUBSET Key, Upsert(s, c, ip, K)
  PROVE  IInv'
<1> DEFINE W == Without(StaleOn(K))
<1>1. /\ slots' = [k \in Key |-> IF k \in K THEN s ELSE W[k]]
      /\ obj' = [obj EXCEPT ![s] = [conn |-> c, ip |-> ip, keys |-> K]]
      /\ life' = [life EXCEPT ![s] = TTL]
      /\ \A k \in Key : slots[k] # s
  BY DEF Upsert
<1>2. /\ W \in [Key -> Slot \cup {NoSlot}]
      /\ \A k \in Key : W[k] \in {slots[k], NoSlot}
  BY WithoutFacts
<1> HIDE DEF W
<1>3. TypeOK'
  <2>1. [conn |-> c, ip |-> ip, keys |-> K] \in SlotRecord
    BY DEF SlotRecord
  <2>2. obj' \in [Slot -> SlotRecord]
    BY <1>1, <2>1 DEF IInv, TypeOK
  <2>3. slots' \in [Key -> Slot \cup {NoSlot}]
    BY <1>1, <1>2
  <2>4. life' \in [Slot -> 0..TTL]
    BY <1>1, TTLAssumption DEF IInv, TypeOK
  <2> QED BY <2>2, <2>3, <2>4 DEF TypeOK
<1>4. ASSUME NEW k \in Key, Present(k)'
      PROVE  (k \in obj[slots[k]].keys /\ obj[slots[k]].conn \in Conn)'
  <2>1. CASE k \in K
    BY <1>1, <2>1 DEF IInv, TypeOK
  <2>2. CASE k \notin K
    <3>1. slots'[k] = slots[k] /\ Present(k)
      BY <1>1, <1>2, <1>4, <2>2 DEF Present
    <3>2. obj'[slots[k]] = obj[slots[k]]
      BY <1>1, <3>1 DEF IInv, TypeOK, Present
    <3> QED BY <3>1, <3>2 DEF IInv
  <2> QED BY <2>1, <2>2
<1> QED BY <1>3, <1>4 DEF IInv

LEMMA RenewalKeeps ==
  ASSUME IInv, UNCHANGED <<slots, obj>>, life' \in [Slot -> 0..TTL]
  PROVE  IInv'
  BY DEF IInv, TypeOK, Present

LEMMA TouchLife ==
  ASSUME IInv, NEW k \in Key, Touch(k)
  PROVE  life' \in [Slot -> 0..TTL]
<1>1. TTL \in 0..TTL
  BY TTLAssumption
<1> QED BY <1>1 DEF IInv, TypeOK, Touch, Present

LEMMA TickLife ==
  ASSUME IInv, Tick
  PROVE  life' \in [Slot -> 0..TTL]
<1>1. \A s \in Slot : life[s] \in 0..TTL
  BY DEF IInv, TypeOK
<1>2. \A s \in Slot : (IF life[s] > 0 THEN life[s] - 1 ELSE 0) \in 0..TTL
  BY <1>1, TTLAssumption
<1> QED BY <1>2 DEF Tick, Aged

LEMMA StepKeeps == IInv /\ [Next]_vars => IInv'
<1> SUFFICES ASSUME IInv, [Next]_vars PROVE IInv'
  OBVIOUS
<1>1. ASSUME NEW s \in Slot, NEW c \in Conn, NEW ip \in IP,
             NEW K \in SUBSET Key, Upsert(s, c, ip, K)
      PROVE  IInv'
  BY <1>1, UpsertKeeps
<1>2. ASSUME NEW c \in Conn, NEW K \in SUBSET Key, UpsertRefused(c, K)
      PROVE  IInv'
  BY <1>2, DeletingKeeps DEF UpsertRefused
<1>3. ASSUME NEW k \in Key, Touch(k)
      PROVE  IInv'
  <2>1. UNCHANGED <<slots, obj>>
    BY <1>3 DEF Touch
  <2> QED BY <1>3, <2>1, TouchLife, RenewalKeeps
<1>4. ASSUME NEW k \in Key, Get(k)
      PROVE  IInv'
  BY <1>4, DeletingKeeps DEF Get
<1>5. ASSUME NEW k \in Key, NEW c \in Conn, Remove(k, c)
      PROVE  IInv'
  BY <1>5, DeletingKeeps DEF Remove
<1>6. CASE Sweep
  BY <1>6, DeletingKeeps DEF Sweep
<1>7. CASE Tick
  <2>1. UNCHANGED <<slots, obj>>
    BY <1>7 DEF Tick
  <2> QED BY <1>7, <2>1, TickLife, RenewalKeeps
<1>8. CASE UNCHANGED vars
  BY <1>8 DEF vars, IInv, TypeOK, Present
<1> QED BY <1>1, <1>2, <1>3, <1>4, <1>5, <1>6, <1>7, <1>8 DEF Next

LEMMA Invariance == Spec => []IInv
  BY Typing, StepKeeps, PTL DEF Spec

\* The state of the registry is well typed: the map of keys (registry.go:24)
\* leads to slot objects only, and no lease is longer than the TTL.
THEOREM TypeCorrect == Spec => []TypeOK
<1>1. IInv => TypeOK
  BY DEF IInv
<1> QED BY Invariance, <1>1, PTL

\* Every key leads to a slot that lists it, so deleteSlotLocked
\* (registry.go:100-106) of that slot reaches the key.
THEOREM KeysAlwaysBelong == Spec => []KeysBelong
<1>1. IInv => KeysBelong
  BY DEF IInv, KeysBelong
<1> QED BY Invariance, <1>1, PTL

-----------------------------------------------------------------------------
(***************************************************************************)
(* What each step does to the answers the registry gives.                  *)
(***************************************************************************)

\* A slot that keeps its key and some lease still answers for it.
LEMMA StillFound ==
  ASSUME IInv, NEW k \in Key, Found(k), slots'[k] = slots[k],
         obj'[slots[k]] = obj[slots[k]], life'[slots[k]] > 0
  PROVE  Found(k)' /\ HolderOf(k)' = HolderOf(k)
  BY DEF Found, HolderOf, Present, Expired

\* Deleting expired slots changes no answer and no lease.
LEMMA DeletingStale ==
  ASSUME IInv, NEW S, \A t \in S : t \in Slot => Expired(t),
         slots' = Without(S), UNCHANGED <<obj, life>>
  PROVE  \A k \in Key : HolderOf(k)' = HolderOf(k) /\ LeaseOf(k)' = LeaseOf(k)
<1> SUFFICES ASSUME NEW k \in Key
             PROVE  HolderOf(k)' = HolderOf(k) /\ LeaseOf(k)' = LeaseOf(k)
  OBVIOUS
<1>1. CASE Found(k)
  <2>1. slots[k] \in Slot /\ slots[k] \notin S
    BY <1>1 DEF IInv, TypeOK, Found, Present
  <2>2. slots'[k] = slots[k]
    BY <2>1, WithoutFacts
  <2> QED BY <1>1, <2>2 DEF HolderOf, LeaseOf, Found, Present, Expired
<1>2. CASE ~Found(k)
  <2>1. slots'[k] \in {slots[k], NoSlot}
    BY WithoutFacts
  <2>2. ~Found(k)'
    BY <1>2, <2>1 DEF Found, Present, Expired
  <2> QED BY <1>2, <2>2 DEF HolderOf, LeaseOf
<1> QED BY <1>1, <1>2

\* An accepted Upsert answers c, for a whole lease, on every key of K, where
\* nobody or c itself was the answer, and changes no other answer.
LEMMA UpsertAnswers ==
  ASSUME IInv, NEW s \in Slot, NEW c \in Conn, NEW ip \in IP,
         NEW K \in SUBSET Key, Upsert(s, c, ip, K), NEW k \in Key
  PROVE  /\ k \in K => /\ HolderOf(k) \in {Nobody, c}
                       /\ HolderOf(k)' = c /\ LeaseOf(k)' = TTL
         /\ k \notin K => /\ HolderOf(k)' = HolderOf(k)
                          /\ LeaseOf(k)' = LeaseOf(k)
<1> DEFINE W == Without(StaleOn(K))
<1>1. /\ slots' = [j \in Key |-> IF j \in K THEN s ELSE W[j]]
      /\ obj' = [obj EXCEPT ![s] = [conn |-> c, ip |-> ip, keys |-> K]]
      /\ life' = [life EXCEPT ![s] = TTL]
      /\ \A j \in Key : slots[j] # s
      /\ Conflicts(c, K) = {}
  BY DEF Upsert
<1>2. \A j \in Key : W[j] = IF slots[j] \in StaleOn(K) /\ Present(j)
                              THEN NoSlot ELSE slots[j]
  BY WithoutFacts
<1>3. \A t \in StaleOn(K) : Expired(t)
  BY DEF StaleOn
<1> HIDE DEF W
<1>4. ASSUME k \in K
      PROVE  /\ HolderOf(k) \in {Nobody, c}
             /\ HolderOf(k)' = c /\ LeaseOf(k)' = TTL
  <2>1. HolderOf(k) \in {Nobody, c}
    BY <1>1, <1>4 DEF Conflicts, HolderOf, Found
  <2>2. slots'[k] = s /\ life'[s] = TTL /\ obj'[s].conn = c
    BY <1>1, <1>4 DEF IInv, TypeOK
  <2>3. Found(k)'
    BY <2>2, TTLAssumption, NoSlotAssumption DEF Found, Present, Expired
  <2> QED BY <2>1, <2>2, <2>3 DEF HolderOf, LeaseOf
<1>5. ASSUME k \notin K
      PROVE  HolderOf(k)' = HolderOf(k) /\ LeaseOf(k)' = LeaseOf(k)
  <2>1. CASE Found(k)
    <3>1. slots'[k] = slots[k]
      BY <1>1, <1>2, <1>3, <1>5, <2>1 DEF Found
    <3>2. obj'[slots[k]] = obj[slots[k]] /\ life'[slots[k]] = life[slots[k]]
      BY <1>1, <2>1 DEF IInv, TypeOK, Found, Present
    <3> QED BY <2>1, <3>1, <3>2 DEF HolderOf, LeaseOf, Found, Present, Expired
  <2>2. CASE ~Found(k)
    <3>1. slots'[k] \in {slots[k], NoSlot}
      BY <1>1, <1>2, <1>5
    <3>2. ~Found(k)'
      <4>1. CASE slots'[k] = NoSlot
        BY <4>1 DEF Found, Present
      <4>2. CASE slots'[k] = slots[k] /\ Present(k)
        <5>1. life'[slots[k]] = life[slots[k]]
          BY <1>1, <4>2 DEF IInv, TypeOK, Present
        <5> QED BY <2>2, <4>2, <5>1 DEF Found, Present, Expired
      <4> QED BY <3>1, <4>1, <4>2 DEF Present
    <3> QED BY <2>2, <3>2 DEF HolderOf, LeaseOf
  <2> QED BY <2>1, <2>2
<1> QED BY <1>4, <1>5

\* Touch renews the whole slot: every key that leads to it answers its
\* connection for a whole lease again, and no other answer changes.
LEMMA TouchAnswers ==
  ASSUME IInv, NEW j \in Key, Touch(j), NEW k \in Key
  PROVE  /\ Present(j) /\ slots[k] = slots[j] =>
              /\ HolderOf(k) \in {Nobody, obj[slots[j]].conn}
              /\ HolderOf(k)' = obj[slots[j]].conn /\ LeaseOf(k)' = TTL
         /\ ~Present(j) \/ slots[k] # slots[j] =>
              HolderOf(k)' = HolderOf(k) /\ LeaseOf(k)' = LeaseOf(k)
<1>1. slots' = slots /\ obj' = obj
  BY DEF Touch
<1>2. ASSUME Present(j), slots[k] = slots[j]
      PROVE  /\ HolderOf(k) \in {Nobody, obj[slots[j]].conn}
             /\ HolderOf(k)' = obj[slots[j]].conn /\ LeaseOf(k)' = TTL
  <2>1. slots[j] \in Slot /\ life'[slots[j]] = TTL
    BY <1>2 DEF Touch, IInv, TypeOK, Present
  <2>2. Found(k)'
    BY <1>1, <1>2, <2>1, TTLAssumption DEF Found, Present, Expired
  <2> QED BY <1>1, <1>2, <2>1, <2>2 DEF HolderOf, LeaseOf
<1>3. ASSUME Present(j), slots[k] # slots[j], Present(k)
      PROVE  HolderOf(k)' = HolderOf(k) /\ LeaseOf(k)' = LeaseOf(k)
  <2>1. life'[slots[k]] = life[slots[k]]
    BY <1>3 DEF Touch, IInv, TypeOK, Present
  <2> QED BY <1>1, <2>1 DEF HolderOf, LeaseOf, Found, Present, Expired
<1>4. ASSUME ~Present(k)
      PROVE  HolderOf(k)' = HolderOf(k) /\ LeaseOf(k)' = LeaseOf(k)
  BY <1>1, <1>4 DEF HolderOf, LeaseOf, Found, Present
<1>5. ASSUME ~Present(j)
      PROVE  HolderOf(k)' = HolderOf(k) /\ LeaseOf(k)' = LeaseOf(k)
  <2>1. life' = life
    BY <1>5 DEF Touch
  <2> QED BY <1>1, <2>1 DEF HolderOf, LeaseOf, Found, Present, Expired
<1> QED BY <1>2, <1>3, <1>4, <1>5

\* Remove by c makes the keys that led to c's slot unanswered, and changes no
\* other answer.
LEMMA RemoveAnswers ==
  ASSUME IInv, NEW j \in Key, NEW c \in Conn, Remove(j, c), NEW k \in Key
  PROVE  /\ slots[k] = slots[j] /\ HolderOf(k) = c =>
              HolderOf(k)' = Nobody /\ LeaseOf(k)' = 0
         /\ ~(slots[k] = slots[j] /\ HolderOf(k) = c) =>
              HolderOf(k)' = HolderOf(k) /\ LeaseOf(k)' = LeaseOf(k)
<1> DEFINE S == {slots[j]} \cap {s \in Slot : obj[s].conn = c}
<1>1. slots' = Without(S) /\ obj' = obj /\ life' = life
  BY DEF Remove
<1>2. slots'[k] = IF slots[k] \in S /\ Present(k) THEN NoSlot ELSE slots[k]
  BY <1>1, WithoutFacts
<1>3. ASSUME slots[k] = slots[j], HolderOf(k) = c
      PROVE  HolderOf(k)' = Nobody /\ LeaseOf(k)' = 0
  <2>1. Present(k) /\ slots[k] \in S
    BY <1>3, NobodyAssumption DEF HolderOf, Found, IInv, TypeOK, Present
  <2>2. ~Present(k)'
    BY <1>2, <2>1 DEF Present
  <2> QED BY <2>2 DEF HolderOf, LeaseOf, Found
<1>4. ASSUME ~(slots[k] = slots[j] /\ HolderOf(k) = c)
      PROVE  HolderOf(k)' = HolderOf(k) /\ LeaseOf(k)' = LeaseOf(k)
  <2>1. CASE slots'[k] = slots[k]
    BY <1>1, <2>1 DEF HolderOf, LeaseOf, Found, Present, Expired
  <2>2. CASE slots'[k] # slots[k]
    <3>1. slots[k] = slots[j] /\ obj[slots[k]].conn = c /\ slots'[k] = NoSlot
      BY <1>2, <2>2
    <3>2. ~Found(k) /\ ~Found(k)'
      BY <1>4, <3>1 DEF HolderOf, Found, Present
    <3> QED BY <3>2 DEF HolderOf, LeaseOf
  <2> QED BY <2>1, <2>2
<1> QED BY <1>3, <1>4

\* Tick shortens every lease by one and ends those that had one unit left.
LEMMA TickAnswers ==
  ASSUME IInv, Tick, NEW k \in Key
  PROVE  /\ LeaseOf(k)' = IF LeaseOf(k) > 0 THEN LeaseOf(k) - 1 ELSE 0
         /\ HolderOf(k)' = IF LeaseOf(k) > 1 THEN HolderOf(k) ELSE Nobody
<1>1. slots' = slots /\ obj' = obj
  BY DEF Tick
<1>2. CASE Present(k)
  <2>1. /\ life[slots[k]] \in 0..TTL
        /\ life'[slots[k]] = IF life[slots[k]] > 0 THEN life[slots[k]] - 1 ELSE 0
    BY <1>2 DEF Tick, Aged, IInv, TypeOK, Present
  <2>2. life[slots[k]] \in Nat
    BY <2>1, TTLAssumption
  <2> QED BY <1>1, <1>2, <2>1, <2>2 DEF HolderOf, LeaseOf, Found, Present, Expired
<1>3. CASE ~Present(k)
  BY <1>1, <1>3 DEF HolderOf, LeaseOf, Found, Present
<1> QED BY <1>2, <1>3

-----------------------------------------------------------------------------
(***************************************************************************)
(* A1: no silent takeover.                                                 *)
(***************************************************************************)

\* The slots that UpsertRefused, Get and Sweep delete are all expired.
LEMMA InvisibleSteps ==
  ASSUME IInv,
         \/ \E c \in Conn, K \in SUBSET Key : UpsertRefused(c, K)
         \/ \E k \in Key : Get(k)
         \/ Sweep
  PROVE  \A k \in Key : HolderOf(k)' = HolderOf(k) /\ LeaseOf(k)' = LeaseOf(k)
<1>1. ASSUME NEW c \in Conn, NEW K \in SUBSET Key, UpsertRefused(c, K)
      PROVE  \A k \in Key : HolderOf(k)' = HolderOf(k) /\ LeaseOf(k)' = LeaseOf(k)
  <2>1. PICK P \in SUBSET (K \ Conflicts(c, K)) : slots' = Without(StaleOn(P))
    BY <1>1 DEF UpsertRefused
  <2>2. \A t \in StaleOn(P) : Expired(t)
    BY DEF StaleOn
  <2>3. UNCHANGED <<obj, life>>
    BY <1>1 DEF UpsertRefused
  <2> QED BY <2>1, <2>2, <2>3, DeletingStale
<1>2. ASSUME NEW k \in Key, Get(k)
      PROVE  \A j \in Key : HolderOf(j)' = HolderOf(j) /\ LeaseOf(j)' = LeaseOf(j)
  BY <1>2, DeletingStale DEF Get
<1>3. ASSUME Sweep
      PROVE  \A k \in Key : HolderOf(k)' = HolderOf(k) /\ LeaseOf(k)' = LeaseOf(k)
  BY <1>3, DeletingStale DEF Sweep
<1> QED BY <1>1, <1>2, <1>3

\* What may make a key stop leading to the connection it led to.
LostRightly(k) == \/ life[slots[k]] = 1 /\ Tick
                  \/ \E j \in Key : Remove(j, HolderOf(k))

LEMMA TakeoverStep ==
  ASSUME IInv, Next, NEW k \in Key, HolderOf(k) \notin {Nobody, HolderOf(k)'}
  PROVE  LostRightly(k)
<1>1. Found(k) /\ Present(k)
  BY DEF HolderOf, Found
<1>2. ASSUME NEW s \in Slot, NEW c \in Conn, NEW ip \in IP,
             NEW K \in SUBSET Key, Upsert(s, c, ip, K)
      PROVE  FALSE
  BY <1>2, UpsertAnswers
<1>3. ASSUME NEW j \in Key, Touch(j)
      PROVE  FALSE
  BY <1>3, TouchAnswers
<1>4. ASSUME NEW j \in Key, NEW c \in Conn, Remove(j, c)
      PROVE  LostRightly(k)
  <2>1. c = HolderOf(k)
    BY <1>4, RemoveAnswers
  <2> QED BY <1>4, <2>1 DEF LostRightly
<1>5. CASE Tick
  <2>1. life[slots[k]] \in 0..TTL /\ life[slots[k]] # 0
    BY <1>1 DEF Found, Expired, Present, IInv, TypeOK
  <2>2. life[slots[k]] \in Nat
    BY <2>1, TTLAssumption
  <2>3. LeaseOf(k) = life[slots[k]]
    BY <1>1 DEF LeaseOf
  <2>4. ~(LeaseOf(k) > 1)
    BY <1>5, TickAnswers
  <2>5. life[slots[k]] = 1
    BY <2>1, <2>2, <2>3, <2>4
  <2> QED BY <1>5, <2>5 DEF LostRightly
<1> QED BY <1>2, <1>3, <1>4, <1>5, InvisibleSteps DEF Next

\* A1 (registry.go:32-34): whatever connections, keys, aliases and expiries are
\* involved, a key that leads to a connection stops doing so only by that
\* connection's own Remove or at the end of its lease.
THEOREM TakeoverNeverSilent == Spec => NoSilentTakeover
<1>1. ASSUME IInv, [Next]_vars
      PROVE  [\A k \in Key :
                HolderOf(k) \notin {Nobody, HolderOf(k)'} =>
                  \/ life[slots[k]] = 1 /\ Tick
                  \/ \E j \in Key : Remove(j, HolderOf(k))]_vars
  BY <1>1, TakeoverStep DEF LostRightly
<1> QED BY Invariance, <1>1, PTL DEF Spec, NoSilentTakeover

-----------------------------------------------------------------------------
(***************************************************************************)
(* Registry implements Directory.                                          *)
(***************************************************************************)

LEMMA RefinesInit == Init => D!Init
  BY DEF Init, D!Init, HolderOf, LeaseOf, Found, Present

LEMMA RefinesClaim ==
  ASSUME NEW c \in Conn, NEW K \in SUBSET Key,
         \A k \in K : /\ HolderOf(k) \in {Nobody, c}
                      /\ HolderOf(k)' = c /\ LeaseOf(k)' = TTL,
         \A k \in Key \ K : /\ HolderOf(k)' = HolderOf(k)
                            /\ LeaseOf(k)' = LeaseOf(k)
  PROVE  D!Next
<1>1. D!Claim(c, K)
  BY DEF D!Claim
<1> QED BY <1>1 DEF D!Next

LEMMA RefinesStep == IInv /\ [Next]_vars => [D!Next]_(D!vars)
<1> SUFFICES ASSUME IInv, [Next]_vars PROVE [D!Next]_(D!vars)
  OBVIOUS
<1>1. ASSUME NEW s \in Slot, NEW c \in Conn, NEW ip \in IP,
             NEW K \in SUBSET Key, Upsert(s, c, ip, K)
      PROVE  D!Next
  BY <1>1, UpsertAnswers, RefinesClaim
<1>2. ASSUME NEW j \in Key, Touch(j)
      PROVE  [D!Next]_(D!vars)
  <2> DEFINE K == {k \in Key : slots[k] = slots[j]}
  <2>1. CASE Present(j)
    <3>1. obj[slots[j]].conn \in Conn
      BY <2>1 DEF IInv
    <3>2. \A k \in K : /\ HolderOf(k) \in {Nobody, obj[slots[j]].conn}
                       /\ HolderOf(k)' = obj[slots[j]].conn
                       /\ LeaseOf(k)' = TTL
      BY <1>2, <2>1, TouchAnswers
    <3>3. \A k \in Key \ K : /\ HolderOf(k)' = HolderOf(k)
                             /\ LeaseOf(k)' = LeaseOf(k)
      BY <1>2, TouchAnswers
    <3> QED BY <3>1, <3>2, <3>3, RefinesClaim
  <2>2. CASE ~Present(j)
    BY <1>2, <2>2, TouchAnswers DEF D!vars
  <2> QED BY <2>1, <2>2
<1>3. ASSUME NEW j \in Key, NEW c \in Conn, Remove(j, c)
      PROVE  D!Next
  <2> DEFINE K == {k \in Key : slots[k] = slots[j] /\ HolderOf(k) = c}
  <2>1. \A k \in K : HolderOf(k)' = Nobody /\ LeaseOf(k)' = 0
    BY <1>3, RemoveAnswers
  <2>2. \A k \in Key \ K : /\ HolderOf(k)' = HolderOf(k)
                           /\ LeaseOf(k)' = LeaseOf(k)
    BY <1>3, RemoveAnswers
  <2>3. D!Release(c, K)
    BY <2>1, <2>2 DEF D!Release
  <2> QED BY <2>3 DEF D!Next
<1>4. CASE Tick
  <2>1. D!Pass
    BY <1>4, TickAnswers DEF D!Pass
  <2> QED BY <2>1 DEF D!Next
<1>5. CASE UNCHANGED vars
  BY <1>5 DEF vars, D!vars, HolderOf, LeaseOf, Found, Present, Expired
<1>6. CASE \/ \E c \in Conn, K \in SUBSET Key : UpsertRefused(c, K)
           \/ \E k \in Key : Get(k)
           \/ Sweep
  BY <1>6, InvisibleSteps DEF D!vars
<1> QED BY <1>1, <1>2, <1>3, <1>4, <1>5, <1>6 DEF Next

\* The registry implements Directory: every method is one claim, one release,
\* one lapse of leases, or nothing that a lookup could tell.
THEOREM RegistryImplementsDirectory == Spec => Refinement
<1> QED BY Invariance, RefinesInit, RefinesStep, PTL DEF Spec, Refinement, D!Spec
=============================================================================
