--------------------------- MODULE IntroducerProofs ---------------------------
(***************************************************************************)
(* Proofs about Introducer for every set of agent connections, lookups,    *)
(* keys and addresses, every hello and every TTL.  The inductive invariant *)
(* has two halves: AgentInv, of the registry and the agent handlers, and   *)
(* LookupInv, of the offers, the acks and the lookup handlers.             *)
(***************************************************************************)
EXTENDS Introducer, SequenceTheorems, TLAPS

\* No key leads to c.
Unlisted(c) == \A k \in Key : slots[k] # c

\* An agent is listed under all of its keys or under none, and under no other.
Whole ==
  \A c \in Conn : Unlisted(c) \/ \A k \in Key : slots[k] = c <=> k \in KeysOf(c)

\* An agent whose handler runs, and that has always renewed in time, is listed
\* with a lease that outlasts what it has left to ping.
Renewed ==
  \A c \in Conn : pc[c] \in Serving /\ c \notin lapsed =>
    pings[c] \in 1..life[c] /\ \A k \in KeysOf(c) : slots[k] = c

\* The types of the registry and of the agent handlers.
RegTypes == /\ slots \in [Key -> Conn \cup {None}]
            /\ life \in [Conn -> 0..TTL]

AgentTypes ==
  /\ pc \in [Conn -> HandlerState]
  /\ far \in [Conn -> {"up", "lost", "closed"}]
  /\ deadline \in [Conn -> 0..(TTL + Grace)]
  /\ pings \in [Conn -> 0..TTL]
  /\ lapsed \in SUBSET Conn

\* The registry's half: Whole makes a removal reach every key of a slot, which
\* EveryEntryServed needs when a handler leaves; Renewed is AgentStaysListed with
\* the lease it rests on.
AgentInv == RegTypes /\ AgentTypes /\ Whole /\ EveryEntryServed /\ Renewed

\* The keys of an agent are keys.
LEMMA KeysAreKeys == ASSUME NEW c \in Conn PROVE KeysOf(c) \in SUBSET Key
  BY HelloAssumption DEF KeysOf

\* deleteSlotLocked of the slots of S takes every key that leads to one of
\* them, because all the keys that lead to a slot are its own.
LEMMA WithoutIs ==
  ASSUME RegTypes, Whole, NEW S
  PROVE  /\ R!Without(S) \in [Key -> Conn \cup {None}]
         /\ \A k \in Key : R!Without(S)[k] =
              IF slots[k] \in S /\ slots[k] # None THEN None ELSE slots[k]
<1> SUFFICES ASSUME NEW k \in Key
             PROVE  /\ R!Without(S)[k] \in Conn \cup {None}
                    /\ R!Without(S)[k] =
                         IF slots[k] \in S /\ slots[k] # None THEN None ELSE slots[k]
  BY DEF R!Without
<1>1. CASE slots[k] = None
  BY <1>1 DEF R!Without
<1>2. CASE slots[k] \in Conn
  <2>1. k \in KeysOf(slots[k])
    BY <1>2 DEF Whole, Unlisted
  <2> QED BY <1>2, <2>1, NoneAssumption DEF R!Without
<1> QED BY <1>1, <1>2 DEF RegTypes

\* Deleting the slots S keeps the registry's half if every handler that goes on
\* serving without having lapsed keeps its slot, and one that stops serving
\* loses it.
LEMMA DroppingKeeps ==
  ASSUME AgentInv, NEW S, slots' = R!Without(S), UNCHANGED <<life, lapsed>>,
         UNCHANGED pings,
         \A c \in Conn : pc'[c] = pc[c] \/ (pc[c] \notin Serving /\ pc'[c] \notin Serving)
                         \/ (c \in S /\ pc'[c] \notin Serving),
         \A c \in Conn : pc'[c] \in Serving /\ c \notin lapsed => c \notin S
  PROVE  RegTypes' /\ Whole' /\ EveryEntryServed' /\ Renewed'
<1>0. /\ slots' \in [Key -> Conn \cup {None}]
      /\ \A k \in Key : slots'[k] =
              IF slots[k] \in S /\ slots[k] # None THEN None ELSE slots[k]
  BY WithoutIs DEF AgentInv
<1>1. RegTypes'
  BY <1>0 DEF AgentInv, RegTypes
<1>2. Whole'
  <2> SUFFICES ASSUME NEW c \in Conn
               PROVE  Unlisted(c)' \/ \A k \in Key : slots'[k] = c <=> k \in KeysOf(c)
    BY DEF Whole, KeysOf
  <2>1. CASE c \in S
    BY <2>1, <1>0, NoneAssumption DEF Unlisted
  <2>2. CASE c \notin S
    BY <2>2, <1>0, NoneAssumption DEF Unlisted, AgentInv, Whole
  <2> QED BY <2>1, <2>2
<1>3. EveryEntryServed'
  <2> SUFFICES ASSUME NEW k \in Key, slots'[k] # None
               PROVE  pc'[slots'[k]] \in Serving
    BY DEF EveryEntryServed
  <2>1. slots'[k] = slots[k] /\ slots[k] \in Conn /\ slots[k] \notin S
    BY <1>0 DEF AgentInv, RegTypes
  <2>2. pc[slots[k]] \in Serving
    BY <2>1, NoneAssumption DEF AgentInv, EveryEntryServed
  <2> QED BY <2>1, <2>2
<1>4. Renewed'
  <2> SUFFICES ASSUME NEW c \in Conn, pc'[c] \in Serving, c \notin lapsed
               PROVE  pings[c] \in 1..life[c] /\ \A k \in KeysOf(c) : slots'[k] = c
    BY DEF Renewed, KeysOf
  <2>1. c \notin S /\ pc[c] \in Serving
    OBVIOUS
  <2>2. pings[c] \in 1..life[c] /\ \A k \in KeysOf(c) : slots[k] = c
    BY <2>1 DEF AgentInv, Renewed
  <2> QED BY <2>1, <2>2, <1>0, KeysAreKeys
<1> QED BY <1>1, <1>2, <1>3, <1>4

\* A step that leaves the registry alone, and moves no handler into or out of
\* service, keeps the registry's half.
LEMMA QuietKeeps ==
  ASSUME AgentInv, UNCHANGED <<slots, life, pings, lapsed>>,
         \A c \in Conn : pc'[c] \in Serving <=> pc[c] \in Serving
  PROVE  RegTypes' /\ Whole' /\ EveryEntryServed' /\ Renewed'
<1>1. RegTypes' /\ Whole'
  BY DEF AgentInv, RegTypes, Whole, Unlisted, KeysOf
<1>2. EveryEntryServed'
  BY DEF AgentInv, RegTypes, EveryEntryServed
<1>3. Renewed'
  BY DEF AgentInv, Renewed, KeysOf
<1> QED BY <1>1, <1>2, <1>3

\* Goto moves one handler.
LEMMA GotoType ==
  ASSUME AgentTypes, NEW c \in Conn, NEW s \in HandlerState, Goto(c, s)
  PROVE  /\ pc' \in [Conn -> HandlerState]
         /\ pc'[c] = s
         /\ \A d \in Conn \ {c} : pc'[d] = pc[d]
  BY DEF AgentTypes, Goto

\* An accepted Upsert: every slot it met was expired, so no agent that renews in
\* time had a key of it, and each slot it deleted is gone under all its keys.
LEMMA RegisterKeeps ==
  ASSUME AgentInv, NEW c \in Conn, Register(c)
  PROVE  AgentInv'
<1> DEFINE K == KeysOf(c)
           W == R!Without(R!StaleOn(K))
<1>1. /\ slots' = [k \in Key |-> IF k \in K THEN c ELSE W[k]]
      /\ life' = [life EXCEPT ![c] = TTL]
      /\ pings' = [pings EXCEPT ![c] = TTL]
      /\ Unlisted(c)
      /\ pc[c] = "upsert" /\ Goto(c, "ready")
      /\ UNCHANGED <<far, deadline, lapsed>>
  BY DEF Register, R!Upsert, Unlisted
<1>2. \A k \in K : slots[k] # None => life[slots[k]] = 0
  <2> SUFFICES ASSUME NEW k \in K, slots[k] # None, life[slots[k]] # 0
               PROVE  FALSE
    OBVIOUS
  <2>1. R!Conflicts(c, K) = {}
    BY DEF Register, R!Upsert
  <2>2. k \in Key /\ slots[k] \in Conn /\ slots[k] # c
    BY <1>1, KeysAreKeys DEF AgentInv, RegTypes, Unlisted
  <2>3. k \in R!Conflicts(c, K)
    BY <2>2 DEF R!Conflicts, R!Present, R!Expired
  <2> QED BY <2>1, <2>3
<1>3. \A s \in Conn : s \in R!StaleOn(K) <=> \E k \in K : slots[k] = s
  <2>1. R!StaleOn(K) =
          {slots[k] : k \in {j \in K : slots[j] # None /\ life[slots[j]] = 0}}
    BY DEF R!StaleOn, R!Present, R!Expired
  <2> QED BY <1>2, <2>1, NoneAssumption
<1>4. /\ W \in [Key -> Conn \cup {None}]
      /\ \A k \in Key : W[k] = IF slots[k] \in R!StaleOn(K) /\ slots[k] # None
                                 THEN None ELSE slots[k]
  BY WithoutIs DEF AgentInv
<1>5. K \in SUBSET Key
  BY KeysAreKeys
<1>6. \A d \in Conn \ {c} : \/ Unlisted(d)'
                            \/ d \notin R!StaleOn(K)
                               /\ \A k \in Key : slots'[k] = d <=> slots[k] = d
  <2> SUFFICES ASSUME NEW d \in Conn \ {c}
               PROVE  \/ Unlisted(d)'
                      \/ d \notin R!StaleOn(K)
                         /\ \A k \in Key : slots'[k] = d <=> slots[k] = d
    OBVIOUS
  <2>1. CASE d \in R!StaleOn(K)
    BY <2>1, <1>1, <1>4, NoneAssumption DEF Unlisted
  <2>2. CASE d \notin R!StaleOn(K)
    <3>1. \A k \in K : slots[k] # d
      BY <1>3, <2>2
    <3> QED BY <3>1, <2>2, <1>1, <1>4, <1>5, NoneAssumption
  <2> QED BY <2>1, <2>2
<1>7. \A k \in Key : slots'[k] = c <=> k \in K
  BY <1>1, <1>4, NoneAssumption DEF Unlisted
<1> HIDE DEF W
<1>8. /\ pc' \in [Conn -> HandlerState]
      /\ pc'[c] = "ready" /\ \A d \in Conn \ {c} : pc'[d] = pc[d]
  BY <1>1, GotoType DEF AgentInv, HandlerState, Serving
<1>9. AgentTypes' /\ RegTypes'
  <2>1. TTL \in 0..TTL
    BY TimeAssumption
  <2>2. pings' \in [Conn -> 0..TTL] /\ life' \in [Conn -> 0..TTL]
    BY <1>1, <2>1 DEF AgentInv, RegTypes, AgentTypes
  <2>3. slots' \in [Key -> Conn \cup {None}]
    BY <1>1, <1>4
  <2> QED BY <1>1, <1>8, <2>2, <2>3 DEF AgentInv, AgentTypes, RegTypes
<1>10. Whole'
  <2> SUFFICES ASSUME NEW d \in Conn, ~Unlisted(d)'
               PROVE  \A k \in Key : slots'[k] = d <=> k \in KeysOf(d)
    BY DEF Whole, KeysOf
  <2>1. CASE d = c
    BY <2>1, <1>7
  <2>2. CASE d # c
    BY <2>2, <1>6 DEF AgentInv, Whole, Unlisted
  <2> QED BY <2>1, <2>2
<1>11. EveryEntryServed'
  <2> SUFFICES ASSUME NEW k \in Key, slots'[k] # None
               PROVE  pc'[slots'[k]] \in Serving
    BY DEF EveryEntryServed
  <2>1. CASE slots'[k] = c
    BY <2>1, <1>8 DEF Serving
  <2>2. CASE slots'[k] # c
    <3>1. slots'[k] = slots[k]
      BY <2>2, <1>1, <1>4
    <3>2. pc[slots[k]] \in Serving /\ slots[k] \in Conn
      BY <3>1 DEF AgentInv, EveryEntryServed, RegTypes
    <3> QED BY <2>2, <3>1, <3>2, <1>8
  <2> QED BY <2>1, <2>2
<1>12. Renewed'
  <2> SUFFICES ASSUME NEW d \in Conn, pc'[d] \in Serving, d \notin lapsed
               PROVE  pings'[d] \in 1..life'[d] /\ \A k \in KeysOf(d) : slots'[k] = d
    BY <1>1 DEF Renewed, KeysOf
  <2>1. CASE d = c
    <3>1. pings'[c] = TTL /\ life'[c] = TTL /\ TTL \in 1..TTL
      BY <1>1, TimeAssumption DEF AgentInv, RegTypes, AgentTypes
    <3> QED BY <2>1, <3>1, <1>5, <1>7
  <2>2. CASE d # c
    <3>1. /\ pings[d] \in 1..life[d] /\ \A k \in KeysOf(d) : slots[k] = d
          /\ pings'[d] = pings[d] /\ life'[d] = life[d]
      BY <2>2, <1>1, <1>8 DEF AgentInv, Renewed, RegTypes, AgentTypes
    <3>2. ~Unlisted(d)'
      <4>1. aid[d] \in KeysOf(d) /\ aid[d] \in Key
        BY HelloAssumption DEF KeysOf
      <4>2. life[d] \in 0..TTL
        BY DEF AgentInv, RegTypes
      <4>3. life[d] # 0
        BY <3>1, <4>2, TimeAssumption
      <4>4. aid[d] \notin K
        BY <1>2, <3>1, <4>1, <4>3, NoneAssumption
      <4>5. d \notin R!StaleOn(K)
        BY <1>2, <1>3, <4>3, NoneAssumption
      <4>6. slots'[aid[d]] = d
        BY <1>1, <1>4, <3>1, <4>1, <4>4, <4>5
      <4> QED BY <4>1, <4>6 DEF Unlisted
    <3> QED BY <2>2, <3>1, <3>2, <1>6, KeysAreKeys
  <2> QED BY <2>1, <2>2
<1> QED BY <1>9, <1>10, <1>11, <1>12 DEF AgentInv

\* A ping renews the slot its aid leads to, which is the pinging agent's own
\* while it renews in time, and shortens no other lease.
LEMMA PingKeeps ==
  ASSUME AgentInv, NEW c \in Conn, Ping(c)
  PROVE  AgentInv'
<1>1. /\ slots' = slots
      /\ life' = IF slots[aid[c]] # None
                   THEN [life EXCEPT ![slots[aid[c]]] = TTL] ELSE life
      /\ pings' = [pings EXCEPT ![c] = TTL]
      /\ pc[c] = "loop" /\ Goto(c, "pong")
      /\ UNCHANGED <<far, deadline, lapsed>>
  BY DEF Ping, Hears, R!Touch, R!Present
<1>2. /\ pc' \in [Conn -> HandlerState]
      /\ pc'[c] = "pong" /\ \A d \in Conn \ {c} : pc'[d] = pc[d]
  BY <1>1, GotoType DEF AgentInv, HandlerState, Serving
<1>3. \A d \in Conn : pc'[d] \in Serving <=> pc[d] \in Serving
  BY <1>1, <1>2 DEF Serving
<1>4. TTL \in 1..TTL /\ TTL \in 0..TTL /\ \A n \in 0..TTL : n <= TTL
  BY TimeAssumption
<1>5. life' \in [Conn -> 0..TTL] /\ pings' \in [Conn -> 0..TTL]
  BY <1>1, <1>4 DEF AgentInv, RegTypes, AgentTypes
<1>6. \A d \in Conn : life'[d] = life[d] \/ life'[d] = TTL
  BY <1>1 DEF AgentInv, RegTypes
<1>7. aid[c] \in Key /\ aid[c] \in KeysOf(c)
  BY HelloAssumption DEF KeysOf
<1>8. RegTypes' /\ AgentTypes' /\ Whole'
  BY <1>1, <1>2, <1>5 DEF AgentInv, RegTypes, AgentTypes, Whole, Unlisted, KeysOf
<1>9. EveryEntryServed'
  BY <1>1, <1>3 DEF AgentInv, RegTypes, EveryEntryServed
<1>10. Renewed'
  <2> SUFFICES ASSUME NEW d \in Conn, pc'[d] \in Serving, d \notin lapsed
               PROVE  pings'[d] \in 1..life'[d] /\ \A k \in KeysOf(d) : slots[k] = d
    BY <1>1 DEF Renewed, KeysOf
  <2>1. pings[d] \in 1..life[d] /\ \A k \in KeysOf(d) : slots[k] = d
    BY <1>3 DEF AgentInv, Renewed
  <2>2. CASE d = c
    <3>1. life'[c] = TTL
      BY <1>1, <1>7, <2>1, <2>2, NoneAssumption DEF AgentInv, RegTypes
    <3>2. pings'[c] = TTL
      BY <1>1 DEF AgentInv, AgentTypes
    <3> QED BY <2>1, <2>2, <3>1, <3>2, <1>4
  <2>3. CASE d # c
    <3>1. pings'[d] = pings[d]
      BY <1>1, <2>3 DEF AgentInv, AgentTypes
    <3>2. life[d] \in 0..TTL
      BY DEF AgentInv, RegTypes
    <3>3. life'[d] \in 0..TTL /\ life[d] <= life'[d]
      BY <1>5, <1>6, <3>2, TimeAssumption
    <3>4. pings[d] \in 1..life'[d]
      BY <2>1, <3>2, <3>3, TimeAssumption
    <3> QED BY <2>1, <3>1, <3>4
  <2> QED BY <2>2, <2>3
<1> QED BY <1>8, <1>9, <1>10 DEF AgentInv

\* The deferred Remove deletes the whole slot of the connection that leaves, if
\* there is any of it left.
LEMMA DepartKeeps ==
  ASSUME AgentInv, NEW c \in Conn, Depart(c)
  PROVE  AgentInv'
<1> DEFINE S == {c}
<1>1. /\ slots' = R!Without({slots[aid[c]]} \cap {s \in Conn : s = c})
      /\ pc[c] = "leaving" /\ Goto(c, "gone")
      /\ UNCHANGED <<life, far, deadline, pings, lapsed>>
  BY DEF Depart, R!Remove
<1>2. aid[c] \in Key /\ aid[c] \in KeysOf(c)
  BY HelloAssumption DEF KeysOf
<1>3. slots' = R!Without({c})
  <2>1. CASE slots[aid[c]] = c
    <3>1. {slots[aid[c]]} \cap {s \in Conn : s = c} = {c}
      BY <2>1
    <3> QED BY <1>1, <3>1
  <2>2. CASE slots[aid[c]] # c
    <3>1. {slots[aid[c]]} \cap {s \in Conn : s = c} = {}
      BY <2>2
    <3>2. Unlisted(c)
      BY <1>2, <2>2 DEF AgentInv, Whole
    <3>3. R!Without({}) = R!Without({c})
      BY <3>2 DEF R!Without, Unlisted
    <3> QED BY <1>1, <3>1, <3>3
  <2> QED BY <2>1, <2>2
<1>4. /\ pc' \in [Conn -> HandlerState]
      /\ pc'[c] = "gone" /\ \A d \in Conn \ {c} : pc'[d] = pc[d]
  BY <1>1, GotoType DEF AgentInv, HandlerState
<1>5. RegTypes' /\ Whole' /\ EveryEntryServed' /\ Renewed'
  <2>1. "gone" \notin Serving
    BY DEF Serving
  <2>2. \A d \in Conn : \/ pc'[d] = pc[d]
                        \/ pc[d] \notin Serving /\ pc'[d] \notin Serving
                        \/ d \in {c} /\ pc'[d] \notin Serving
    BY <1>4, <2>1
  <2>3. \A d \in Conn : pc'[d] \in Serving /\ d \notin lapsed => d \notin {c}
    BY <1>4, <2>1
  <2> QED BY <1>1, <1>3, <2>2, <2>3, DroppingKeeps
<1> QED BY <1>1, <1>4, <1>5 DEF AgentInv, AgentTypes

\* Time: a lease is never shorter than what the agent has left to ping.
LEMMA TickKeeps ==
  ASSUME AgentInv, Tick
  PROVE  AgentInv'
<1>1. /\ life' = [s \in Conn |-> IF life[s] > 0 THEN life[s] - 1 ELSE 0]
      /\ deadline' = [c \in Conn |-> IF deadline[c] > 0 THEN deadline[c] - 1 ELSE 0]
      /\ pings' = [c \in Conn |-> IF pings[c] > 0 THEN pings[c] - 1 ELSE 0]
      /\ lapsed' = lapsed \cup {c \in Conn : pings[c] = 1}
      /\ UNCHANGED <<slots, pc, far>>
  BY DEF Tick, R!Tick, R!Aged, Sooner
<1>2. \A n \in Nat : \A t \in 0..n : (IF t > 0 THEN t - 1 ELSE 0) \in 0..n
  OBVIOUS
<1>3. life' \in [Conn -> 0..TTL] /\ pings' \in [Conn -> 0..TTL]
  BY <1>1, <1>2, TimeAssumption DEF AgentInv, RegTypes, AgentTypes
<1>4. deadline' \in [Conn -> 0..(TTL + Grace)]
  <2>1. TTL + Grace \in Nat
    BY TimeAssumption
  <2> QED BY <1>1, <1>2, <2>1 DEF AgentInv, AgentTypes
<1>5. RegTypes' /\ AgentTypes' /\ Whole' /\ EveryEntryServed'
  BY <1>1, <1>3, <1>4 DEF AgentInv, RegTypes, AgentTypes, Whole, Unlisted, KeysOf,
                          EveryEntryServed
<1>6. Renewed'
  <2> SUFFICES ASSUME NEW c \in Conn, pc[c] \in Serving, c \notin lapsed'
               PROVE  pings'[c] \in 1..life'[c] /\ \A k \in KeysOf(c) : slots[k] = c
    BY <1>1 DEF Renewed, KeysOf
  <2>1. pings[c] \in 1..life[c] /\ (\A k \in KeysOf(c) : slots[k] = c) /\ pings[c] # 1
    BY <1>1 DEF AgentInv, Renewed
  <2>2. life[c] \in 0..TTL
    BY DEF AgentInv, RegTypes
  <2>3. pings'[c] = pings[c] - 1 /\ life'[c] = life[c] - 1
    BY <1>1, <2>1, <2>2, TimeAssumption
  <2> QED BY <2>1, <2>2, <2>3, TimeAssumption
<1> QED BY <1>5, <1>6 DEF AgentInv

\* An agent that renews in time has an unexpired slot.
LEMMA StaleAreIdle ==
  ASSUME AgentInv, NEW c \in Conn, pc[c] \in Serving, c \notin lapsed
  PROVE  life[c] # 0
<1>1. pings[c] \in 1..life[c] /\ life[c] \in 0..TTL
  BY DEF AgentInv, Renewed, RegTypes
<1> QED BY <1>1, TimeAssumption

\* A step that deletes expired slots only, and moves handlers neither into nor
\* out of service, keeps the invariant of the registry.
LEMMA ExpiryKeeps ==
  ASSUME AgentInv, NEW S, slots' = R!Without(S),
         \A s \in S : s \in Conn => life[s] = 0,
         UNCHANGED <<life, pings, lapsed>>,
         \A c \in Conn : \/ pc'[c] = pc[c]
                         \/ pc[c] \notin Serving /\ pc'[c] \notin Serving
  PROVE  RegTypes' /\ Whole' /\ EveryEntryServed' /\ Renewed'
<1>1. \A c \in Conn : pc'[c] \in Serving /\ c \notin lapsed => c \notin S
  BY StaleAreIdle
<1> QED BY <1>1, DroppingKeeps

\* The agent handlers, but for ReadAck, and the agents' ends.
LEMMA AgentStepKeeps ==
  ASSUME AgentInv, NEW c \in Conn,
         Agent(c) \/ Hello(c) \/ Ping(c) \/ ReadOther(c) \/ Fails(c)
  PROVE  AgentInv'
<1>1. CASE Register(c)
  BY <1>1, RegisterKeeps
<1>2. CASE Ping(c)
  BY <1>2, PingKeeps
<1>3. CASE Depart(c)
  BY <1>3, DepartKeeps
<1>4. CASE CheckListed(c) \/ SlotTaken(c)
  <2>1. PICK S : /\ slots' = R!Without(S)
                 /\ \A s \in S : s \in Conn => life[s] = 0
    <3>1. CASE CheckListed(c)
      BY <3>1 DEF CheckListed, R!Get, R!Expired
    <3>2. CASE SlotTaken(c)
      <4>1. PICK P \in SUBSET KeysOf(c) : slots' = R!Without(R!StaleOn(P))
        BY <3>2 DEF SlotTaken, R!UpsertRefused
      <4>2. \A s \in R!StaleOn(P) : life[s] = 0
        BY DEF R!StaleOn, R!Expired
      <4> QED BY <4>1, <4>2
    <3> QED BY <1>4, <3>1, <3>2
  <2>2. \E s \in {"prove", "count", "gone"} : Goto(c, s)
    BY <1>4 DEF CheckListed, SlotTaken
  <2>3. /\ pc' \in [Conn -> HandlerState]
        /\ pc'[c] \in {"prove", "count", "gone"}
        /\ \A d \in Conn \ {c} : pc'[d] = pc[d]
    BY <2>2, GotoType DEF AgentInv, HandlerState
  <2>4. /\ pc[c] \in {"cap", "upsert"}
        /\ UNCHANGED <<life, far, deadline, pings, lapsed>>
    BY <1>4 DEF CheckListed, SlotTaken, R!Get, R!UpsertRefused
  <2>5. \A d \in Conn : \/ pc'[d] = pc[d]
                        \/ pc[d] \notin Serving /\ pc'[d] \notin Serving
    BY <2>3, <2>4 DEF Serving
  <2>6. RegTypes' /\ Whole' /\ EveryEntryServed' /\ Renewed'
    BY <2>1, <2>4, <2>5, ExpiryKeeps
  <2> QED BY <2>3, <2>4, <2>6 DEF AgentInv, AgentTypes
<1>5. CASE \/ Hello(c) \/ CheckCount(c) \/ Prove(c) \/ ProofFails(c) \/ ReadFails(c)
           \/ SendReady(c) \/ SendPong(c) \/ HandOver(c) \/ ReadOther(c)
  <2>1. \E s \in HandlerState : Goto(c, s) /\ (s \in Serving <=> pc[c] \in Serving)
    BY <1>5 DEF Hello, CheckCount, Prove, ProofFails, ReadFails, SendReady, SendPong,
                HandOver, ReadOther, Listen, Hears, HandlerState, Serving
  <2>2. UNCHANGED <<reg, far, pings, lapsed>>
    BY <1>5 DEF Hello, CheckCount, Prove, ProofFails, ReadFails, SendReady, SendPong,
                HandOver, ReadOther, Listen, Hears
  <2>3. deadline' \in {deadline, [deadline EXCEPT ![c] = TTL + Grace]}
    BY <1>5 DEF Hello, CheckCount, Prove, ProofFails, ReadFails, SendReady, SendPong,
                HandOver, ReadOther, Listen, Hears
  <2>4. TTL + Grace \in 0..(TTL + Grace)
    BY TimeAssumption
  <2>5. deadline' \in [Conn -> 0..(TTL + Grace)]
    BY <2>3, <2>4 DEF AgentInv, AgentTypes
  <2>6. /\ pc' \in [Conn -> HandlerState]
        /\ \A d \in Conn : pc'[d] \in Serving <=> pc[d] \in Serving
    BY <2>1, GotoType DEF AgentInv
  <2>7. RegTypes' /\ Whole' /\ EveryEntryServed' /\ Renewed'
    BY <2>2, <2>6, QuietKeeps DEF reg
  <2> QED BY <2>2, <2>5, <2>6, <2>7 DEF AgentInv, AgentTypes
<1>6. CASE Fails(c)
  <2>1. UNCHANGED <<slots, life, pc, deadline, pings, lapsed>>
    BY <1>6 DEF Fails, reg
  <2>2. far' \in [Conn -> {"up", "lost", "closed"}]
    BY <1>6 DEF Fails, AgentInv, AgentTypes
  <2>3. RegTypes' /\ Whole' /\ EveryEntryServed' /\ Renewed'
    BY <2>1, QuietKeeps
  <2> QED BY <2>1, <2>2, <2>3 DEF AgentInv, AgentTypes
<1> QED BY <1>1, <1>2, <1>3, <1>4, <1>5, <1>6 DEF Agent

\* An offer-ack leaves the registry alone.
LEMMA ReadAckAgents ==
  ASSUME AgentInv, NEW c \in Conn, NEW l \in Lookup, NEW d \in Direct, ReadAck(c, l, d)
  PROVE  AgentInv'
<1>1. \E s \in {"loop", "ack"} : Goto(c, s)
  BY DEF ReadAck, Listen
<1>2. pc[c] = "loop" /\ UNCHANGED <<slots, life, far, pings, lapsed>>
  BY DEF ReadAck, Hears, reg
<1>3. deadline' \in {deadline, [deadline EXCEPT ![c] = TTL + Grace]}
  BY DEF ReadAck, Listen
<1>4. TTL + Grace \in 0..(TTL + Grace)
  BY TimeAssumption
<1>5. deadline' \in [Conn -> 0..(TTL + Grace)]
  BY <1>3, <1>4 DEF AgentInv, AgentTypes
<1>6. /\ pc' \in [Conn -> HandlerState]
      /\ \A e \in Conn : pc'[e] \in Serving <=> pc[e] \in Serving
  BY <1>1, <1>2, GotoType DEF AgentInv, HandlerState, Serving
<1>7. RegTypes' /\ Whole' /\ EveryEntryServed' /\ Renewed'
  BY <1>2, <1>6, QuietKeeps
<1> QED BY <1>2, <1>5, <1>6, <1>7 DEF AgentInv, AgentTypes

\* Lookups and sweeps only ever delete expired slots.
LEMMA ClientAgents ==
  ASSUME AgentInv,
         \/ Sweep
         \/ \E l \in Lookup : Client(l) \/ \E k \in Key : Find(l, k)
         \/ UNCHANGED vars
  PROVE  AgentInv'
<1>1. UNCHANGED <<life, agents>>
  BY DEF Sweep, R!Sweep, Client, Find, R!Get, Pend, Offer, Acked, AckTimeout, LateAck,
         LingerTimeout, Unpend, reg, vars
<1> DEFINE Kept == RegTypes' /\ Whole' /\ EveryEntryServed' /\ Renewed'
<1>2. ASSUME slots' = slots
      PROVE  Kept
  <2>1. UNCHANGED <<slots, life, pings, lapsed, pc>>
    BY <1>1, <1>2 DEF agents
  <2> QED BY <2>1, QuietKeeps
<1>3. ASSUME NEW S \in SUBSET Conn, slots' = R!Without(S), \A s \in S : life[s] = 0
      PROVE  Kept
  <2>1. UNCHANGED <<life, pings, lapsed, pc>>
    BY <1>1 DEF agents
  <2>2. \A c \in Conn : \/ pc'[c] = pc[c]
                        \/ pc[c] \notin Serving /\ pc'[c] \notin Serving
    BY <2>1
  <2> QED BY <1>3, <2>1, <2>2, ExpiryKeeps
<1>4. ASSUME Sweep
      PROVE  Kept
  <2> DEFINE S == {s \in Conn : life[s] = 0}
  <2>1. slots' = R!Without(S)
    BY <1>4 DEF Sweep, R!Sweep, R!Expired
  <2>2. S \in SUBSET Conn /\ \A s \in S : life[s] = 0
    OBVIOUS
  <2> QED BY <2>1, <2>2, <1>3
<1>5. ASSUME NEW l \in Lookup, NEW k \in Key, Find(l, k)
      PROVE  Kept
  <2> DEFINE S == {slots[k]} \cap {s \in Conn : life[s] = 0}
  <2>1. slots' = R!Without(S)
    BY <1>5 DEF Find, R!Get, R!Expired
  <2>2. S \in SUBSET Conn /\ \A s \in S : life[s] = 0
    OBVIOUS
  <2> QED BY <2>1, <2>2, <1>3
<1>6. ASSUME NEW l \in Lookup, Client(l)
      PROVE  Kept
  <2>1. slots' = slots
    BY <1>6 DEF Client, Pend, Offer, Acked, AckTimeout, LateAck, LingerTimeout,
                Unpend, reg
  <2> QED BY <2>1, <1>2
<1>7. ASSUME UNCHANGED vars
      PROVE  Kept
  <2>1. slots' = slots
    BY <1>7 DEF vars, reg
  <2> QED BY <2>1, <1>2
<1>8. Kept
  BY <1>4, <1>5, <1>6, <1>7
<1> QED BY <1>1, <1>8 DEF AgentInv, AgentTypes, agents

\* Nobody has connected yet.
LEMMA AgentInit == Init => AgentInv
<1> SUFFICES ASSUME Init PROVE AgentInv
  OBVIOUS
<1>1. 0 \in 0..TTL /\ 0 \in 0..(TTL + Grace)
  BY TimeAssumption
<1>2. RegTypes /\ AgentTypes
  BY <1>1 DEF Init, RegTypes, AgentTypes, HandlerState
<1>3. Whole /\ EveryEntryServed /\ Renewed
  BY NoneAssumption DEF Init, Whole, Unlisted, EveryEntryServed, Renewed, Serving
<1> QED BY <1>2, <1>3 DEF AgentInv
-----------------------------------------------------------------------------
(***************************************************************************)
(* Offers, acks and lookups.                                               *)
(***************************************************************************)

\* The sequences an ack channel can hold.
NoAck == <<>>
EmptyAck == <<"">>
DirectAck == <<"direct">>
BothAcks == <<"", "direct">>

\* The types of the offers, acks and lookups, with the few sequences a channel
\* can hold.
LookupTypes ==
  /\ offered \in [Conn -> SUBSET Lookup]
  /\ acked \in [Lookup -> {"no", "empty", "direct"}]
  /\ ack \in [Conn -> (Lookup \X Direct) \cup {<<>>}]
  /\ lpc \in [Lookup -> LookupState]
  /\ hit \in [Lookup -> Conn \cup {None}]
  /\ pending \in SUBSET Lookup
  /\ ch \in [Lookup -> {NoAck, EmptyAck, DirectAck, BothAcks}]
  /\ peer \in [Lookup -> {"no", "absent"} \cup Direct]
  /\ timedOut \in SUBSET Lookup /\ dropped = {}
  /\ gotDirect \in SUBSET Lookup

\* A lookup has an agent connection from Find on, unless it found none.
Hit ==
  \A l \in Lookup :
    /\ lpc[l] = "idle" => hit[l] = None
    /\ lpc[l] \notin {"idle", "done"} => hit[l] \in Conn

\* A lookup is offered to the connection it found, and to no other, once.
Offered ==
  \A c \in Conn : \A l \in offered[c] :
    lpc[l] \notin {"idle", "pend", "offer"} /\ hit[l] = c

\* What the channel holds is no more than the agent has acked.
Backlog ==
  \A l \in Lookup :
    /\ acked[l] = "no" => ch[l] = NoAck /\ l \notin gotDirect
    /\ acked[l] = "empty" => ch[l] \in {NoAck, EmptyAck} /\ l \notin gotDirect
    /\ acked[l] # "no" => \E c \in Conn : l \in offered[c]

\* An ack that an agent handler may hand over: the lookup's first, or its
\* second with a direct candidate, for which there is room.
Handed(c, l, d) ==
  /\ l \in offered[c]
  /\ d \in Direct
  /\ d = "" => acked[l] = "empty" /\ ch[l] = NoAck
  /\ d = "direct" => acked[l] = "direct" /\ ch[l] \in {NoAck, EmptyAck}

InHand == \A c \in Conn : pc[c] = "ack" => Handed(c, ack[c][1], ack[c][2])

\* A lookup that lingers, and was not timed out, has taken the empty ack: what
\* is left in the channel, or in the handler's hand, is the direct candidate.
Lingering ==
  \A l \in Lookup : lpc[l] = "linger" /\ l \notin timedOut =>
    /\ acked[l] # "no" /\ ch[l] \in {NoAck, DirectAck}
    /\ \A c \in Conn : pc[c] = "ack" /\ ack[c][1] = l => ack[c][2] = "direct"

\* A lookup that is over without a timer had its direct candidate.
Told ==
  \A l \in Lookup :
    lpc[l] \in {"unpend", "done"} /\ l \notin timedOut /\ hit[l] # None =>
      peer[l] = "direct"

\* The lookups' half: Backlog and InHand bound the channel, which AckLands needs;
\* Lingering and Told are DirectReachesClient on the way there.
LookupInv == /\ LookupTypes /\ Hit /\ Offered /\ Backlog /\ InHand
             /\ Lingering /\ Told

\* What the two-element buffer does with the sequences it can hold.
LEMMA Channels ==
  /\ Len(NoAck) = 0 /\ Len(EmptyAck) = 1 /\ Len(DirectAck) = 1 /\ Len(BothAcks) = 2
  /\ Append(NoAck, "") = EmptyAck /\ Append(NoAck, "direct") = DirectAck
  /\ Append(EmptyAck, "direct") = BothAcks
  /\ Head(EmptyAck) = "" /\ Head(DirectAck) = "direct" /\ Head(BothAcks) = ""
  /\ Tail(EmptyAck) = NoAck /\ Tail(DirectAck) = NoAck /\ Tail(BothAcks) = DirectAck
  /\ NoAck # EmptyAck /\ NoAck # DirectAck /\ NoAck # BothAcks
  /\ EmptyAck # DirectAck /\ EmptyAck # BothAcks /\ DirectAck # BothAcks
  /\ {NoAck, EmptyAck, DirectAck, BothAcks} \subseteq Seq(Direct)
<1>1. Len(NoAck) = 0 /\ Len(EmptyAck) = 1 /\ Len(DirectAck) = 1 /\ Len(BothAcks) = 2
  BY DEF NoAck, EmptyAck, DirectAck, BothAcks
<1>2. Append(NoAck, "") = EmptyAck /\ Append(NoAck, "direct") = DirectAck
  BY DEF NoAck, EmptyAck, DirectAck
<1>3. Append(EmptyAck, "direct") = BothAcks
  <2>1. EmptyAck \in Seq(Direct) /\ "direct" \in Direct /\ BothAcks \in Seq(Direct)
    BY DEF EmptyAck, BothAcks, Direct
  <2>2. /\ Append(EmptyAck, "direct") \in Seq(Direct)
        /\ Len(Append(EmptyAck, "direct")) = Len(EmptyAck) + 1
        /\ \A i \in 1..Len(EmptyAck) : Append(EmptyAck, "direct")[i] = EmptyAck[i]
        /\ Append(EmptyAck, "direct")[Len(EmptyAck) + 1] = "direct"
    BY <2>1, AppendProperties
  <2>3. Len(EmptyAck) = 1 /\ Len(BothAcks) = 2
    BY <1>1
  <2>4. Append(EmptyAck, "direct")[1] = EmptyAck[1] /\ Append(EmptyAck, "direct")[2] = "direct"
    BY <2>2, <2>3
  <2>5. EmptyAck[1] = "" /\ BothAcks[1] = "" /\ BothAcks[2] = "direct"
    BY DEF EmptyAck, BothAcks
  <2>6. \A i \in 1..2 : Append(EmptyAck, "direct")[i] = BothAcks[i]
    <3>1. \A i \in 1..2 : i = 1 \/ i = 2
      OBVIOUS
    <3> QED BY <2>4, <2>5, <3>1
  <2>7. Len(Append(EmptyAck, "direct")) = 2
    BY <2>2, <2>3
  <2> QED BY <2>1, <2>2, <2>3, <2>6, <2>7, SeqEqual
<1>4. Head(EmptyAck) = "" /\ Head(DirectAck) = "direct" /\ Head(BothAcks) = ""
  BY DEF EmptyAck, DirectAck, BothAcks
<1>5. Tail(EmptyAck) = NoAck /\ Tail(DirectAck) = NoAck
  BY DEF EmptyAck, DirectAck, NoAck
<1>6. Tail(BothAcks) = DirectAck
  BY DEF BothAcks, DirectAck
<1>7. {NoAck, EmptyAck, DirectAck, BothAcks} \subseteq Seq(Direct)
  <2>1. NoAck \in Seq(Direct) /\ EmptyAck \in Seq(Direct)
    BY DEF NoAck, EmptyAck, Direct
  <2>2. DirectAck \in Seq(Direct) /\ BothAcks \in Seq(Direct)
    BY DEF DirectAck, BothAcks, Direct
  <2> QED BY <2>1, <2>2
<1>8. NoAck # EmptyAck /\ NoAck # DirectAck /\ NoAck # BothAcks
  BY <1>1
<1>9. EmptyAck # BothAcks /\ DirectAck # BothAcks
  BY <1>1
<1>10. EmptyAck # DirectAck
  BY <1>4
<1> QED BY <1>1, <1>2, <1>3, <1>4, <1>5, <1>6, <1>7, <1>8, <1>9, <1>10

\* A step that touches neither offers nor lookups keeps their half, unless it
\* puts an ack in a handler's hand.
LEMMA OtherStepsKeep ==
  ASSUME LookupInv, UNCHANGED <<offers, lookups, acks>>,
         \A c \in Conn : pc'[c] = "ack" => pc[c] = "ack"
  PROVE  LookupInv'
<1> USE DEF offers, lookups, acks
<1>1. LookupTypes'
  BY DEF LookupInv, LookupTypes
<1>2. Hit' /\ Offered' /\ Told' /\ Backlog'
  BY DEF LookupInv, LookupTypes, Hit, Offered, Told, Backlog
<1>3. InHand'
  BY DEF LookupInv, InHand, Handed
<1>4. Lingering'
  BY DEF LookupInv, Lingering
<1> QED BY <1>1, <1>2, <1>3, <1>4 DEF LookupInv

\* Reading an ack: only one connection was offered the lookup, so no other ack
\* of it is in any hand, and what the agent acked before bounds what the channel
\* holds.
LEMMA ReadAckLookups ==
  ASSUME AgentTypes, LookupInv, NEW c \in Conn, NEW l \in Lookup, NEW d \in Direct,
         ReadAck(c, l, d)
  PROVE  LookupInv'
<1> DEFINE a == IF d = "" THEN "empty" ELSE "direct"
<1>1. /\ pc[c] = "loop" /\ l \in offered[c]
      /\ acked[l] = "no" \/ (acked[l] = "empty" /\ d = "direct")
      /\ acked' = [acked EXCEPT ![l] = a]
      /\ UNCHANGED <<offered, lpc, hit, peer, timedOut, pending, ch, dropped>>
  BY DEF ReadAck, Hears, lookups, acks
<1>2. \/ /\ ack' = [ack EXCEPT ![c] = <<l, d>>]
         /\ gotDirect' = IF d = "" THEN gotDirect ELSE gotDirect \cup {l}
         /\ Goto(c, "ack")
      \/ UNCHANGED <<ack, gotDirect>> /\ Goto(c, "loop")
  BY DEF ReadAck, Listen
<1>3. /\ \A e \in Conn \ {c} : pc'[e] = pc[e] /\ ack'[e] = ack[e]
      /\ \A m \in Lookup \ {l} : /\ acked'[m] = acked[m]
                                 /\ m \in gotDirect' <=> m \in gotDirect
      /\ acked'[l] = a
  BY <1>1, <1>2, GotoType DEF LookupInv, LookupTypes, HandlerState, Serving
<1>4. \A e \in Conn \ {c} : l \notin offered[e]
  <2>1. \A e \in Conn : l \in offered[e] => hit[l] = e
    BY DEF LookupInv, Offered
  <2> QED BY <1>1, <2>1
<1>5. d \in {"", "direct"} /\ (d = "" => a = "empty") /\ (d = "direct" => a = "direct")
  BY DEF Direct
<1>6. /\ pc'[c] \in {"ack", "loop"}
      /\ pc'[c] = "ack" => ack'[c][1] = l /\ ack'[c][2] = d
  <2>1. CASE Goto(c, "ack") /\ ack' = [ack EXCEPT ![c] = <<l, d>>]
    <3>1. ack'[c] = <<l, d>>
      BY <2>1 DEF LookupInv, LookupTypes
    <3>2. pc'[c] = "ack"
      BY <2>1, GotoType DEF HandlerState, Serving
    <3> QED BY <3>1, <3>2
  <2>2. CASE Goto(c, "loop")
    BY <2>2, GotoType DEF HandlerState, Serving
  <2> QED BY <1>2, <2>1, <2>2
<1>7. LookupTypes'
  <2>1. ack' \in [Conn -> (Lookup \X Direct) \cup {<<>>}]
    <3>1. <<l, d>> \in (Lookup \X Direct) \cup {<<>>}
      OBVIOUS
    <3> QED BY <1>2, <3>1 DEF LookupInv, LookupTypes
  <2>2. gotDirect' \in SUBSET Lookup
    BY <1>2 DEF LookupInv, LookupTypes
  <2>3. acked' \in [Lookup -> {"no", "empty", "direct"}]
    BY <1>1 DEF LookupInv, LookupTypes
  <2> QED BY <1>1, <2>1, <2>2, <2>3 DEF LookupInv, LookupTypes
<1>8. Hit' /\ Offered' /\ Told'
  BY <1>1 DEF LookupInv, Hit, Offered, Told
<1>9. Backlog'
  <2> SUFFICES ASSUME NEW m \in Lookup
               PROVE  /\ acked'[m] = "no" => ch[m] = NoAck /\ m \notin gotDirect'
                      /\ acked'[m] = "empty" => ch[m] \in {NoAck, EmptyAck}
                                               /\ m \notin gotDirect'
                      /\ acked'[m] # "no" => \E e \in Conn : m \in offered[e]
    BY <1>1 DEF Backlog
  <2>1. CASE m # l
    BY <1>3, <2>1 DEF LookupInv, Backlog
  <2>2. CASE m = l
    <3>1. a = "empty" => acked[l] = "no" /\ d = ""
      BY <1>1, <1>5
    <3> QED BY <1>1, <1>2, <1>3, <1>5, <2>2, <3>1 DEF LookupInv, Backlog
  <2> QED BY <2>1, <2>2
<1>10. InHand'
  <2> SUFFICES ASSUME NEW e \in Conn, pc'[e] = "ack"
               PROVE  Handed(e, ack[e][1], ack[e][2])'
    BY DEF InHand
  <2>1. CASE e = c
    <3>1. ack'[c][1] = l /\ ack'[c][2] = d /\ l \in offered'[c]
      BY <1>1, <1>6, <2>1
    <3>2. d = "" => acked'[l] = "empty" /\ ch'[l] = NoAck
      BY <1>1, <1>3, <1>5 DEF LookupInv, Backlog
    <3>3. d = "direct" => acked'[l] = "direct" /\ ch'[l] \in {NoAck, EmptyAck}
      BY <1>1, <1>3, <1>5 DEF LookupInv, Backlog
    <3> QED BY <2>1, <3>1, <3>2, <3>3 DEF Handed
  <2>2. CASE e # c
    <3>1. pc[e] = "ack" /\ ack'[e] = ack[e]
      BY <1>3, <2>2
    <3>2. Handed(e, ack[e][1], ack[e][2])
      BY <3>1 DEF LookupInv, InHand
    <3>3. ack[e][1] \in Lookup \ {l}
      BY <1>4, <2>2, <3>2 DEF Handed, LookupInv, LookupTypes
    <3>4. acked'[ack[e][1]] = acked[ack[e][1]]
      BY <1>3, <3>3
    <3> QED BY <1>1, <3>1, <3>2, <3>4 DEF Handed
  <2> QED BY <2>1, <2>2
<1>11. Lingering'
  <2> SUFFICES ASSUME NEW m \in Lookup, lpc[m] = "linger", m \notin timedOut
               PROVE  /\ acked'[m] # "no" /\ ch[m] \in {NoAck, DirectAck}
                      /\ \A e \in Conn : pc'[e] = "ack" /\ ack'[e][1] = m =>
                           ack'[e][2] = "direct"
    BY <1>1 DEF Lingering
  <2>1. /\ acked[m] # "no" /\ ch[m] \in {NoAck, DirectAck}
        /\ \A e \in Conn : pc[e] = "ack" /\ ack[e][1] = m => ack[e][2] = "direct"
    BY DEF LookupInv, Lingering
  <2>2. acked'[m] # "no"
    BY <1>3, <2>1
  <2>3. ASSUME NEW e \in Conn, pc'[e] = "ack", ack'[e][1] = m
        PROVE  ack'[e][2] = "direct"
    <3>1. CASE e = c
      <4>1. l = m /\ ack'[c][2] = d
        BY <1>6, <2>3, <3>1
      <4>2. d = "direct"
        BY <1>1, <2>1, <4>1
      <4> QED BY <3>1, <4>1, <4>2
    <3>2. CASE e # c
      BY <1>3, <2>1, <2>3, <3>2
    <3> QED BY <3>1, <3>2
  <2> QED BY <2>1, <2>2, <2>3
<1> QED BY <1>7, <1>8, <1>9, <1>10, <1>11 DEF LookupInv

\* The non-blocking send finds room, always: the first ack finds the channel
\* empty, and the second finds at most the first.
LEMMA HandOverKeeps ==
  ASSUME AgentTypes, LookupInv, NEW c \in Conn, HandOver(c)
  PROVE  LookupInv'
<1>1. pc[c] = "ack"
  BY DEF HandOver
<1> DEFINE l == ack[c][1]
           d == ack[c][2]
<1>2. Handed(c, l, d)
  BY <1>1 DEF LookupInv, InHand
<1>3. l \in Lookup /\ d \in {"", "direct"}
  BY <1>2 DEF Handed, LookupInv, LookupTypes, Direct
<1>5. Len(ch[l]) < 2
  <2>1. ch[l] \in {NoAck, EmptyAck}
    BY <1>2, <1>3 DEF Handed
  <2>2. Len(NoAck) < 2 /\ Len(EmptyAck) < 2
    BY DEF NoAck, EmptyAck
  <2>3. CASE ch[l] = NoAck
    BY <2>2, <2>3
  <2>4. CASE ch[l] = EmptyAck
    BY <2>2, <2>4
  <2> QED BY <2>1, <2>3, <2>4
<1>6. /\ ch' = [ch EXCEPT ![l] = Append(@, d)]
      /\ ack' = [ack EXCEPT ![c] = <<>>]
      /\ Goto(c, "loop")
      /\ UNCHANGED <<offered, acked, gotDirect, lookups, pending, dropped>>
  BY <1>5 DEF HandOver, Room, Listen
<1> HIDE DEF l, d
<1>7. /\ pc'[c] = "loop" /\ \A e \in Conn \ {c} : pc'[e] = pc[e] /\ ack'[e] = ack[e]
  BY <1>6, GotoType DEF HandlerState, Serving, LookupInv, LookupTypes
<1>8. /\ ch'[l] = Append(ch[l], d)
      /\ \A m \in Lookup \ {l} : ch'[m] = ch[m]
  BY <1>3, <1>6 DEF LookupInv, LookupTypes
<1>9. /\ d = "" => ch'[l] = EmptyAck
      /\ d = "direct" => ch'[l] \in {DirectAck, BothAcks}
  BY <1>2, <1>8, Channels DEF Handed
<1>10. LookupTypes'
  <2>1. ch'[l] \in {NoAck, EmptyAck, DirectAck, BothAcks}
    BY <1>3, <1>9
  <2>2. ch' \in [Lookup -> {NoAck, EmptyAck, DirectAck, BothAcks}]
    BY <1>6, <1>8, <2>1 DEF LookupInv, LookupTypes
  <2> QED BY <1>6, <2>2 DEF LookupInv, LookupTypes, lookups
<1>11. Hit' /\ Offered' /\ Told'
  BY <1>6 DEF LookupInv, Hit, Offered, Told, lookups
<1>12. Backlog'
  <2> SUFFICES ASSUME NEW m \in Lookup
               PROVE  /\ acked[m] = "no" => ch'[m] = NoAck /\ m \notin gotDirect
                      /\ acked[m] = "empty" => ch'[m] \in {NoAck, EmptyAck}
                                              /\ m \notin gotDirect
                      /\ acked[m] # "no" => \E e \in Conn : m \in offered[e]
    BY <1>6 DEF Backlog
  <2>1. CASE m = l
    BY <1>2, <1>3, <1>9, <2>1 DEF Handed, LookupInv, Backlog
  <2>2. CASE m # l
    BY <1>8, <2>2 DEF LookupInv, Backlog
  <2> QED BY <2>1, <2>2
<1>13. InHand'
  <2> SUFFICES ASSUME NEW e \in Conn, pc'[e] = "ack"
               PROVE  Handed(e, ack[e][1], ack[e][2])'
    BY DEF InHand
  <2>1. e # c /\ pc[e] = "ack" /\ ack'[e] = ack[e]
    BY <1>7
  <2>2. Handed(e, ack[e][1], ack[e][2])
    BY <2>1 DEF LookupInv, InHand
  <2>3. hit[ack[e][1]] = e /\ hit[l] = c
    BY <1>2, <2>2 DEF Handed, LookupInv, Offered
  <2>4. ack[e][1] \in Lookup \ {l}
    BY <2>1, <2>2, <2>3 DEF Handed, LookupInv, LookupTypes
  <2>5. ch'[ack[e][1]] = ch[ack[e][1]]
    BY <1>8, <2>4
  <2> QED BY <1>6, <2>1, <2>2, <2>5 DEF Handed
<1>14. Lingering'
  <2> SUFFICES ASSUME NEW m \in Lookup, lpc[m] = "linger", m \notin timedOut
               PROVE  /\ acked[m] # "no" /\ ch'[m] \in {NoAck, DirectAck}
                      /\ \A e \in Conn : pc'[e] = "ack" /\ ack'[e][1] = m =>
                           ack'[e][2] = "direct"
    BY <1>6 DEF Lingering, lookups
  <2>1. /\ acked[m] # "no" /\ ch[m] \in {NoAck, DirectAck}
        /\ \A e \in Conn : pc[e] = "ack" /\ ack[e][1] = m => ack[e][2] = "direct"
    BY DEF LookupInv, Lingering
  <2>2. \A e \in Conn : pc'[e] = "ack" /\ ack'[e][1] = m => ack'[e][2] = "direct"
    BY <1>7, <2>1
  <2>3. ch'[m] \in {NoAck, DirectAck}
    <3>1. CASE m = l
      <4>1. d = "direct"
        BY <1>1, <2>1, <3>1 DEF l, d
      <4>2. ch[l] = NoAck
        BY <1>2, <2>1, <3>1, <4>1, Channels DEF Handed
      <4> QED BY <1>8, <3>1, <4>1, <4>2, Channels
    <3>2. CASE m # l
      BY <1>8, <2>1, <3>2
    <3> QED BY <3>1, <3>2
  <2> QED BY <2>1, <2>2, <2>3
<1> QED BY <1>10, <1>11, <1>12, <1>13, <1>14 DEF LookupInv

-----------------------------------------------------------------------------
\* LGoto moves one lookup.
LEMMA LgotoType ==
  ASSUME LookupTypes, NEW l \in Lookup, NEW s \in LookupState, LGoto(l, s)
  PROVE  /\ lpc' \in [Lookup -> LookupState]
         /\ lpc'[l] = s
         /\ \A m \in Lookup \ {l} : lpc'[m] = lpc[m]
  BY DEF LookupTypes, LGoto

\* A lookup that finds a live slot keeps its connection for good.
LEMMA FindKeeps ==
  ASSUME RegTypes, LookupInv, NEW l \in Lookup, NEW k \in Key, Find(l, k)
  PROVE  LookupInv'
<1>1. /\ lpc[l] = "idle"
      /\ UNCHANGED <<pc, offered, acked, ack, gotDirect, timedOut, pending, ch, dropped>>
  BY DEF Find, agents, offers, acks
<1>2. \/ /\ hit' = [hit EXCEPT ![l] = slots[k]] /\ slots[k] \in Conn
         /\ LGoto(l, "pend") /\ UNCHANGED peer
      \/ /\ peer' = [peer EXCEPT ![l] = "absent"]
         /\ LGoto(l, "done") /\ UNCHANGED hit
  BY DEF Find, R!Found, R!Present, RegTypes
<1>3. /\ lpc' \in [Lookup -> LookupState] /\ lpc'[l] \in {"pend", "done"}
      /\ \A m \in Lookup \ {l} : lpc'[m] = lpc[m]
  BY <1>2, LgotoType DEF LookupInv, LookupState
<1>4. /\ hit' \in [Lookup -> Conn \cup {None}]
      /\ peer' \in [Lookup -> {"no", "absent"} \cup Direct]
      /\ \A m \in Lookup \ {l} : hit'[m] = hit[m] /\ peer'[m] = peer[m]
      /\ lpc'[l] = "pend" => hit'[l] \in Conn
      /\ lpc'[l] = "done" => hit'[l] = None
  <2>1. CASE /\ hit' = [hit EXCEPT ![l] = slots[k]] /\ slots[k] \in Conn
             /\ LGoto(l, "pend") /\ UNCHANGED peer
    <3>1. lpc'[l] = "pend"
      BY <2>1, LgotoType DEF LookupInv, LookupState
    <3> QED BY <2>1, <3>1 DEF LookupInv, LookupTypes
  <2>2. CASE /\ peer' = [peer EXCEPT ![l] = "absent"]
             /\ LGoto(l, "done") /\ UNCHANGED hit
    <3>1. lpc'[l] = "done"
      BY <2>2, LgotoType DEF LookupInv, LookupState
    <3>2. hit[l] = None
      BY <1>1 DEF LookupInv, Hit
    <3> QED BY <2>2, <3>1, <3>2 DEF LookupInv, LookupTypes
  <2> QED BY <1>2, <2>1, <2>2
<1>5. LookupTypes'
  BY <1>1, <1>3, <1>4 DEF LookupInv, LookupTypes
<1>6. Hit'
  BY <1>3, <1>4 DEF LookupInv, Hit
<1>7. Offered'
  <2>1. \A c \in Conn : l \notin offered[c]
    BY <1>1 DEF LookupInv, Offered
  <2>2. \A c \in Conn : offered[c] \subseteq Lookup \ {l}
    BY <2>1 DEF LookupInv, LookupTypes
  <2> QED BY <1>1, <1>3, <1>4, <2>2 DEF LookupInv, Offered
<1>8. Backlog' /\ InHand'
  BY <1>1 DEF LookupInv, Backlog, InHand, Handed
<1>9. Lingering'
  BY <1>1, <1>3 DEF LookupInv, Lingering
<1>10. Told'
  BY <1>1, <1>3, <1>4 DEF LookupInv, Told
<1> QED BY <1>5, <1>6, <1>7, <1>8, <1>9, <1>10 DEF LookupInv

\* The ack channel is announced before the offer is written.
LEMMA PendKeeps ==
  ASSUME LookupInv, NEW l \in Lookup, Pend(l)
  PROVE  LookupInv'
<1>1. /\ lpc[l] = "pend" /\ LGoto(l, "offer") /\ pending' = pending \cup {l}
      /\ UNCHANGED <<pc, offered, acked, ack, gotDirect, hit, peer, timedOut, ch,
                     dropped>>
  BY DEF Pend, agents, offers
<1>2. /\ lpc' \in [Lookup -> LookupState] /\ lpc'[l] = "offer"
      /\ \A m \in Lookup \ {l} : lpc'[m] = lpc[m]
  BY <1>1, LgotoType DEF LookupInv, LookupState
<1>3. LookupTypes'
  BY <1>1, <1>2 DEF LookupInv, LookupTypes
<1>4. Hit'
  BY <1>1, <1>2 DEF LookupInv, Hit
<1>5. Offered'
  <2>1. \A c \in Conn : offered[c] \subseteq Lookup \ {l}
    BY <1>1 DEF LookupInv, LookupTypes, Offered
  <2> QED BY <1>1, <1>2, <2>1 DEF LookupInv, Offered
<1>6. Backlog' /\ InHand'
  BY <1>1 DEF LookupInv, Backlog, InHand, Handed
<1>7. Lingering' /\ Told'
  BY <1>1, <1>2 DEF LookupInv, Lingering, Told
<1> QED BY <1>3, <1>4, <1>5, <1>6, <1>7 DEF LookupInv

\* The offer is the only one of its lookup.
LEMMA OfferKeeps ==
  ASSUME LookupInv, NEW l \in Lookup, Offer(l)
  PROVE  LookupInv'
<1>1. /\ lpc[l] = "offer" /\ LGoto(l, "wait")
      /\ offered' \in {offered, [offered EXCEPT ![hit[l]] = @ \cup {l}]}
      /\ UNCHANGED <<pc, acked, ack, gotDirect, hit, peer, timedOut, pending, ch,
                     dropped>>
  BY DEF Offer, agents, acks
<1>2. /\ lpc' \in [Lookup -> LookupState] /\ lpc'[l] = "wait"
      /\ \A m \in Lookup \ {l} : lpc'[m] = lpc[m]
  BY <1>1, LgotoType DEF LookupInv, LookupState
<1>3. hit[l] \in Conn
  BY <1>1 DEF LookupInv, Hit
<1>4. /\ offered' \in [Conn -> SUBSET Lookup]
      /\ \A c \in Conn : offered[c] \subseteq offered'[c]
      /\ \A c \in Conn : \A m \in offered'[c] : m \in offered[c] \/ (m = l /\ c = hit[l])
  BY <1>1, <1>3 DEF LookupInv, LookupTypes
<1>5. LookupTypes'
  BY <1>1, <1>2, <1>4 DEF LookupInv, LookupTypes
<1>6. Hit'
  BY <1>1, <1>2 DEF LookupInv, Hit
<1>7. Offered'
  <2> SUFFICES ASSUME NEW c \in Conn, NEW m \in offered'[c]
               PROVE  lpc'[m] \notin {"idle", "pend", "offer"} /\ hit[m] = c
    BY <1>1 DEF Offered
  <2>1. CASE m = l
    <3>1. m \notin offered[c]
      BY <1>1, <2>1 DEF LookupInv, Offered
    <3> QED BY <1>2, <1>4, <2>1, <3>1
  <2>2. CASE m # l
    <3>1. m \in offered[c] /\ m \in Lookup \ {l}
      BY <1>4, <2>2
    <3> QED BY <1>2, <3>1 DEF LookupInv, Offered
  <2> QED BY <2>1, <2>2
<1>8. Backlog'
  BY <1>1, <1>4 DEF LookupInv, Backlog
<1>9. InHand'
  BY <1>1, <1>4 DEF LookupInv, InHand, Handed
<1>10. Lingering' /\ Told'
  BY <1>1, <1>2 DEF LookupInv, Lingering, Told
<1> QED BY <1>5, <1>6, <1>7, <1>8, <1>9, <1>10 DEF LookupInv

\* The lookup takes the first ack of its channel; if that is empty, and was not
\* awaited in the linger, all that can still come is the direct candidate.
LEMMA TakeKeeps ==
  ASSUME LookupInv, NEW l \in Lookup, Acked(l) \/ LateAck(l)
  PROVE  LookupInv'
<1> DEFINE h == Head(ch[l])
<1>1. /\ lpc[l] \in {"wait", "linger"} /\ ch[l] # <<>>
      /\ peer' = [peer EXCEPT ![l] = h]
      /\ ch' = [ch EXCEPT ![l] = Tail(@)]
      /\ LGoto(l, IF lpc[l] = "wait" /\ h = "" THEN "linger" ELSE "unpend")
      /\ UNCHANGED <<pc, offered, acked, ack, gotDirect, hit, timedOut, pending, dropped>>
  BY DEF Acked, LateAck, agents, offers
<1>2. ch[l] \in {EmptyAck, DirectAck, BothAcks}
  BY <1>1 DEF LookupInv, LookupTypes, NoAck
<1>3. \/ ch[l] = EmptyAck /\ h = "" /\ ch'[l] = NoAck
      \/ ch[l] = DirectAck /\ h = "direct" /\ ch'[l] = NoAck
      \/ ch[l] = BothAcks /\ h = "" /\ ch'[l] = DirectAck
  <2>1. ch'[l] = Tail(ch[l])
    BY <1>1 DEF LookupInv, LookupTypes
  <2> QED BY <1>2, <2>1, Channels
<1>4. \A m \in Lookup \ {l} : ch'[m] = ch[m] /\ peer'[m] = peer[m]
  BY <1>1 DEF LookupInv, LookupTypes
<1>5. h \in Direct
  BY <1>3 DEF Direct
<1> HIDE DEF h
<1>6. /\ lpc' \in [Lookup -> LookupState]
      /\ lpc'[l] = IF lpc[l] = "wait" /\ h = "" THEN "linger" ELSE "unpend"
      /\ \A m \in Lookup \ {l} : lpc'[m] = lpc[m]
  BY <1>1, LgotoType DEF LookupInv, LookupState
<1>7. acked[l] # "no"
  BY <1>2, Channels DEF LookupInv, Backlog
<1>8. LookupTypes'
  <2>1. ch' \in [Lookup -> {NoAck, EmptyAck, DirectAck, BothAcks}]
    BY <1>1, <1>3, <1>4 DEF LookupInv, LookupTypes
  <2>2. peer' \in [Lookup -> {"no", "absent"} \cup Direct]
    BY <1>1, <1>5 DEF LookupInv, LookupTypes
  <2> QED BY <1>1, <1>6, <2>1, <2>2 DEF LookupInv, LookupTypes
<1>9. Hit' /\ Offered'
  <2>1. \A m \in Lookup : /\ lpc'[m] = "idle" => lpc[m] = "idle"
                          /\ lpc'[m] \notin {"idle", "done"} => lpc[m] \notin {"idle", "done"}
                          /\ lpc[m] \notin {"idle", "pend", "offer"} =>
                               lpc'[m] \notin {"idle", "pend", "offer"}
    BY <1>1, <1>6
  <2>2. \A c \in Conn : offered[c] \subseteq Lookup
    BY DEF LookupInv, LookupTypes
  <2>3. Hit'
    BY <1>1, <2>1 DEF LookupInv, Hit
  <2>4. Offered'
    BY <1>1, <2>1, <2>2 DEF LookupInv, Offered
  <2> QED BY <2>3, <2>4
<1>10. Backlog'
  <2> SUFFICES ASSUME NEW m \in Lookup
               PROVE  /\ acked[m] = "no" => ch'[m] = NoAck /\ m \notin gotDirect
                      /\ acked[m] = "empty" => ch'[m] \in {NoAck, EmptyAck}
                                              /\ m \notin gotDirect
                      /\ acked[m] # "no" => \E c \in Conn : m \in offered[c]
    BY <1>1 DEF Backlog
  <2>1. CASE m = l
    BY <1>3, <1>7, <2>1, Channels DEF LookupInv, Backlog
  <2>2. CASE m # l
    BY <1>4, <2>2 DEF LookupInv, Backlog
  <2> QED BY <2>1, <2>2
<1>11. InHand'
  <2> SUFFICES ASSUME NEW c \in Conn, pc[c] = "ack"
               PROVE  Handed(c, ack[c][1], ack[c][2])'
    BY <1>1 DEF InHand
  <2>1. Handed(c, ack[c][1], ack[c][2])
    BY DEF LookupInv, InHand
  <2>2. CASE ack[c][1] = l
    <3>1. ack[c][2] = "direct" /\ ch[l] = EmptyAck
      BY <1>2, <2>1, <2>2, Channels DEF Handed, Direct
    <3>2. ch'[l] = NoAck
      BY <1>3, <3>1, Channels
    <3> QED BY <1>1, <2>1, <2>2, <3>1, <3>2 DEF Handed
  <2>3. CASE ack[c][1] # l
    <3>1. ack[c][1] \in Lookup \ {l}
      BY <2>1, <2>3 DEF Handed, LookupInv, LookupTypes
    <3>2. ch'[ack[c][1]] = ch[ack[c][1]]
      BY <1>4, <3>1
    <3> QED BY <1>1, <2>1, <3>2 DEF Handed
  <2> QED BY <2>2, <2>3
<1>12. Lingering'
  <2> SUFFICES ASSUME NEW m \in Lookup, lpc'[m] = "linger", m \notin timedOut
               PROVE  /\ acked[m] # "no" /\ ch'[m] \in {NoAck, DirectAck}
                      /\ \A c \in Conn : pc[c] = "ack" /\ ack[c][1] = m =>
                           ack[c][2] = "direct"
    BY <1>1 DEF Lingering
  <2>1. CASE m = l
    <3>1. ch'[l] \in {NoAck, DirectAck}
      BY <1>3
    <3>2. ASSUME NEW c \in Conn, pc[c] = "ack", ack[c][1] = l
          PROVE  ack[c][2] = "direct"
      <4>1. Handed(c, l, ack[c][2])
        BY <3>2 DEF LookupInv, InHand
      <4> QED BY <1>2, <4>1, Channels DEF Handed, Direct
    <3> QED BY <1>7, <2>1, <3>1, <3>2
  <2>2. CASE m # l
    BY <1>4, <1>6, <2>2 DEF LookupInv, Lingering
  <2> QED BY <2>1, <2>2
<1>13. Told'
  <2> SUFFICES ASSUME NEW m \in Lookup, lpc'[m] \in {"unpend", "done"}, m \notin timedOut,
                      hit[m] # None
               PROVE  peer'[m] = "direct"
    BY <1>1 DEF Told
  <2>1. CASE m = l
    <3>1. ~(lpc[l] = "wait" /\ h = "")
      BY <1>6, <2>1
    <3>2. h = "direct"
      <4>1. CASE lpc[l] = "wait"
        BY <1>3, <3>1, <4>1
      <4>2. CASE lpc[l] = "linger"
        <5>1. ch[l] \in {NoAck, DirectAck}
          BY <2>1, <4>2 DEF LookupInv, Lingering
        <5> QED BY <1>3, <5>1, Channels
      <4> QED BY <1>1, <4>1, <4>2
    <3> QED BY <1>1, <2>1, <3>2 DEF LookupInv, LookupTypes
  <2>2. CASE m # l
    BY <1>4, <1>6, <2>2 DEF LookupInv, Told
  <2> QED BY <2>1, <2>2
<1> QED BY <1>8, <1>9, <1>10, <1>11, <1>12, <1>13 DEF LookupInv

\* A timer of the lookup fires, or the lookup is over.
LEMMA MoveOnKeeps ==
  ASSUME LookupInv, NEW l \in Lookup, AckTimeout(l) \/ LingerTimeout(l) \/ Unpend(l)
  PROVE  LookupInv'
<1>1. /\ UNCHANGED <<pc, offered, acked, ack, gotDirect, hit, ch, dropped>>
      /\ pending' \in SUBSET Lookup
      /\ peer' \in {peer, [peer EXCEPT ![l] = ""]}
      /\ \/ /\ lpc[l] \in {"wait", "linger"} /\ timedOut' = timedOut \cup {l}
            /\ LGoto(l, "linger") \/ LGoto(l, "unpend")
         \/ /\ lpc[l] = "unpend" /\ UNCHANGED <<timedOut, peer>> /\ LGoto(l, "done")
  BY DEF AckTimeout, LingerTimeout, Unpend, agents, offers, acks, LookupInv, LookupTypes
<1>2. /\ lpc' \in [Lookup -> LookupState]
      /\ \A m \in Lookup \ {l} : lpc'[m] = lpc[m]
      /\ lpc'[l] \in {"linger", "unpend", "done"}
      /\ lpc[l] \in {"wait", "linger", "unpend"}
      /\ \/ l \in timedOut'
         \/ lpc[l] = "unpend" /\ lpc'[l] = "done" /\ UNCHANGED <<timedOut, peer>>
  BY <1>1, LgotoType DEF LookupInv, LookupState
<1>3. /\ peer' \in [Lookup -> {"no", "absent"} \cup Direct]
      /\ \A m \in Lookup \ {l} : /\ peer'[m] = peer[m]
                                 /\ m \in timedOut' <=> m \in timedOut
      /\ timedOut' \in SUBSET Lookup
  BY <1>1 DEF LookupInv, LookupTypes, Direct
<1>4. LookupTypes'
  BY <1>1, <1>2, <1>3 DEF LookupInv, LookupTypes
<1>5. Hit'
  BY <1>1, <1>2 DEF LookupInv, Hit
<1>6. Offered'
  <2>1. \A c \in Conn : offered[c] \subseteq Lookup
    BY DEF LookupInv, LookupTypes
  <2>2. \A m \in Lookup : lpc[m] \notin {"idle", "pend", "offer"} =>
                            lpc'[m] \notin {"idle", "pend", "offer"}
    BY <1>2
  <2> QED BY <1>1, <2>1, <2>2 DEF LookupInv, Offered
<1>7. Backlog' /\ InHand'
  BY <1>1 DEF LookupInv, Backlog, InHand, Handed
<1>8. Lingering'
  <2>1. \A m \in Lookup : lpc'[m] = "linger" /\ m \notin timedOut' =>
                            lpc[m] = "linger" /\ m \notin timedOut
    BY <1>2, <1>3
  <2> QED BY <1>1, <2>1 DEF LookupInv, Lingering
<1>9. Told'
  <2>1. \A m \in Lookup : lpc'[m] \in {"unpend", "done"} /\ m \notin timedOut' =>
                            /\ lpc[m] \in {"unpend", "done"} /\ m \notin timedOut
                            /\ peer'[m] = peer[m]
    BY <1>2, <1>3
  <2> QED BY <1>1, <2>1 DEF LookupInv, Told
<1> QED BY <1>4, <1>5, <1>6, <1>7, <1>8, <1>9 DEF LookupInv

\* No lookup has begun yet.
LEMMA LookupInit == Init => LookupInv
<1> SUFFICES ASSUME Init PROVE LookupInv
  OBVIOUS
<1>1. LookupTypes
  BY DEF Init, LookupTypes, LookupState, NoAck
<1>2. Hit /\ Offered /\ Lingering /\ Told
  BY DEF Init, Hit, Offered, Lingering, Told
<1>3. Backlog /\ InHand
  BY DEF Init, Backlog, InHand, NoAck
<1> QED BY <1>1, <1>2, <1>3 DEF LookupInv

-----------------------------------------------------------------------------
\* The inductive invariant.
IInv == AgentInv /\ LookupInv

\* The invariant holds at the start.
LEMMA Typing == Init => IInv
  BY AgentInit, LookupInit DEF IInv

\* Every step keeps the invariant.
LEMMA StepKeeps == IInv /\ [Next]_vars => IInv'
<1> SUFFICES ASSUME IInv, [Next]_vars PROVE IInv'
  OBVIOUS
<1>0. AgentInv /\ LookupInv /\ AgentTypes /\ RegTypes
  BY DEF IInv, AgentInv
<1>1. ASSUME NEW c \in Conn,
             Agent(c) \/ Hello(c) \/ Ping(c) \/ ReadOther(c) \/ Fails(c)
      PROVE  IInv'
  <2>1. AgentInv'
    BY <1>0, <1>1, AgentStepKeeps
  <2>2. CASE HandOver(c)
    BY <1>0, <2>1, <2>2, HandOverKeeps DEF IInv
  <2>3. CASE Register(c) \/ SlotTaken(c) \/ Ping(c) \/ CheckListed(c) \/ Depart(c)
    <3>1. /\ UNCHANGED <<offers, lookups, acks>>
          /\ \E s \in HandlerState \ {"ack"} : Goto(c, s)
      BY <2>3 DEF Register, SlotTaken, Ping, CheckListed, Depart, HandlerState, Serving
    <3>2. \A d \in Conn : pc'[d] = "ack" => pc[d] = "ack"
      BY <1>0, <3>1, GotoType
    <3>3. LookupInv'
      BY <1>0, <3>1, <3>2, OtherStepsKeep
    <3> QED BY <2>1, <3>3 DEF IInv
  <2>4. CASE \/ Hello(c) \/ CheckCount(c) \/ Prove(c) \/ ProofFails(c)
             \/ ReadFails(c) \/ SendReady(c) \/ SendPong(c) \/ ReadOther(c)
    <3>1. /\ UNCHANGED <<offers, lookups, acks>>
          /\ \E s \in HandlerState \ {"ack"} : Goto(c, s)
      BY <2>4 DEF Hello, CheckCount, Prove, ProofFails, ReadFails, SendReady, SendPong,
                  ReadOther, Listen, HandlerState, Serving
    <3>2. \A d \in Conn : pc'[d] = "ack" => pc[d] = "ack"
      BY <1>0, <3>1, GotoType
    <3>3. LookupInv'
      BY <1>0, <3>1, <3>2, OtherStepsKeep
    <3> QED BY <2>1, <3>3 DEF IInv
  <2>5. CASE Fails(c)
    <3>1. UNCHANGED <<pc, offers, lookups, acks>>
      BY <2>5 DEF Fails
    <3>2. LookupInv'
      BY <1>0, <3>1, OtherStepsKeep
    <3> QED BY <2>1, <3>2 DEF IInv
  <2> QED BY <1>1, <2>2, <2>3, <2>4, <2>5 DEF Agent
<1>2. ASSUME NEW c \in Conn, NEW l \in Lookup, NEW d \in Direct, ReadAck(c, l, d)
      PROVE  IInv'
  BY <1>0, <1>2, ReadAckAgents, ReadAckLookups DEF IInv
<1>3. ASSUME NEW l \in Lookup, Client(l)
      PROVE  IInv'
  <2>1. AgentInv'
    BY <1>0, <1>3, ClientAgents
  <2>2. LookupInv'
    BY <1>0, <1>3, PendKeeps, OfferKeeps, TakeKeeps, MoveOnKeeps DEF Client
  <2> QED BY <2>1, <2>2 DEF IInv
<1>4. ASSUME NEW l \in Lookup, NEW k \in Key, Find(l, k)
      PROVE  IInv'
  BY <1>0, <1>4, ClientAgents, FindKeeps DEF IInv
<1>5. CASE Sweep
  <2>1. UNCHANGED <<pc, offers, lookups, acks>>
    BY <1>5 DEF Sweep, agents
  <2> QED BY <1>0, <1>5, <2>1, ClientAgents, OtherStepsKeep DEF IInv
<1>6. CASE Tick
  <2>1. UNCHANGED <<pc, offers, lookups, acks>>
    BY <1>6 DEF Tick
  <2> QED BY <1>0, <1>6, <2>1, TickKeeps, OtherStepsKeep DEF IInv
<1>7. CASE UNCHANGED vars
  <2>1. UNCHANGED <<pc, offers, lookups, acks>>
    BY <1>7 DEF vars, agents
  <2> QED BY <1>0, <1>7, <2>1, ClientAgents, OtherStepsKeep DEF IInv
<1> QED BY <1>1, <1>2, <1>3, <1>4, <1>5, <1>6, <1>7 DEF Next

\* The inductive invariant is an invariant.
LEMMA Invariance == Spec => []IInv
  BY Typing, StepKeeps, PTL DEF Spec

\* The introducer is well typed: a key leads to an agent connection or to
\* nothing, no lease is longer than the TTL and every handler is at one place.
THEOREM TypeCorrect == Spec => []TypeOK
<1>1. IInv => TypeOK
  <2> SUFFICES ASSUME IInv PROVE TypeOK
    OBVIOUS
  <2>1. ch \in [Lookup -> Seq(Direct)]
    BY Channels DEF IInv, LookupInv, LookupTypes
  <2> QED BY <2>1 DEF IInv, AgentInv, RegTypes, AgentTypes, LookupInv, LookupTypes, TypeOK
<1> QED BY Invariance, <1>1, PTL

\* A key leads only to a connection whose handler has yet to run its deferred
\* Remove (agent.go:124).
THEOREM EveryEntryAlwaysServed == Spec => []EveryEntryServed
<1>1. IInv => EveryEntryServed
  BY DEF IInv, AgentInv
<1> QED BY Invariance, <1>1, PTL

\* An agent is listed under all of its keys or under none, whatever refusals,
\* expiries and shared rids do (registry.go:100-106).
THEOREM SlotsAreWhole == Spec => []WholeSlot
<1>1. IInv => WholeSlot
  <2> SUFFICES ASSUME IInv, NEW c \in Conn
               PROVE  {k \in Key : slots[k] = c} \in {{}, KeysOf(c)}
    BY DEF WholeSlot
  <2>1. CASE Unlisted(c)
    BY <2>1 DEF Unlisted
  <2>2. CASE \A k \in Key : slots[k] = c <=> k \in KeysOf(c)
    BY <2>2, KeysAreKeys
  <2> QED BY <2>1, <2>2 DEF IInv, AgentInv, Whole
<1> QED BY Invariance, <1>1, PTL

\* An agent that pings in time is found under every one of its keys for as long
\* as its handler runs (agent.go:140-142).
THEOREM RenewingAgentStaysListed == Spec => []AgentStaysListed
<1>1. IInv => AgentStaysListed
  <2> SUFFICES ASSUME IInv, NEW c \in Conn, pc[c] \in Serving, c \notin lapsed,
                      NEW k \in KeysOf(c)
               PROVE  R!HolderOf(k) = c
    BY DEF AgentStaysListed
  <2>1. slots[k] = c /\ life[c] # 0
    BY StaleAreIdle DEF IInv, AgentInv, Renewed
  <2> QED BY <2>1, NoneAssumption DEF R!HolderOf, R!Found, R!Present, R!Expired
<1> QED BY Invariance, <1>1, PTL

\* An ack never finds the channel of a pending lookup full (client.go:75).
THEOREM AcksAlwaysLand == Spec => []AckLands
<1>1. IInv => AckLands
  BY DEF IInv, LookupInv, LookupTypes, AckLands
<1> QED BY Invariance, <1>1, PTL

\* A direct candidate the server read while the lookup was pending is what the
\* client is answered, unless a timer fired first (client.go:94-121).
THEOREM DirectAlwaysReachesClient == Spec => []DirectReachesClient
<1>1. IInv => DirectReachesClient
  <2> SUFFICES ASSUME IInv, NEW l \in gotDirect, lpc[l] = "done", l \notin timedOut
               PROVE  peer[l] = "direct"
    BY DEF DirectReachesClient
  <2>1. l \in Lookup
    BY DEF IInv, LookupInv, LookupTypes
  <2>2. PICK c \in Conn : l \in offered[c]
    BY <2>1 DEF IInv, LookupInv, Backlog
  <2>3. hit[l] # None
    BY <2>2, NoneAssumption DEF IInv, LookupInv, Offered
  <2> QED BY <2>1, <2>3 DEF IInv, LookupInv, Told
<1> QED BY Invariance, <1>1, PTL

-----------------------------------------------------------------------------
(***************************************************************************)
(* What a step can do to the registry.                                     *)
(***************************************************************************)

\* Some expired slots are deleted, and nothing else happens to the registry.
Forgets == /\ \E S \in SUBSET Conn : /\ slots' = R!Without(S)
                                     /\ \A s \in S : life[s] = 0
           /\ life' = life

\* Of all the actions only four do more to the registry than to forget expired
\* slots.
LEMMA RegistrySteps ==
  ASSUME RegTypes, [Next]_vars
  PROVE  \/ UNCHANGED <<slots, life>>
         \/ Forgets
         \/ \E c \in Conn : Register(c) \/ Ping(c) \/ Depart(c)
         \/ Tick
<1>1. ASSUME NEW c \in Conn,
             Agent(c) \/ Hello(c) \/ ReadOther(c) \/ Fails(c),
             ~Register(c), ~Depart(c)
      PROVE  UNCHANGED <<slots, life>> \/ Forgets
  <2>1. CASE CheckListed(c)
    <3> DEFINE S == {slots[aid[c]]} \cap {s \in Conn : life[s] = 0}
    <3>1. slots' = R!Without(S) /\ life' = life
      BY <2>1 DEF CheckListed, R!Get, R!Expired
    <3>2. S \in SUBSET Conn /\ \A s \in S : life[s] = 0
      OBVIOUS
    <3> QED BY <3>1, <3>2 DEF Forgets
  <2>2. CASE SlotTaken(c)
    <3>1. PICK P \in SUBSET (KeysOf(c) \ R!Conflicts(c, KeysOf(c))) :
            slots' = R!Without(R!StaleOn(P))
      BY <2>2 DEF SlotTaken, R!UpsertRefused
    <3>2. /\ R!StaleOn(P) \in SUBSET Conn
          /\ \A s \in R!StaleOn(P) : life[s] = 0
      BY KeysAreKeys DEF R!StaleOn, R!Expired, R!Present, RegTypes
    <3>3. life' = life
      BY <2>2 DEF SlotTaken, R!UpsertRefused
    <3> QED BY <3>1, <3>2, <3>3 DEF Forgets
  <2>3. CASE \/ Hello(c) \/ CheckCount(c) \/ Prove(c) \/ ProofFails(c)
             \/ ReadFails(c) \/ SendReady(c) \/ SendPong(c) \/ HandOver(c)
             \/ ReadOther(c) \/ Fails(c)
    BY <2>3 DEF Hello, CheckCount, Prove, ProofFails, ReadFails, SendReady,
                SendPong, HandOver, ReadOther, Fails, reg
  <2> QED BY <1>1, <2>1, <2>2, <2>3 DEF Agent
<1>2. ASSUME NEW c \in Conn, NEW l \in Lookup, NEW d \in Direct, ReadAck(c, l, d)
      PROVE  UNCHANGED <<slots, life>>
  BY <1>2 DEF ReadAck, reg
<1>3. ASSUME NEW l \in Lookup, Client(l)
      PROVE  UNCHANGED <<slots, life>>
  BY <1>3 DEF Client, Pend, Offer, Acked, AckTimeout, LateAck, LingerTimeout,
              Unpend, reg
<1>4. ASSUME NEW l \in Lookup, NEW k \in Key, Find(l, k)
      PROVE  Forgets
  <2> DEFINE S == {slots[k]} \cap {s \in Conn : life[s] = 0}
  <2>1. slots' = R!Without(S) /\ life' = life
    BY <1>4 DEF Find, R!Get, R!Expired
  <2>2. S \in SUBSET Conn /\ \A s \in S : life[s] = 0
    OBVIOUS
  <2> QED BY <2>1, <2>2 DEF Forgets
<1>5. ASSUME Sweep
      PROVE  Forgets
  <2> DEFINE S == {s \in Conn : life[s] = 0}
  <2>1. slots' = R!Without(S) /\ life' = life
    BY <1>5 DEF Sweep, R!Sweep, R!Expired
  <2>2. S \in SUBSET Conn /\ \A s \in S : life[s] = 0
    OBVIOUS
  <2> QED BY <2>1, <2>2 DEF Forgets
<1>6. ASSUME UNCHANGED vars
      PROVE  UNCHANGED <<slots, life>>
  BY <1>6 DEF vars, reg
<1> QED BY <1>1, <1>2, <1>3, <1>4, <1>5, <1>6 DEF Next

\* A slot that keeps its key and some lease still answers for it.
LEMMA StillHolds ==
  ASSUME RegTypes, NEW k \in Key, R!HolderOf(k) # None,
         slots'[k] = slots[k],
         life'[slots[k]] # 0
  PROVE  R!HolderOf(k)' = R!HolderOf(k)
  BY DEF R!HolderOf, R!Found, R!Present, R!Expired

\* The one step, other than time, that takes a live agent's key.
LEMMA DisplacedStep ==
  ASSUME IInv, Next, NEW k \in Key,
         R!HolderOf(k) \notin {None, R!HolderOf(k)'}
  PROVE  Depart(R!HolderOf(k)) \/ (Tick /\ life[R!HolderOf(k)] = 1)
<1> DEFINE c == R!HolderOf(k)
<1>1. c \in Conn /\ slots[k] = c /\ life[c] \in 0..TTL /\ life[c] # 0
  BY DEF R!HolderOf, R!Found, R!Present, R!Expired, IInv, AgentInv, RegTypes
<1>2. RegTypes /\ Whole
  BY DEF IInv, AgentInv
<1>3. ~(slots'[k] = slots[k] /\ life'[c] # 0)
  BY <1>1, <1>2, StillHolds
<1> HIDE DEF c
<1>4. ASSUME NEW S, slots' = R!Without(S), c \notin S, life' = life
      PROVE  FALSE
  <2>1. slots'[k] = slots[k]
    BY <1>1, <1>2, <1>4, WithoutIs
  <2> QED BY <1>1, <1>3, <1>4, <2>1
<1>5. ASSUME Forgets
      PROVE  FALSE
  <2>1. PICK S \in SUBSET Conn : slots' = R!Without(S) /\ \A s \in S : life[s] = 0
    BY <1>5 DEF Forgets
  <2>2. c \notin S /\ life' = life
    BY <1>1, <1>5, <2>1 DEF Forgets
  <2> QED BY <1>4, <2>1, <2>2
<1>6. ASSUME NEW d \in Conn, Register(d)
      PROVE  FALSE
  <2> DEFINE K == KeysOf(d)
  <2>1. /\ slots' = [j \in Key |-> IF j \in K THEN d ELSE R!Without(R!StaleOn(K))[j]]
        /\ life' = [life EXCEPT ![d] = TTL]
        /\ Unlisted(d) /\ R!Conflicts(d, K) = {}
    BY <1>6 DEF Register, R!Upsert, Unlisted
  <2>2. c # d /\ life'[c] = life[c]
    BY <1>1, <1>2, <2>1 DEF Unlisted, RegTypes
  <2>3. k \notin K
    <3>1. k \in K => k \in R!Conflicts(d, K)
      BY <1>1, <2>2, NoneAssumption DEF R!Conflicts, R!Present, R!Expired
    <3> QED BY <2>1, <3>1
  <2>4. c \notin R!StaleOn(K)
    BY <1>1 DEF R!StaleOn, R!Expired
  <2>5. R!Without(R!StaleOn(K))[k] = slots[k]
    BY <1>1, <1>2, <2>4, WithoutIs
  <2>6. slots'[k] = slots[k]
    BY <2>1, <2>3, <2>5
  <2> QED BY <1>1, <1>3, <2>2, <2>6
<1>7. ASSUME NEW d \in Conn, Ping(d)
      PROVE  FALSE
  <2>1. slots' = slots /\ (life'[c] = life[c] \/ life'[c] = TTL)
    BY <1>1, <1>2, <1>7 DEF Ping, R!Touch, RegTypes
  <2> QED BY <1>1, <1>3, <2>1, TimeAssumption
<1>8. ASSUME NEW d \in Conn, Depart(d)
      PROVE  Depart(c)
  <2> DEFINE S == {slots[aid[d]]} \cap {s \in Conn : s = d}
  <2>1. slots' = R!Without(S) /\ life' = life
    BY <1>8 DEF Depart, R!Remove
  <2>2. c \in S
    BY <1>4, <2>1
  <2>3. c = d
    BY <2>2
  <2> QED BY <1>8, <2>3
<1>9. ASSUME Tick
      PROVE  life[c] = 1
  <2>1. /\ life' = [s \in Conn |-> IF life[s] > 0 THEN life[s] - 1 ELSE 0]
        /\ slots' = slots
    BY <1>9 DEF Tick, R!Tick, R!Aged
  <2>2. life[c] > 0
    BY <1>1, TimeAssumption
  <2>3. life'[c] = life[c] - 1
    BY <1>1, <2>1, <2>2
  <2>4. life'[c] = 0
    BY <1>3, <2>1
  <2> QED BY <1>1, <2>3, <2>4, TimeAssumption
<1>10. ~UNCHANGED <<slots, life>>
  BY <1>1, <1>3
<1> QED BY <1>2, <1>5, <1>6, <1>7, <1>8, <1>9, <1>10, RegistrySteps DEF c

\* A1 for the system (registry.go:32-34): a live agent stops being found under a
\* key only by its own departure or at the end of its lease.
THEOREM NobodyDisplaced == Spec => NeverDisplaced
<1>1. ASSUME IInv, [Next]_vars
      PROVE  [\A k \in Key : LET c == R!HolderOf(k) IN
                c \notin {None, R!HolderOf(k)'} =>
                  Depart(c) \/ (Tick /\ life[c] = 1)]_vars
  BY <1>1, DisplacedStep
<1> QED BY Invariance, <1>1, PTL DEF Spec, NeverDisplaced

-----------------------------------------------------------------------------
(***************************************************************************)
(* The introducer implements Directory.                                    *)
(***************************************************************************)

\* The two answers of Directory, without the slot object in between.
LEMMA Answers ==
  ASSUME RegTypes, NEW k \in Key
  PROVE  LET live == slots[k] # None /\ life[slots[k]] # 0 IN
         /\ R!HolderOf(k) = IF live THEN slots[k] ELSE None
         /\ R!LeaseOf(k) = IF live THEN life[slots[k]] ELSE 0
  BY NoneAssumption DEF RegTypes, R!HolderOf, R!LeaseOf, R!Found, R!Present, R!Expired

\* The step changes nothing in what a lookup of k would be answered.
Same(k) == R!HolderOf(k)' = R!HolderOf(k) /\ R!LeaseOf(k)' = R!LeaseOf(k)

\* A key that keeps its slot, whose lease stays, keeps its answer.
LEMMA KeptSame ==
  ASSUME RegTypes, RegTypes', NEW k \in Key, slots'[k] = slots[k],
         slots[k] # None => life'[slots[k]] = life[slots[k]]
  PROVE  Same(k)
  BY Answers DEF Same, R!HolderOf, R!LeaseOf, R!Found, R!Present, R!Expired

\* Deleting expired slots changes no answer.
LEMMA ExpirySame ==
  ASSUME RegTypes, Whole, NEW S, slots' = R!Without(S), life' = life,
         \A s \in S : s \in Conn => life[s] = 0
  PROVE  \A k \in Key : Same(k)
<1> SUFFICES ASSUME NEW k \in Key PROVE Same(k)
  OBVIOUS
<1>1. slots'[k] = IF slots[k] \in S /\ slots[k] # None THEN None ELSE slots[k]
  BY WithoutIs
<1>2. CASE slots'[k] = slots[k]
  BY <1>2 DEF Same, R!HolderOf, R!LeaseOf, R!Found, R!Present, R!Expired
<1>3. CASE slots'[k] # slots[k]
  <2>1. slots'[k] = None /\ slots[k] \in Conn /\ life[slots[k]] = 0
    BY <1>1, <1>3 DEF RegTypes
  <2> QED BY <2>1 DEF Same, R!HolderOf, R!LeaseOf, R!Found, R!Present, R!Expired
<1> QED BY <1>2, <1>3

\* A step that changes no answer is a stutter of Directory.
LEMMA SameRefines == (\A k \in Key : Same(k)) => UNCHANGED R!D!vars
  BY DEF Same, R!D!vars

\* A step that gives c the keys K, which nobody else held, is a claim.
LEMMA ClaimRefines ==
  ASSUME NEW c \in Conn, NEW K \in SUBSET Key,
         \A k \in K : /\ R!HolderOf(k) \in {None, c}
                      /\ R!HolderOf(k)' = c /\ R!LeaseOf(k)' = TTL,
         \A k \in Key \ K : Same(k)
  PROVE  R!D!Next
<1>1. R!D!Claim(c, K)
  BY DEF R!D!Claim, Same
<1> QED BY <1>1 DEF R!D!Next

\* Register claims all the keys of the agent.
LEMMA RegisterRefines ==
  ASSUME RegTypes, RegTypes', Whole, NEW c \in Conn, Register(c)
  PROVE  R!D!Next
<1> DEFINE K == KeysOf(c)
           W == R!Without(R!StaleOn(K))
<1>1. /\ slots' = [k \in Key |-> IF k \in K THEN c ELSE W[k]]
      /\ life' = [life EXCEPT ![c] = TTL]
      /\ Unlisted(c) /\ R!Conflicts(c, K) = {}
  BY DEF Register, R!Upsert, Unlisted
<1>2. K \in SUBSET Key
  BY KeysAreKeys
<1>3. \A k \in Key : W[k] = IF slots[k] \in R!StaleOn(K) /\ slots[k] # None
                              THEN None ELSE slots[k]
  BY WithoutIs
<1>4. \A s \in R!StaleOn(K) : life[s] = 0
  BY DEF R!StaleOn, R!Expired
<1> HIDE DEF W
<1>5. ASSUME NEW k \in K
      PROVE  /\ R!HolderOf(k) \in {None, c}
             /\ R!HolderOf(k)' = c /\ R!LeaseOf(k)' = TTL
  <2>1. R!HolderOf(k) \in {None, c}
    BY <1>1 DEF R!Conflicts, R!HolderOf, R!Found
  <2>2. slots'[k] = c /\ life'[c] = TTL /\ TTL # 0
    BY <1>1, <1>2, TimeAssumption DEF RegTypes
  <2>3. R!HolderOf(k)' = c /\ R!LeaseOf(k)' = TTL
    BY <2>2, NoneAssumption
       DEF R!HolderOf, R!LeaseOf, R!Found, R!Present, R!Expired
  <2> QED BY <2>1, <2>3
<1>6. ASSUME NEW k \in Key \ K
      PROVE  Same(k)
  <2>1. slots'[k] = W[k]
    BY <1>1
  <2>2. CASE slots'[k] = slots[k]
    <3>1. slots[k] # None => life'[slots[k]] = life[slots[k]]
      BY <1>1 DEF RegTypes, Unlisted
    <3> QED BY <2>2, <3>1, KeptSame
  <2>3. CASE slots'[k] # slots[k]
    <3>1. slots'[k] = None /\ life[slots[k]] = 0
      BY <1>3, <1>4, <2>1, <2>3
    <3> QED BY <3>1 DEF Same, R!HolderOf, R!LeaseOf, R!Found, R!Present, R!Expired
  <2> QED BY <2>2, <2>3
<1> QED BY <1>2, <1>5, <1>6, ClaimRefines

\* Ping claims, or renews, whatever keys lead to the slot of the aid.
LEMMA PingRefines ==
  ASSUME RegTypes, RegTypes', NEW c \in Conn, Ping(c)
  PROVE  [R!D!Next]_(R!D!vars)
<1> DEFINE e == slots[aid[c]]
           K == {k \in Key : slots[k] = e}
<1>1. /\ slots' = slots
      /\ life' = IF e # None THEN [life EXCEPT ![e] = TTL] ELSE life
  BY DEF Ping, R!Touch, R!Present
<1>2. CASE e # None
  <2>1. e \in Conn /\ K \in SUBSET Key
    BY <1>2, HelloAssumption DEF RegTypes
  <2>2. life'[e] = TTL /\ TTL # 0
    BY <1>1, <1>2, <2>1, TimeAssumption DEF RegTypes
  <2>3. ASSUME NEW k \in K
        PROVE  /\ R!HolderOf(k) \in {None, e}
               /\ R!HolderOf(k)' = e /\ R!LeaseOf(k)' = TTL
    <3>1. slots[k] = e /\ slots'[k] = e
      BY <1>1
    <3> QED BY <1>2, <2>1, <2>2, <3>1
            DEF R!HolderOf, R!LeaseOf, R!Found, R!Present, R!Expired
  <2>4. ASSUME NEW k \in Key \ K
        PROVE  Same(k)
    <3>1. slots[k] # None => life'[slots[k]] = life[slots[k]]
      BY <1>1, <2>1 DEF RegTypes
    <3> QED BY <1>1, <3>1, KeptSame
  <2> QED BY <2>1, <2>3, <2>4, ClaimRefines
<1>3. CASE e = None
  <2>1. \A k \in Key : Same(k)
    BY <1>1, <1>3, KeptSame
  <2> QED BY <2>1, SameRefines
<1> QED BY <1>2, <1>3

\* Depart gives up the keys the connection still held, if any.
LEMMA DepartRefines ==
  ASSUME RegTypes, RegTypes', Whole, NEW c \in Conn, Depart(c)
  PROVE  R!D!Next
<1> DEFINE S == {slots[aid[c]]} \cap {s \in Conn : s = c}
           K == {k \in Key : slots[k] = c /\ slots[aid[c]] = c /\ R!HolderOf(k) = c}
<1>1. slots' = R!Without(S) /\ life' = life
  BY DEF Depart, R!Remove
<1>2. \A k \in Key : slots'[k] = IF slots[k] \in S /\ slots[k] # None
                                   THEN None ELSE slots[k]
  BY <1>1, WithoutIs
<1>3. ASSUME NEW k \in K
      PROVE  R!HolderOf(k) = c /\ R!HolderOf(k)' = None /\ R!LeaseOf(k)' = 0
  <2>1. slots'[k] = None
    BY <1>2
  <2> QED BY <2>1 DEF R!HolderOf, R!LeaseOf, R!Found, R!Present
<1>4. ASSUME NEW k \in Key \ K
      PROVE  Same(k)
  <2>1. CASE slots'[k] = slots[k]
    BY <1>1, <2>1, KeptSame
  <2>2. CASE slots'[k] # slots[k]
    <3>1. slots'[k] = None /\ slots[k] = c /\ slots[aid[c]] = c
      BY <1>2, <2>2
    <3>2. life[c] = 0
      BY <3>1, NoneAssumption DEF R!HolderOf, R!Found, R!Present, R!Expired
    <3> QED BY <3>1, <3>2 DEF Same, R!HolderOf, R!LeaseOf, R!Found, R!Present, R!Expired
  <2> QED BY <2>1, <2>2
<1> HIDE DEF K
<1>5. R!D!Release(c, K)
  <2>1. K \in SUBSET Key
    BY DEF K
  <2> QED BY <1>3, <1>4, <2>1 DEF R!D!Release, Same
<1>6. K \in SUBSET Key
  BY DEF K
<1> QED BY <1>5, <1>6 DEF R!D!Next

\* Tick is the passing of time in Directory.
LEMMA TickRefines ==
  ASSUME RegTypes, RegTypes', Tick
  PROVE  R!D!Next
<1>1. /\ slots' = slots
      /\ life' = [s \in Conn |-> IF life[s] > 0 THEN life[s] - 1 ELSE 0]
  BY DEF Tick, R!Tick, R!Aged
<1>2. ASSUME NEW k \in Key
      PROVE  /\ R!LeaseOf(k)' = IF R!LeaseOf(k) > 0 THEN R!LeaseOf(k) - 1 ELSE 0
             /\ R!HolderOf(k)' = IF R!LeaseOf(k) > 1 THEN R!HolderOf(k) ELSE None
  <2>1. CASE slots[k] = None
    BY <1>1, <2>1 DEF R!HolderOf, R!LeaseOf, R!Found, R!Present
  <2>2. CASE slots[k] # None
    <3>1. slots[k] \in Conn /\ life[slots[k]] \in 0..TTL
      BY <2>2 DEF RegTypes
    <3>2. life'[slots[k]] = IF life[slots[k]] > 0 THEN life[slots[k]] - 1 ELSE 0
      BY <1>1, <3>1
    <3>3. life[slots[k]] \in Nat
      BY <3>1, TimeAssumption
    <3> QED BY <1>1, <2>2, <3>1, <3>2, <3>3
            DEF R!HolderOf, R!LeaseOf, R!Found, R!Present, R!Expired
  <2> QED BY <2>1, <2>2
<1>3. R!D!Pass
  BY <1>2 DEF R!D!Pass
<1> QED BY <1>3 DEF R!D!Next

\* At the start nobody holds a key.
LEMMA ListingInit == Init => R!D!Init
  BY DEF Init, R!D!Init, R!HolderOf, R!LeaseOf, R!Found, R!Present

\* Every step of the introducer is a step of Directory or a stutter.
LEMMA ListingStep == IInv /\ IInv' /\ [Next]_vars => [R!D!Next]_(R!D!vars)
<1> SUFFICES ASSUME IInv, IInv', [Next]_vars PROVE [R!D!Next]_(R!D!vars)
  OBVIOUS
<1>1. RegTypes /\ RegTypes' /\ Whole
  BY DEF IInv, AgentInv
<1>2. CASE UNCHANGED <<slots, life>>
  BY <1>1, <1>2, KeptSame, SameRefines
<1>3. CASE Forgets
  <2>1. PICK S \in SUBSET Conn : slots' = R!Without(S) /\ \A s \in S : life[s] = 0
    BY <1>3 DEF Forgets
  <2>2. life' = life
    BY <1>3 DEF Forgets
  <2> QED BY <1>1, <2>1, <2>2, ExpirySame, SameRefines
<1>4. ASSUME NEW c \in Conn, Register(c) \/ Ping(c) \/ Depart(c)
      PROVE  [R!D!Next]_(R!D!vars)
  BY <1>1, <1>4, RegisterRefines, PingRefines, DepartRefines
<1>5. CASE Tick
  BY <1>1, <1>5, TickRefines
<1> QED BY <1>1, <1>2, <1>3, <1>4, <1>5, RegistrySteps

\* The introducer implements Directory: through all that agents, lookups and
\* sweeps do, a key has at most one holder, on a lease nobody else can end.
THEOREM IntroducerImplementsDirectory == Spec => ListingRefined
<1> QED BY Invariance, ListingInit, ListingStep, PTL
        DEF Spec, ListingRefined, R!Refinement, R!D!Spec
=============================================================================
