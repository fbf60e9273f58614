------------------------------- MODULE Registry -------------------------------
(***************************************************************************)
(* internal/registry: the in-memory TTL map from opaque keys (agent ids    *)
(* and blinded rids) to agent slots.  Every method holds Registry.mu from  *)
(* its first statement to its last, so each is one action.                 *)
(*                                                                         *)
(* Time is relative: life[s] is the number of clock units until            *)
(* now.After(s.ExpiresAt), and 0 once it holds.  Tick is the passing of    *)
(* one unit; methods read the clock under the lock.                        *)
(***************************************************************************)
EXTENDS Naturals, FiniteSets

CONSTANTS
  Key,      \* aids and rids
  Conn,     \* websocket connections (pointer identity)
  Slot,     \* slot objects (pointer identity)
  IP,       \* remote addresses
  TTL,      \* Registry.ttl in clock units
  NoSlot,   \* a key that is not in the map
  Nobody    \* no connection, no address: Directory's name for an unheld key

ASSUME TTLAssumption == TTL \in Nat \ {0}
ASSUME NoSlotAssumption == NoSlot \notin Slot
ASSUME NobodyAssumption == Nobody \notin Conn

VARIABLES
  slots,    \* Registry.slots
  obj,      \* the immutable fields of each slot object
  life      \* ExpiresAt of each slot object, as time left

vars == <<slots, obj, life>>

SlotRecord ==
  [conn : Conn \cup {Nobody}, ip : IP \cup {Nobody}, keys : SUBSET Key]

\* A slot object nobody has built yet.
Unused == [conn |-> Nobody, ip |-> Nobody, keys |-> {}]

TypeOK == /\ slots \in [Key -> Slot \cup {NoSlot}]
          /\ obj \in [Slot -> SlotRecord]
          /\ life \in [Slot -> 0..TTL]

-----------------------------------------------------------------------------
Present(k) == slots[k] # NoSlot
Expired(s) == life[s] = 0

\* Mutant: deletes every key the slots list, whoever the map says has it now.
WithoutByName(S) ==
  [k \in Key |-> IF \E s \in S : k \in obj[s].keys THEN NoSlot ELSE slots[k]]

\* The map after deleteSlotLocked of every slot of S: only keys that the slot
\* lists, and only where the map still points at that very slot.
Without(S) ==
  [k \in Key |-> IF slots[k] \in S /\ k \in obj[slots[k]].keys
                   THEN NoSlot ELSE slots[k]]

\* The slots Upsert finds expired on the keys P.
StaleOn(P) == {slots[k] : k \in {j \in P : Present(j) /\ Expired(slots[j])}}

\* Mutant: compares registrations as a whole instead of key by key.
ConflictsWhole(c, K) ==
  {k \in K : /\ Present(k) /\ ~Expired(slots[k])
             /\ obj[slots[k]].conn # c /\ obj[slots[k]].keys = K}

\* The keys of K on which Upsert meets another live connection.
Conflicts(c, K) ==
  {k \in K : Present(k) /\ ~Expired(slots[k]) /\ obj[slots[k]].conn # c}

\* CountByIP: distinct connections with an unexpired slot from ip.
CountByIP(ip) ==
  Cardinality({obj[s].conn : s \in {t \in Slot :
                 /\ \E k \in Key : slots[k] = t
                 /\ ~Expired(t)
                 /\ obj[t].ip = ip}})

\* What Get(k) answers.
Found(k) == Present(k) /\ ~Expired(slots[k])

-----------------------------------------------------------------------------
Init == /\ slots = [k \in Key |-> NoSlot]
        /\ obj = [s \in Slot |-> Unused]
        /\ life = [s \in Slot |-> 0]

\* Mutant: the new object lists only the keys that were not in the map yet.
UpsertListingNew(s, c, ip, K) ==
  /\ K # {}
  /\ \A k \in Key : slots[k] # s
  /\ Conflicts(c, K) = {}
  /\ slots' = [k \in Key |-> IF k \in K THEN s ELSE Without(StaleOn(K))[k]]
  /\ obj' = [obj EXCEPT ![s] =
              [conn |-> c, ip |-> ip, keys |-> {k \in K : ~Present(k)}]]
  /\ life' = [life EXCEPT ![s] = TTL]

\* Upsert that returns true.  s is a new object: the agent handler builds one
\* for each registration.
Upsert(s, c, ip, K) ==
  /\ K # {}
  /\ \A k \in Key : slots[k] # s
  /\ Conflicts(c, K) = {}
  /\ slots' = [k \in Key |-> IF k \in K THEN s ELSE Without(StaleOn(K))[k]]
  /\ obj' = [obj EXCEPT ![s] = [conn |-> c, ip |-> ip, keys |-> K]]
  /\ life' = [life EXCEPT ![s] = TTL]

\* Upsert that returns false.  The keys are examined in the caller's order up
\* to the first conflict; P is what came before it, and expired slots met there
\* are gone although the call failed.
UpsertRefused(c, K) ==
  /\ Conflicts(c, K) # {}
  /\ \E P \in SUBSET (K \ Conflicts(c, K)) : slots' = Without(StaleOn(P))
  /\ UNCHANGED <<obj, life>>

\* Mutant: adds a lease to what is left instead of starting a new one.
TouchAdding(k) ==
  /\ life' = IF Present(k) THEN [life EXCEPT ![slots[k]] = @ + TTL] ELSE life
  /\ UNCHANGED <<slots, obj>>

\* Mutant: renews only what has expired already.
TouchLapsed(k) ==
  /\ life' = IF Present(k) /\ Expired(slots[k]) THEN [life EXCEPT ![slots[k]] = TTL]
                                              ELSE life
  /\ UNCHANGED <<slots, obj>>

\* Touch renews whatever slot k leads to: it asks neither whether the slot has
\* expired nor whose connection it is.
Touch(k) ==
  /\ life' = IF Present(k) THEN [life EXCEPT ![slots[k]] = TTL] ELSE life
  /\ UNCHANGED <<slots, obj>>

\* Get forgets an expired slot; what it answers is Found.
Get(k) ==
  /\ slots' = Without({slots[k]} \cap {s \in Slot : Expired(s)})
  /\ UNCHANGED <<obj, life>>

\* Mutant: forgets to ask whose slot it is.
RemoveAny(k, c) ==
  /\ slots' = Without({slots[k]} \cap Slot)
  /\ UNCHANGED <<obj, life>>

\* Remove(k, c): the slot k leads to goes, if it is c's.
Remove(k, c) ==
  /\ slots' = Without({slots[k]} \cap {s \in Slot : obj[s].conn = c})
  /\ UNCHANGED <<obj, life>>

Sweep ==
  /\ slots' = Without({s \in Slot : Expired(s)})
  /\ UNCHANGED <<obj, life>>

Aged == [s \in Slot |-> IF life[s] > 0 THEN life[s] - 1 ELSE 0]

Tick == /\ life' = Aged
        /\ UNCHANGED <<slots, obj>>

Next ==
  \/ \E s \in Slot, c \in Conn, ip \in IP, K \in SUBSET Key : Upsert(s, c, ip, K)
  \/ \E c \in Conn, K \in SUBSET Key : UpsertRefused(c, K)
  \/ \E k \in Key : Touch(k) \/ Get(k)
  \/ \E k \in Key, c \in Conn : Remove(k, c)
  \/ Sweep
  \/ Tick

Spec == Init /\ [][Next]_vars

-----------------------------------------------------------------------------
\* A key only ever leads to a slot that lists it.  deleteSlotLocked walks the
\* slot's own key list, so a key bound to a slot that does not list it could
\* never be deleted again, by Remove, Get, Sweep or an expired Upsert.
KeysBelong == \A k \in Key : Present(k) => k \in obj[slots[k]].keys

\* The connection a lookup of k would reach.
HolderOf(k) == IF Found(k) THEN obj[slots[k]].conn ELSE Nobody

\* How long that answer will stand without a renewal.
LeaseOf(k) == IF Found(k) THEN life[slots[k]] ELSE 0

\* A1 (registry.go:32-34): a connection that a key leads to keeps that key
\* until its own Remove or the end of its lease.  No Upsert, Touch, Get or
\* Sweep, by whatever connection and over whatever aliases, takes it away.
NoSilentTakeover ==
  [][\A k \in Key :
       HolderOf(k) \notin {Nobody, HolderOf(k)'} =>
         \/ life[slots[k]] = 1 /\ Tick
         \/ \E j \in Key : Remove(j, HolderOf(k))]_vars

D == INSTANCE Directory WITH
       holder <- [k \in Key |-> HolderOf(k)],
       lease <- [k \in Key |-> LeaseOf(k)]

\* The registry implements Directory: the slots, the aliases that live and die
\* together, the lazy deletion of expired slots and the revival of one by Touch
\* are all claims, releases and lapses of leases there.
Refinement == D!Spec

=============================================================================
