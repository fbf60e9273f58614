------------------------------ MODULE Introducer ------------------------------
(***************************************************************************)
(* internal/signal over internal/registry: the handlers that agents        *)
(* register with (/v1/agent) and clients look agents up with (/v1/client), *)
(* one goroutine per connection, with the registry, the map of pending     *)
(* lookups and each agent's connection shared between them.                *)
(*                                                                         *)
(* An agent connection registers at most once, so its slot object is       *)
(* identified with it.  A registry method, a section under Handler.mu and  *)
(* a write under Slot.WriteMu are one step each, with the local code       *)
(* around them; everything else may happen between two steps.              *)
(***************************************************************************)
EXTENDS Integers, Sequences, FiniteSets

CONSTANTS
  Conn,            \* agent connections
  Lookup,          \* client connections; a lookup's sid is fresh, so it is the
                   \* lookup
  Key, IP,         \* as in Registry
  aid, rids, addr, \* what each agent connection says in hello, and its address
  TTL,             \* Handler.TTL, in clock units
  Grace,           \* what the read deadline adds to TTL: a minute
  MaxAgentsPerIP,  \* 0 is no limit
  None             \* no connection, no slot, no answer

ASSUME TimeAssumption == TTL \in Nat \ {0} /\ Grace \in Nat /\ MaxAgentsPerIP \in Nat
ASSUME NoneAssumption == None \notin Conn
ASSUME HelloAssumption == /\ aid \in [Conn -> Key]
                          /\ rids \in [Conn -> SUBSET Key]
                          /\ addr \in [Conn -> IP]

VARIABLES
  slots, life,  \* the registry
  pc,           \* where each agent handler is
  far,          \* each agent's end: "up", "lost" (silent) or "closed"
  deadline,     \* time to the read deadline of an agent connection
  pings,        \* time an agent has left to renew its slot by a ping of its own
  lapsed,       \* history: agents that once let that time run out
  offered,      \* lookups whose offer was written, for each agent connection
  acked,        \* what the agent has answered to each offer
  ack,          \* the offer-ack an agent handler is about to hand over
  lpc,          \* where each lookup handler is
  hit,          \* the slot Get returned to it
  pending,      \* Handler.pending: lookups that can be acked
  ch,           \* the ackCh of each lookup
  peer,         \* what the client was answered
  timedOut,     \* history: lookups one of whose timers fired
  dropped,      \* history: lookups with an ack that found no room
  gotDirect     \* history: lookups whose direct candidate the server read

reg == <<slots, life>>
agents == <<pc, far, deadline, pings, lapsed>>
offers == <<offered, acked, ack, gotDirect>>
lookups == <<lpc, hit, peer, timedOut>>
acks == <<pending, ch, dropped>>
vars == <<reg, agents, offers, lookups, acks>>

KeysOf(c) == {aid[c]} \cup rids[c]

R == INSTANCE Registry WITH
       Slot <- Conn, NoSlot <- None, Nobody <- None,
       obj <- [c \in Conn |-> [conn |-> c, ip |-> addr[c], keys |-> KeysOf(c)]]

\* Handler states between Upsert and the deferred Remove.
Serving == {"ready", "loop", "pong", "ack", "leaving"}
HandlerState == {"none", "cap", "count", "prove", "upsert", "gone"} \cup Serving
LookupState == {"idle", "pend", "offer", "wait", "linger", "unpend", "done"}
Direct == {"", "direct"}

TypeOK ==
  /\ slots \in [Key -> Conn \cup {None}]
  /\ life \in [Conn -> 0..TTL]
  /\ pc \in [Conn -> HandlerState]
  /\ far \in [Conn -> {"up", "lost", "closed"}]
  /\ deadline \in [Conn -> 0..(TTL + Grace)]
  /\ pings \in [Conn -> 0..TTL]
  /\ lapsed \in SUBSET Conn
  /\ offered \in [Conn -> SUBSET Lookup]
  /\ acked \in [Lookup -> {"no", "empty", "direct"}]
  /\ ack \in [Conn -> (Lookup \X Direct) \cup {<<>>}]
  /\ lpc \in [Lookup -> LookupState]
  /\ hit \in [Lookup -> Conn \cup {None}]
  /\ pending \in SUBSET Lookup
  /\ ch \in [Lookup -> Seq(Direct)]
  /\ peer \in [Lookup -> {"no", "absent"} \cup Direct]
  /\ timedOut \in SUBSET Lookup /\ dropped \in SUBSET Lookup
  /\ gotDirect \in SUBSET Lookup

Init ==
  /\ slots = [k \in Key |-> None] /\ life = [c \in Conn |-> 0]
  /\ pc = [c \in Conn |-> "none"] /\ far = [c \in Conn |-> "up"]
  /\ deadline = [c \in Conn |-> 0] /\ pings = [c \in Conn |-> 0]
  /\ lapsed = {}
  /\ offered = [c \in Conn |-> {}]
  /\ acked = [l \in Lookup |-> "no"] /\ ack = [c \in Conn |-> <<>>]
  /\ lpc = [l \in Lookup |-> "idle"] /\ hit = [l \in Lookup |-> None]
  /\ pending = {} /\ ch = [l \in Lookup |-> <<>>]
  /\ peer = [l \in Lookup |-> "no"]
  /\ timedOut = {} /\ dropped = {} /\ gotDirect = {}

-----------------------------------------------------------------------------
(***************************************************************************)
(* The agent handler, up to ready.                                         *)
(***************************************************************************)
Goto(c, s) == pc' = [pc EXCEPT ![c] = s]

\* A well-formed hello with an aid.
Hello(c) ==
  /\ pc[c] = "none"
  /\ Goto(c, IF MaxAgentsPerIP > 0 THEN "cap" ELSE "prove")
  /\ UNCHANGED <<reg, far, deadline, pings, lapsed, offers, lookups, acks>>

\* Get(aid): an agent that is listed from the same address is not counted.
CheckListed(c) ==
  /\ pc[c] = "cap"
  /\ R!Get(aid[c])
  /\ Goto(c, IF R!Found(aid[c]) /\ addr[slots[aid[c]]] = addr[c]
               THEN "prove" ELSE "count")
  /\ UNCHANGED <<far, deadline, pings, lapsed, offers, lookups, acks>>

CheckCount(c) ==
  /\ pc[c] = "count"
  /\ Goto(c, IF R!CountByIP(addr[c]) >= MaxAgentsPerIP THEN "gone" ELSE "prove")
  /\ UNCHANGED <<reg, far, deadline, pings, lapsed, offers, lookups, acks>>

\* The challenge is answered, and the proof holds.
Prove(c) ==
  /\ pc[c] = "prove"
  /\ Goto(c, "upsert")
  /\ UNCHANGED <<reg, far, deadline, pings, lapsed, offers, lookups, acks>>

\* No hello or no proof within the deadline, or one that does not hold.
ProofFails(c) ==
  /\ pc[c] \in {"none", "prove"}
  /\ Goto(c, "gone")
  /\ UNCHANGED <<reg, far, deadline, pings, lapsed, offers, lookups, acks>>

\* Mutant: a reconnecting agent takes its keys over at once.
RegisterOver(c) ==
  /\ pc[c] = "upsert"
  /\ slots' = [k \in Key |-> IF k \in KeysOf(c) THEN c ELSE slots[k]]
  /\ life' = [life EXCEPT ![c] = TTL]
  /\ pings' = [pings EXCEPT ![c] = TTL]
  /\ Goto(c, "ready")
  /\ UNCHANGED <<far, deadline, lapsed, offers, lookups, acks>>

Register(c) ==
  /\ pc[c] = "upsert"
  /\ R!Upsert(c, c, addr[c], KeysOf(c))
  /\ pings' = [pings EXCEPT ![c] = TTL]
  /\ Goto(c, "ready")
  /\ UNCHANGED <<far, deadline, lapsed, offers, lookups, acks>>

SlotTaken(c) ==
  /\ pc[c] = "upsert"
  /\ R!UpsertRefused(c, KeysOf(c))
  /\ Goto(c, "gone")
  /\ UNCHANGED <<far, deadline, pings, lapsed, offers, lookups, acks>>

\* Into the read loop, with a new read deadline.
Listen(c) == /\ Goto(c, "loop")
             /\ deadline' = [deadline EXCEPT ![c] = TTL + Grace]

SendReady(c) ==
  /\ pc[c] = "ready"
  /\ Listen(c)
  /\ UNCHANGED <<reg, far, pings, lapsed, offers, lookups, acks>>

-----------------------------------------------------------------------------
(***************************************************************************)
(* The agent handler's read loop.                                          *)
(***************************************************************************)
\* A frame from the agent can be read.
Hears(c) == pc[c] = "loop" /\ far[c] = "up" /\ deadline[c] > 0

\* Touch(primary), whose result nobody looks at: it renews whoever holds the
\* aid by now, or nobody.
Ping(c) ==
  /\ Hears(c)
  /\ R!Touch(aid[c])
  /\ pings' = [pings EXCEPT ![c] = TTL]
  /\ Goto(c, "pong")
  /\ UNCHANGED <<far, deadline, lapsed, offers, lookups, acks>>

SendPong(c) ==
  /\ pc[c] = "pong"
  /\ Listen(c)
  /\ UNCHANGED <<reg, far, pings, lapsed, offers, lookups, acks>>

\* An offer-ack, and the lookup of its channel under Handler.mu.  An agent
\* acks an offer at once, with or without a direct candidate, and may send the
\* candidate in a second ack.
ReadAck(c, l, d) ==
  /\ Hears(c)
  /\ l \in offered[c]
  /\ acked[l] = "no" \/ (acked[l] = "empty" /\ d = "direct")
  /\ acked' = [acked EXCEPT ![l] = IF d = "" THEN "empty" ELSE "direct"]
  /\ IF l \in pending
       THEN /\ ack' = [ack EXCEPT ![c] = <<l, d>>]
            /\ gotDirect' = IF d = "" THEN gotDirect ELSE gotDirect \cup {l}
            /\ Goto(c, "ack")
            /\ UNCHANGED deadline
       ELSE /\ UNCHANGED <<ack, gotDirect>>
            /\ Listen(c)
  /\ UNCHANGED <<reg, far, pings, lapsed, offered, lookups, acks>>

\* A frame of another type, or one that cannot be decoded: all it does is to keep
\* the connection.
ReadOther(c) ==
  /\ Hears(c)
  /\ Listen(c)
  /\ UNCHANGED <<reg, far, pings, lapsed, offers, lookups, acks>>

\* Mutant: room for one ack only.
RoomForOne(l) == ch[l] = <<>>

\* The channel has a buffer of two.
Room(l) == Len(ch[l]) < 2

\* The send outside the lock, which never blocks: the lookup may be over.
HandOver(c) ==
  /\ pc[c] = "ack"
  /\ LET l == ack[c][1] IN
       IF Room(l)
         THEN ch' = [ch EXCEPT ![l] = Append(@, ack[c][2])] /\ UNCHANGED dropped
         ELSE dropped' = dropped \cup {l} /\ UNCHANGED ch
  /\ ack' = [ack EXCEPT ![c] = <<>>]
  /\ Listen(c)
  /\ UNCHANGED <<reg, far, pings, lapsed, offered, acked, gotDirect,
                 lookups, pending>>

\* Mutant: no read deadline; only a closed connection ends the loop.
ReadFailsOnClose(c) ==
  /\ pc[c] = "loop"
  /\ far[c] = "closed"
  /\ Goto(c, "leaving")
  /\ UNCHANGED <<reg, far, deadline, pings, lapsed, offers, lookups, acks>>

\* The agent closed, or the read deadline passed.
ReadFails(c) ==
  /\ pc[c] = "loop"
  /\ far[c] = "closed" \/ deadline[c] = 0
  /\ Goto(c, "leaving")
  /\ UNCHANGED <<reg, far, deadline, pings, lapsed, offers, lookups, acks>>

\* Mutant: leaves an expired slot to the sweeper that comes by every while.
DepartIfLive(c) ==
  /\ pc[c] = "leaving"
  /\ IF R!Expired(c) THEN UNCHANGED reg ELSE R!Remove(aid[c], c)
  /\ Goto(c, "gone")
  /\ UNCHANGED <<far, deadline, pings, lapsed, offers, lookups, acks>>

\* Mutant: removes the slot its aid leads to, whoever registered it.
DepartWhoever(c) ==
  /\ pc[c] = "leaving"
  /\ R!RemoveAny(aid[c], c)
  /\ Goto(c, "gone")
  /\ UNCHANGED <<far, deadline, pings, lapsed, offers, lookups, acks>>

\* The deferred Remove, and Close.
Depart(c) ==
  /\ pc[c] = "leaving"
  /\ R!Remove(aid[c], c)
  /\ Goto(c, "gone")
  /\ UNCHANGED <<far, deadline, pings, lapsed, offers, lookups, acks>>

-----------------------------------------------------------------------------
(***************************************************************************)
(* The client handler.                                                     *)
(***************************************************************************)
LGoto(l, s) == lpc' = [lpc EXCEPT ![l] = s]

\* Get of the key asked for, and absent if it leads nowhere.  The slot is kept
\* by pointer from here on, whatever becomes of its keys.
Find(l, k) ==
  /\ lpc[l] = "idle"
  /\ R!Get(k)
  /\ IF R!Found(k)
       THEN /\ hit' = [hit EXCEPT ![l] = slots[k]]
            /\ LGoto(l, "pend")
            /\ UNCHANGED peer
       ELSE /\ peer' = [peer EXCEPT ![l] = "absent"]
            /\ LGoto(l, "done")
            /\ UNCHANGED hit
  /\ UNCHANGED <<agents, offers, timedOut, acks>>

\* Both tickets are issued and the ack channel is announced before the offer.
Pend(l) ==
  /\ lpc[l] = "pend"
  /\ pending' = pending \cup {l}
  /\ LGoto(l, "offer")
  /\ UNCHANGED <<reg, agents, offers, hit, peer, timedOut, ch, dropped>>

\* The write to the agent's connection, under its WriteMu.  It may fail: the
\* error is not looked at.
Offer(l) ==
  /\ lpc[l] = "offer"
  /\ IF pc[hit[l]] = "gone"
       THEN UNCHANGED offered
       ELSE offered' = [offered EXCEPT ![hit[l]] = @ \cup {l}]
  /\ LGoto(l, "wait")
  /\ UNCHANGED <<reg, agents, acked, ack, gotDirect, hit, peer, timedOut, acks>>

\* Mutant: the client is answered, and let go, on the first ack whatever it has.
AckedAtOnce(l) ==
  /\ lpc[l] = "wait"
  /\ ch[l] # <<>>
  /\ peer' = [peer EXCEPT ![l] = Head(ch[l])]
  /\ ch' = [ch EXCEPT ![l] = Tail(@)]
  /\ LGoto(l, "unpend")
  /\ UNCHANGED <<reg, agents, offers, hit, timedOut, pending, dropped>>

\* peer as soon as the agent acks; without a candidate the lookup lingers.
Acked(l) ==
  /\ lpc[l] = "wait"
  /\ ch[l] # <<>>
  /\ peer' = [peer EXCEPT ![l] = Head(ch[l])]
  /\ ch' = [ch EXCEPT ![l] = Tail(@)]
  /\ LGoto(l, IF Head(ch[l]) = "" THEN "linger" ELSE "unpend")
  /\ UNCHANGED <<reg, agents, offers, hit, timedOut, pending, dropped>>

\* Mutant: waits for the ack as long as the agent's connection lives.
AckTimeoutIfGone(l) ==
  /\ lpc[l] = "wait"
  /\ pc[hit[l]] = "gone"
  /\ peer' = [peer EXCEPT ![l] = ""]
  /\ timedOut' = timedOut \cup {l}
  /\ LGoto(l, "linger")
  /\ UNCHANGED <<reg, agents, offers, hit, acks>>

\* Two seconds without an ack: peer, with a relay ticket only.
AckTimeout(l) ==
  /\ lpc[l] = "wait"
  /\ peer' = [peer EXCEPT ![l] = ""]
  /\ timedOut' = timedOut \cup {l}
  /\ LGoto(l, "linger")
  /\ UNCHANGED <<reg, agents, offers, hit, acks>>

\* A second ack within the next 50 ms: direct, if it has a candidate.
LateAck(l) ==
  /\ lpc[l] = "linger"
  /\ ch[l] # <<>>
  /\ peer' = [peer EXCEPT ![l] = Head(ch[l])]
  /\ ch' = [ch EXCEPT ![l] = Tail(@)]
  /\ LGoto(l, "unpend")
  /\ UNCHANGED <<reg, agents, offers, hit, timedOut, pending, dropped>>

LingerTimeout(l) ==
  /\ lpc[l] = "linger"
  /\ timedOut' = timedOut \cup {l}
  /\ LGoto(l, "unpend")
  /\ UNCHANGED <<reg, agents, offers, hit, peer, acks>>

\* The deferred delete.
Unpend(l) ==
  /\ lpc[l] = "unpend"
  /\ pending' = pending \ {l}
  /\ LGoto(l, "done")
  /\ UNCHANGED <<reg, agents, offers, hit, peer, timedOut, ch, dropped>>

-----------------------------------------------------------------------------
\* The agent's end goes silent, or closes.
Fails(c) ==
  /\ pc[c] \notin {"none", "gone"} /\ far[c] = "up"
  /\ \E f \in {"lost", "closed"} : far' = [far EXCEPT ![c] = f]
  /\ UNCHANGED <<reg, pc, deadline, pings, lapsed, offers, lookups, acks>>

\* The registry sweep of the server's ticker.
Sweep == R!Sweep /\ UNCHANGED <<agents, offers, lookups, acks>>

Sooner(t) == [c \in Conn |-> IF t[c] > 0 THEN t[c] - 1 ELSE 0]

\* One unit of time: leases, read deadlines and the agents' own clocks.
Tick ==
  /\ R!Tick
  /\ deadline' = Sooner(deadline)
  /\ pings' = Sooner(pings)
  /\ lapsed' = lapsed \cup {c \in Conn : pings[c] = 1}
  /\ UNCHANGED <<pc, far, offers, lookups, acks>>

-----------------------------------------------------------------------------
Agent(c) == \/ CheckListed(c) \/ CheckCount(c) \/ Prove(c) \/ ProofFails(c)
            \/ Register(c) \/ SlotTaken(c) \/ SendReady(c)
            \/ SendPong(c) \/ HandOver(c) \/ ReadFails(c) \/ Depart(c)

Client(l) == \/ Pend(l) \/ Offer(l) \/ Acked(l) \/ AckTimeout(l)
             \/ LateAck(l) \/ LingerTimeout(l) \/ Unpend(l)

Next ==
  \/ \E c \in Conn : \/ Hello(c) \/ Agent(c) \/ Ping(c) \/ ReadOther(c) \/ Fails(c)
                     \/ \E l \in Lookup, d \in Direct : ReadAck(c, l, d)
  \/ \E l \in Lookup : Client(l) \/ \E k \in Key : Find(l, k)
  \/ Sweep
  \/ Tick

Spec == Init /\ [][Next]_vars

\* Goroutines run, writes have a deadline, timers fire and time passes.
\* Nothing is assumed of the peers, nor of how often the registry is swept.
Fairness == /\ \A c \in Conn : WF_vars(Agent(c))
            /\ \A l \in Lookup : WF_vars(Client(l))
            /\ WF_vars(Tick)
FairSpec == Spec /\ Fairness

-----------------------------------------------------------------------------
\* No entry outlives its handler: a key leads only to a connection whose
\* handler has yet to run its deferred Remove (agent.go:124), so a lookup never
\* waits for an agent that nobody serves.
EveryEntryServed == \A k \in Key : slots[k] # None => pc[slots[k]] \in Serving

\* An agent is listed under all of its keys or under none: no refusal, expiry,
\* removal or race of agents that share some of their rids takes one of them.
WholeSlot ==
  \A c \in Conn : LET listed == {k \in Key : slots[k] = c} IN
    listed \in {{}, KeysOf(c)}

\* An agent that renews in time stays listed under every key, whatever other
\* agents, lookups and sweeps do: only one that was ever silent for a whole TTL
\* may be missing while its handler runs (and be answered pong all the same).
AgentStaysListed ==
  \A c \in Conn : pc[c] \in Serving /\ c \notin lapsed =>
    \A k \in KeysOf(c) : R!HolderOf(k) = c

\* A1 for the system (registry.go:32-34), over the handlers that call the
\* registry: an agent that a key leads to stops being found there only by its
\* own handler's leaving or at the end of its lease.  No other agent's hello,
\* ping, failed registration or departure displaces it.
NeverDisplaced ==
  [][\A k \in Key : LET c == R!HolderOf(k) IN
       c \notin {None, R!HolderOf(k)'} =>
         Depart(c) \/ (Tick /\ life[c] = 1)]_vars

\* What lookups see of the registry through all of this is Directory's: a
\* registration is a claim of all the agent's keys at once, of keys nobody else
\* holds; a ping renews one; a departure gives up a holder's own keys, or none;
\* and nothing else a handler does shows.
ListingRefined == R!Refinement

\* "Buffer 2: empty offer-ack + late direct must both land if the agent is
\* fast" (client.go:75).
AckLands == dropped = {}

\* A direct candidate the server read while the lookup was pending reaches the
\* client, unless a timer of the lookup fired.
DirectReachesClient ==
  \A l \in gotDirect : lpc[l] = "done" /\ l \notin timedOut => peer[l] = "direct"

\* A lookup that found an agent ends, whatever the agent does.
LookupAnswered == \A l \in Lookup : lpc[l] = "pend" ~> lpc[l] = "done"

\* An agent whose connection died is forgotten for good, although a ping renews
\* by aid and another, stale, connection of the same aid may go on pinging.
DeadAgentForgotten ==
  \A c \in Conn : far[c] # "up" ~> [](\A k \in Key : R!HolderOf(k) # c)

\* SPADE_RV_MAX_AGENTS_PER_IP (agent.go:52-59, "too many agents from this
\* address"): no address has more agents listed than the limit.
CapRespected ==
  MaxAgentsPerIP > 0 => \A ip \in IP : R!CountByIP(ip) <= MaxAgentsPerIP
=============================================================================
