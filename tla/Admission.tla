------------------------------- MODULE Admission -------------------------------
(***************************************************************************)
(* Requests on their way in, and the faults of those let in: Limiter       *)
(* (guard.go), Admit (http.go), noteFault (signal/handler.go) and the bad  *)
(* tickets of /v1/relay (server/wire.go).  The book of bans and the two    *)
(* windows are locked by the call, so an admission is several steps, and   *)
(* other requests of the same client come between them.                    *)
(***************************************************************************)
EXTENDS Integers, Sequences, FiniteSets

CONSTANTS
  Req,       \* net/http handlers
  Addr,      \* client addresses
  block,     \* BanKey(a): the address itself or its IPv6 block
  Ladder, SoftLadder, Decay, MaxKeys, MaxActive,    \* as in Banbook
  AgentLimit, LookupLimit, Period                   \* as in Window

ASSUME AdmissionAssumption ==
  /\ DOMAIN block = Addr
  /\ AgentLimit \in Nat /\ LookupLimit \in Nat /\ Period \in Nat \ {0}

Block == {block[a] : a \in Addr}

VARIABLES
  req,       \* what each handler serves: nothing, or a request's address, its
             \* endpoint (way) and where it is (at)
  entries, bansActive,   \* the book
  agentHits,    \* the window of /v1/agent; also counts faults and bad tickets
  lookupHits,   \* the window of /v1/client
  faults        \* history: faults of each block, as many as any property asks for

book == <<entries, bansActive>>
windows == <<agentHits, lookupHits>>
vars == <<req, book, windows, faults>>

Way == {"agent", "client", "relay"}
Place == {"barred", "allow", "barredNow", "window", "trip", "until", "in", "strike"}
Nothing == [at |-> "idle"]

\* Keys of a window say what they count.  Bad tickets are counted by address,
\* the rest by block.
HitKey(b) == <<"hit", b>>
ProtoKey(b) == <<"proto", b>>
TicketKey(a) == <<"badticket", a>>
AgentKeys == {HitKey(b) : b \in Block} \cup {ProtoKey(b) : b \in Block}
               \cup {TicketKey(a) : a \in Addr}

B == INSTANCE Banbook WITH Key <- Block, Lag <- 0

\* Those of Banbook for the constants it is instantiated with.
ASSUME BookAssumption ==
  /\ Ladder \in Seq(Nat \ {0}) /\ SoftLadder \in Seq(Nat \ {0})
  /\ Len(Ladder) > 0 /\ Len(SoftLadder) > 0
  /\ B!Rising(Ladder) /\ B!Rising(SoftLadder)
  /\ B!Top(SoftLadder) <= B!Top(Ladder) /\ B!Top(Ladder) <= Decay
  /\ {Decay, MaxKeys, MaxActive} \subseteq Nat

AgentWindow == INSTANCE Window WITH
  Key <- AgentKeys, Limit <- AgentLimit, Lag <- 0, hits <- agentHits
LookupWindow == INSTANCE Window WITH
  Key <- {HitKey(b) : b \in Block}, Limit <- LookupLimit, Lag <- 0, hits <- lookupHits

EnoughFaults == AgentLimit + Len(Ladder)

TypeOK ==
  /\ req \in [Req -> {Nothing} \cup [addr : Addr, way : Way, at : Place]]
  /\ B!TypeOK /\ AgentWindow!TypeOK /\ LookupWindow!TypeOK
  /\ faults \in [Block -> 0..EnoughFaults]

Init ==
  /\ req = [r \in Req |-> Nothing]
  /\ B!Init /\ AgentWindow!Init /\ LookupWindow!Init
  /\ faults = [b \in Block |-> 0]

At(r, l) == req[r].at = l
Of(r) == block[req[r].addr]
Goto(r, l) == req' = [req EXCEPT ![r].at = l]
Over(r) == req' = [req EXCEPT ![r] = Nothing]

-----------------------------------------------------------------------------
\* CheckBan of a new request.
Check(r, a, w) ==
  /\ At(r, "idle")
  /\ B!Blocked(block[a])
  /\ req' = [req EXCEPT ![r] = [addr |-> a, way |-> w,
                at |-> IF B!IsBlocked(block[a]) THEN "barred" ELSE "allow"]]
  /\ UNCHANGED <<windows, faults>>

\* CheckBan or Allow counts the rejection, and 429 is written.
Note(r) ==
  /\ At(r, "barred") \/ At(r, "barredNow")
  /\ B!NoteRejected(Of(r))
  /\ IF At(r, "barred") THEN Over(r) ELSE Goto(r, "until")
  /\ UNCHANGED <<windows, faults>>

\* Allow asks again.  The relay's limiter has no window.
AskAgain(r) ==
  /\ At(r, "allow")
  /\ B!Blocked(Of(r))
  /\ Goto(r, IF B!IsBlocked(Of(r)) THEN "barredNow"
             ELSE IF req[r].way = "relay" THEN "in" ELSE "window")
  /\ UNCHANGED <<windows, faults>>

Hit(r) ==
  /\ At(r, "window")
  /\ LET k == HitKey(Of(r))
     IN IF req[r].way = "agent"
          THEN /\ AgentWindow!Allow(k) /\ UNCHANGED lookupHits
               /\ Goto(r, IF AgentWindow!Room(k) THEN "in" ELSE "trip")
          ELSE /\ LookupWindow!Allow(k) /\ UNCHANGED agentHits
               /\ Goto(r, IF LookupWindow!Room(k) THEN "in" ELSE "trip")
  /\ UNCHANGED <<book, faults>>

\* Mutant: a rate trip is dealt with like a fault.
TripHard(r) ==
  /\ At(r, "trip")
  /\ B!Strike(Of(r))
  /\ Goto(r, "until")
  /\ UNCHANGED <<windows, faults>>

Trip(r) ==
  /\ At(r, "trip")
  /\ B!SoftStrike(Of(r))
  /\ Goto(r, "until")
  /\ UNCHANGED <<windows, faults>>

\* Admit looks up when the ban ends, for Retry-After.
Refuse(r) ==
  /\ At(r, "until")
  /\ B!Blocked(Of(r))
  /\ Over(r)
  /\ UNCHANGED <<windows, faults>>

\* A request that was let in and commits no fault that is counted.
Leave(r) ==
  /\ At(r, "in")
  /\ Over(r)
  /\ UNCHANGED <<book, windows, faults>>

\* Mutant: faults are counted with the hits.
FaultKeyShared(r) == HitKey(Of(r))

FaultKey(r) == IF req[r].way = "agent" THEN ProtoKey(Of(r)) ELSE TicketKey(req[r].addr)

\* A protocol fault of an agent, or a ticket that does not verify: counted, and
\* over the limit it is a strike.
Fault(r) ==
  /\ At(r, "in")
  /\ req[r].way # "client"
  /\ faults' = [faults EXCEPT ![Of(r)] = IF @ < EnoughFaults THEN @ + 1 ELSE @]
  /\ AgentWindow!Allow(FaultKey(r)) /\ UNCHANGED lookupHits
  /\ IF AgentWindow!Room(FaultKey(r)) THEN Over(r) ELSE Goto(r, "strike")
  /\ UNCHANGED <<book>>

Strike(r) ==
  /\ At(r, "strike")
  /\ B!Strike(Of(r))
  /\ Over(r)
  /\ UNCHANGED <<windows, faults>>

\* The calls SweepOnce makes, each under its own lock.
Sweep == /\ \/ B!Sweep(0) /\ UNCHANGED windows
            \/ AgentWindow!Sweep(0) /\ UNCHANGED <<book, lookupHits>>
            \/ LookupWindow!Sweep(0) /\ UNCHANGED <<book, agentHits>>
         /\ UNCHANGED <<req, faults>>

Tick == /\ B!Tick /\ AgentWindow!Tick /\ LookupWindow!Tick
        /\ UNCHANGED <<req, faults>>

Next ==
  \/ \E r \in Req :
       \/ \E a \in Addr, w \in Way : Check(r, a, w)
       \/ Note(r) \/ AskAgain(r) \/ Hit(r) \/ Trip(r) \/ Refuse(r)
       \/ Leave(r) \/ Fault(r) \/ Strike(r)
  \/ Sweep \/ Tick

Spec == Init /\ [][Next]_vars

-----------------------------------------------------------------------------
\* A6 (signal/handler.go:72-74): one fault is no strike.  The strikes on record
\* against a block are fewer than its faults by the whole limit, however its
\* requests overlap and whatever else its windows count.
StrikesAreEarned ==
  \A b \in DOMAIN entries :
    entries[b].strikes > 0 => /\ AgentLimit > 0
                              /\ entries[b].strikes + AgentLimit <= faults[b]

\* A5 and A6 together (guard.go:21-22, signal/handler.go:72-74): a ban longer than
\* any rate trip is worth takes a fault for every rung climbed to it, and the
\* limit's besides, whatever was evicted, forgotten or struck in between.
LongBansAreEarned ==
  \A b \in DOMAIN entries : entries[b].until > B!Top(SoftLadder) =>
    \E n \in DOMAIN Ladder :
      /\ entries[b].until <= Ladder[n]
      /\ AgentLimit > 0 /\ n + AgentLimit <= faults[b]
=============================================================================
