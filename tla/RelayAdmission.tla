---------------------------- MODULE RelayAdmission ----------------------------
(***************************************************************************)
(* /v1/relay (server/wire.go): what the tickets of Tickets and the hub of  *)
(* Relay promise together.  A lookup issues two tickets of a session it    *)
(* names afresh; connections present them, each in some spelling, are      *)
(* upgraded, and arrive at the hub, where the first waits for the second   *)
(* for a limited time.                                                     *)
(***************************************************************************)
EXTENDS Integers, FiniteSets, Sequences

CONSTANTS
  Conn, Sid, None,
  sid, role,    \* the session and the role in the ticket a connection presents
  Spelling,     \* as in Tickets
  Spellings,    \* the ways in which the connections may spell their tickets
  Frac, MaxIssueTTL, RotateEvery, Lag, MaxTime,    \* as in Tickets
  PairWait,     \* Hub.pairWait, in seconds
  Delay         \* longest time, in seconds, that a handler takes for a step it
                \* need not wait for

\* 30 seconds against two minutes in the code: a handler may be late three times,
\* to arrive, to start the session, and to learn that it has started.
ASSUME PairWaitAssumption ==
  /\ PairWait \in Nat /\ Delay \in Nat
  /\ PairWait > MaxIssueTTL + 3 * Delay

\* Those of Tickets and Relay for the constants they are instantiated with.
ASSUME TicketsAssumption ==
  /\ Frac \in Nat /\ Lag \in Nat /\ MaxTime \in Nat
  /\ MaxIssueTTL \in Nat \ {0}
  /\ RotateEvery \in Nat /\ RotateEvery > MaxIssueTTL
ASSUME HubAssumption ==
  None \notin Conn /\ sid \in [Conn -> Sid] /\ DOMAIN role = Conn
ASSUME SpellingAssumption == Spellings \subseteq [Conn -> Spelling]

VARIABLES
  now, key, boot, prev, prevUntil, rotated, used, sweeping,     \* Tickets
  issued, accepted, reused,
  pc, waiting, paired, mate, owner, done, pump, carry,    \* Relay
  n, open, far, inbox, sent, got,
  dial,    \* where the request of each connection is
  since,   \* when it was verified, then when it arrived, and then, for the
           \* second of a session, when it started that
  spelling \* how each connection spells its ticket, chosen once by its peer

T == INSTANCE Tickets WITH
  SID <- Sid, Role <- {"agent", "client"}, TTLs <- {MaxIssueTTL},
  MaxIssued <- 2 * Cardinality(Sid), MaxKey <- 0
R == INSTANCE Relay WITH
  Size <- {}, MaxFrame <- 0, MaxBytes <- 0, DoneCap <- 2,
  MaxSent <- [c \in Conn |-> 0]

tickets == <<now, key, boot, prev, prevUntil, rotated, used, sweeping,
             issued, accepted, reused>>
hub == <<pc, waiting, paired, mate, owner, done, pump, carry,
         n, open, far, inbox, sent, got>>
requests == <<dial, since, spelling>>
vars == <<tickets, hub, requests>>

Init ==
  /\ T!Init /\ R!Init
  /\ dial = [c \in Conn |-> "out"]
  /\ since = [c \in Conn |-> [s |-> 0, f |-> 0]]
  /\ spelling \in Spellings

-----------------------------------------------------------------------------
TicketsOf(s) == {t \in issued : t.sid = s}
TicketOf(c) == {t \in TicketsOf(sid[c]) : t.role = role[c]}

\* A lookup issues both tickets of its session, the agent's first; the lifetime
\* is the same for both.  Nobody is sent one before both are there.
Lookup(s) ==
  /\ \E r \in {"agent", "client"} :
       /\ {t.role : t \in TicketsOf(s)} = IF r = "agent" THEN {} ELSE {"agent"}
       /\ T!Issue(s, r, MaxIssueTTL)
  /\ UNCHANGED <<hub, requests>>

Sent(c) == Cardinality(TicketsOf(sid[c])) = 2

\* The string in c's request, when t is the ticket it spells.
Presented(c, t) == [ticket |-> t, spelling |-> spelling[c]]

\* Mutant: the ticket is only looked at.
AdmitUnspent(c) ==
  /\ dial[c] = "out" /\ Sent(c)
  /\ \E t \in TicketOf(c) : T!Genuine(t)
  /\ dial' = [dial EXCEPT ![c] = "upgrade"]
  /\ since' = [since EXCEPT ![c] = now]
  /\ UNCHANGED <<tickets, hub, spelling>>

\* Verify accepts the string and spends it, and no other spelling of the ticket.
Admit(c) ==
  /\ dial[c] = "out" /\ Sent(c)
  /\ \E t \in TicketOf(c) : T!Verify(Presented(c, t))
  /\ dial' = [dial EXCEPT ![c] = "upgrade"]
  /\ since' = [since EXCEPT ![c] = now]
  /\ UNCHANGED <<hub, spelling>>

\* The string is spent, or the ticket over or signed by a key that is gone: 401.
Unauthorized(c) ==
  /\ dial[c] = "out" /\ Sent(c)
  /\ \A t \in TicketOf(c) : ~T!Genuine(t) \/ Presented(c, t) \in used
  /\ dial' = [dial EXCEPT ![c] = "refused"]
  /\ UNCHANGED <<tickets, hub, since, spelling>>

\* The upgrade fails.  The string stays spent.
UpgradeFails(c) ==
  /\ dial[c] = "upgrade"
  /\ dial' = [dial EXCEPT ![c] = "failed"]
  /\ UNCHANGED <<tickets, hub, since, spelling>>

Arrive(c) ==
  /\ dial[c] = "upgrade"
  /\ R!Arrive(c)
  /\ dial' = [dial EXCEPT ![c] = "arrived"]
  /\ since' = [since EXCEPT ![c] = now]
  /\ UNCHANGED <<tickets, spelling>>

\* Mutant: the hub waits as long as a ticket lives.
PairWaitSpentShort(c) == T!AtLeast(now, T!Plus(since[c], MaxIssueTTL))

\* The timer of a first arrival: not before pairWait is over, as late as it likes.
PairWaitSpent(c) == T!AtLeast(now, T!Plus(since[c], PairWait))

\* What the handlers and pumps do from there on.  Sessions end by their lifetime
\* here: what the peers do to them is Relay's matter.
Hub(c) ==
  /\ R!Handler(c) \/ R!Pump(c)
  /\ pc[c] = "waiting" /\ pc'[c] = "expiring" => PairWaitSpent(c)
  /\ since' = IF pc[c] = "pairing" /\ pc'[c] = "session"
                THEN [since EXCEPT ![c] = now] ELSE since
  /\ UNCHANGED <<tickets, dial, spelling>>

Sweep == (T!SweepOnce \/ T!Sweep) /\ UNCHANGED <<hub, requests>>

Tick ==
  /\ T!Tick
  /\ \A c \in Conn :
       LET Prompt(t) == T!AtLeast(T!Plus(t, Delay), now')
       IN /\ dial[c] = "upgrade" \/ pc[c] = "pairing" => Prompt(since[c])
          /\ pc[c] = "waiting" /\ c \in paired => Prompt(since[mate[c]])
  /\ UNCHANGED <<hub, requests>>

Next ==
  \/ \E s \in Sid : Lookup(s)
  \/ \E c \in Conn : Admit(c) \/ Unauthorized(c) \/ UpgradeFails(c) \/ Arrive(c) \/ Hub(c)
  \/ Sweep \/ Tick

Spec == Init /\ [][Next]_vars

-----------------------------------------------------------------------------
\* A connection that was let in: Verify accepted what it presented.
LetIn(c) == dial[c] \in {"upgrade", "arrived", "failed"}

\* Who presents what c does may still come to the hub.
MayArrive(c) ==
  \/ dial[c] = "upgrade"
  \/ dial[c] = "out" /\ \E t \in TicketOf(c) :
                            T!Genuine(t) /\ Presented(c, t) \notin used

\* A first arrival gives up only when there is nobody left to wait for: whoever
\* has the other ticket of its session has arrived, failed or come too late
\* (relay.go:42, ticket.go:22 and wire.go:96-118 are only right together).
WaitOutlastsTickets ==
  \A c, d \in Conn :
    /\ pc[c] \in {"expiring", "expired"}
    /\ sid[d] = sid[c] /\ role[d] # role[c]
    => ~MayArrive(d) /\ mate[c] # d

\* relay.go:51-52, "When both arrive, bytes are copied until close or lifetime
\* cap": while both pumps of a session run, the server has closed neither side,
\* the wait timer of the first and the return of its handler notwithstanding.
CopiedUntilCloseOrCap == R!CopiedUntilCloseOrCap

\* A string shown twice lets one connection in: of requests that present a ticket
\* in the same spelling and overlap between Verify, the upgrade and the hub, the
\* others are refused with 401, and none takes the place at the hub of the one that
\* was let in, nor is turned away there.  (Two spellings of a ticket let in two.)
LetInOnce ==
  \A c, d \in Conn :
    c # d /\ LetIn(c) /\ LetIn(d) =>
      sid[c] # sid[d] \/ role[c] # role[d] \/ spelling[c] # spelling[d]
=============================================================================
