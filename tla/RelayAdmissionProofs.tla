------------------------- MODULE RelayAdmissionProofs -------------------------
(***************************************************************************)
(* Proofs about RelayAdmission for any sessions, connections, spellings    *)
(* and delays: a string lets one connection in, the first arrival never    *)
(* gives up on a second that may come, and its timer never cuts a session  *)
(* short.  What is proved about Tickets and Relay by themselves is cited.  *)
(***************************************************************************)
EXTENDS RelayAdmission, FiniteSetTheorems, TLAPS

TP == INSTANCE TicketsProofs WITH
  SID <- Sid, Role <- {"agent", "client"}, TTLs <- {MaxIssueTTL},
  MaxIssued <- 2 * Cardinality(Sid), MaxKey <- 0
RP == INSTANCE RelayProofs WITH
  Size <- {}, MaxFrame <- 0, MaxBytes <- 0, DoneCap <- 2,
  MaxSent <- [c \in Conn |-> 0]

RequestTypes ==
  /\ dial \in [Conn -> {"out", "upgrade", "arrived", "failed", "refused"}]
  /\ since \in [Conn -> T!Instant]
  /\ spelling \in Spellings
  /\ \A c \in Conn : dial[c] = "arrived" <=> pc[c] # "none"

\* A session has at most one ticket of each role.
OneTicket ==
  \A t, u \in issued : t.sid = u.sid /\ t.role = u.role => t = u

\* Who was let in has a ticket of a session that has both, and Verify has
\* accepted the string it presented; nobody else was let in on that.
Spent ==
  /\ \A c \in Conn : LetIn(c) =>
       Sent(c) /\ \E t \in TicketOf(c) : Presented(c, t) \in accepted
  /\ LetInOnce

\* No ticket of a session outlives a lifetime from when a connection of it was
\* let in, which was while that connection's own ticket was good.
Dated ==
  \A c \in Conn :
    /\ since[c].s <= now.s
    /\ LetIn(c) => \A t \in TicketsOf(sid[c]) : t.exp <= since[c].s + MaxIssueTTL
    /\ dial[c] = "upgrade" => \A t \in TicketOf(c) : since[c].s <= t.exp

\* A handler takes a step it need not wait for within Delay.
Prompt ==
  \A c \in Conn :
    /\ dial[c] = "upgrade" \/ pc[c] = "pairing" => now.s <= since[c].s + Delay
    /\ pc[c] = "waiting" /\ c \in paired => now.s <= since[mate[c]].s + Delay

\* The second comes soon after the first: while that still waits, the second is
\* about to start the session, or has started it and told the first.
Joined ==
  \A c \in Conn : pc[c] = "waiting" /\ mate[c] # None =>
    LET d == mate[c] IN
      \/ pc[d] = "pairing" /\ since[d].s <= since[c].s + MaxIssueTTL + Delay
      \/ c \in paired /\ pc[d] # "pairing"
           /\ since[d].s <= since[c].s + MaxIssueTTL + 2 * Delay

\* A first arrival whose timer has fired was alone, for the whole wait.
Late ==
  \A c \in Conn : pc[c] \in {"expiring", "expired"} =>
    mate[c] = None /\ since[c].s + PairWait <= now.s

\* Both ends of a session are open until its own handler closes them.
Opened ==
  \A c \in Conn : pc[c] \in {"pairing", "session"} => open[c] /\ open[mate[c]]

\* What the clock has to do with it, and all that is not said in the proofs about
\* Tickets and Relay.
Clock == RequestTypes /\ Dated /\ Prompt /\ Joined /\ Late
Own == OneTicket /\ Spent /\ Clock /\ Opened

IInv == TP!IInv /\ RP!IInv /\ OneTicket /\ Spent /\ Clock /\ Opened

-----------------------------------------------------------------------------
(***************************************************************************)
(* What is known of the tickets and of the hub.                            *)
(***************************************************************************)
LEMMA TicketsInitially == TP!Init => TP!IInv
  BY TP!Initially, TicketsAssumption

LEMMA TicketsKept == TP!IInv /\ [TP!Next]_(TP!vars) => TP!IInv'
  BY TP!StepKeeps, TicketsAssumption

LEMMA HubConstants ==
  /\ None \notin Conn /\ sid \in [Conn -> Sid] /\ DOMAIN role = Conn
  /\ {} \subseteq Nat \ {0} /\ 0 \in Nat /\ 2 \in Nat
  /\ [c \in Conn |-> 0] \in [Conn -> Nat]
  BY HubAssumption

LEMMA HubInitially == RP!Init => RP!IInv
  BY RP!Initially, HubConstants

LEMMA HubKept == RP!IInv /\ [RP!Next]_(RP!vars) => RP!IInv'
  BY RP!StepKeeps, HubConstants

\* A step is one of the tickets or none, and one of the hub or none.
LEMMA TicketStep == RequestTypes /\ [Next]_vars => [TP!Next]_(TP!vars)
<1> SUFFICES ASSUME RequestTypes, [Next]_vars PROVE [TP!Next]_(TP!vars)
  OBVIOUS
<1>1. ASSUME UNCHANGED tickets PROVE UNCHANGED TP!vars
  BY <1>1 DEF tickets, TP!vars, TP!keys
<1>2. ASSUME NEW s \in Sid, Lookup(s) PROVE TP!Next
  <2>1. PICK r \in {"agent", "client"} : T!Issue(s, r, MaxIssueTTL)
    BY <1>2 DEF Lookup
  <2>2. TP!Issue(s, r, MaxIssueTTL)
    BY <2>1 DEF T!Issue, TP!Issue, T!Granted, TP!Granted, T!keys, TP!keys,
                T!Cardinality, TP!Cardinality
  <2> QED BY <2>2 DEF TP!Next
<1>3. ASSUME NEW c \in Conn, Admit(c) PROVE TP!Next
  <2>1. PICK t \in issued : T!Verify(Presented(c, t))
    BY <1>3 DEF Admit, TicketOf, TicketsOf
  <2>2. spelling[c] \in Spelling
    BY SpellingAssumption DEF RequestTypes
  <2>3. TP!Verify([ticket |-> t, spelling |-> spelling[c]])
    BY <2>1 DEF T!Verify, TP!Verify, T!Genuine, TP!Genuine, T!Over, TP!Over, T!keys, TP!keys,
                Presented
  <2> QED BY <2>2, <2>3 DEF TP!Next
<1>4. CASE Sweep
  <2>1. CASE T!SweepOnce
    <3>1. TP!SweepOnce
      BY <2>1 DEF T!SweepOnce, TP!SweepOnce, T!Idle, TP!Idle, T!keys, TP!keys
    <3> QED BY <3>1 DEF TP!Next
  <2>2. CASE T!Sweep
    <3>1. T!Rotate => TP!Rotate
      BY DEF T!Rotate, TP!Rotate, T!RotationDue, TP!RotationDue, T!AtLeast, TP!AtLeast,
             T!Plus, TP!Plus, T!KeepUntil, TP!KeepUntil
    <3>2. T!KeepKey => TP!KeepKey
      BY DEF T!KeepKey, TP!KeepKey, T!NoKey, TP!NoKey, T!AtLeast, TP!AtLeast
    <3>3. TP!Sweep
      BY <2>2, <3>1, <3>2 DEF T!Sweep, TP!Sweep, T!Idle, TP!Idle, T!Over, TP!Over
    <3> QED BY <3>3 DEF TP!Next
  <2> QED BY <1>4, <2>1, <2>2 DEF Sweep
<1>5. CASE Tick
  <2>1. TP!Tick
    BY <1>5 DEF Tick, T!Tick, TP!Tick, T!Successor, TP!Successor, T!Idle, TP!Idle,
                T!AtLeast, TP!AtLeast, T!Plus, TP!Plus, T!keys, TP!keys
  <2> QED BY <2>1 DEF TP!Next
<1>6. ASSUME NEW c \in Conn, Unauthorized(c) \/ UpgradeFails(c) \/ Arrive(c) \/ Hub(c)
      PROVE  UNCHANGED tickets
  BY <1>6 DEF Unauthorized, UpgradeFails, Arrive, Hub
<1>7. CASE UNCHANGED vars
  BY <1>1, <1>7 DEF vars
<1> QED BY <1>1, <1>2, <1>3, <1>4, <1>5, <1>6, <1>7 DEF Next

LEMMA HubStep == [Next]_vars => [RP!Next]_(RP!vars)
<1> SUFFICES ASSUME [Next]_vars PROVE [RP!Next]_(RP!vars)
  OBVIOUS
<1> USE DEF R!hub, R!pumps, R!wire, R!Goto, R!Close, RP!hub, RP!pumps, RP!wire, RP!Goto,
            RP!Close
<1>1. ASSUME UNCHANGED hub PROVE UNCHANGED RP!vars
  BY <1>1 DEF hub, RP!vars
<1>2. ASSUME NEW c \in Conn, R!Arrive(c) PROVE RP!Arrive(c)
  BY <1>2 DEF R!Arrive, RP!Arrive, R!Refuse, RP!Refuse, R!Wait, RP!Wait, R!Pair, RP!Pair,
              R!First, RP!First
<1>3. ASSUME NEW c \in Conn, R!Handler(c) PROVE RP!Handler(c)
  BY <1>3 DEF R!Handler, RP!Handler, R!StartSession, RP!StartSession,
              R!PeerArrived, RP!PeerArrived, R!PairWaitOver, RP!PairWaitOver,
              R!Withdraw, RP!Withdraw, R!CloseExpired, RP!CloseExpired,
              R!PumpDone, RP!PumpDone, R!LifeOver, RP!LifeOver,
              R!CloseFirst, RP!CloseFirst, R!CloseSecond, RP!CloseSecond
<1>4. ASSUME NEW c \in Conn, R!Pump(c) PROVE RP!Pump(c)
  BY <1>4 DEF R!Pump, RP!Pump, R!TakeFrame, RP!TakeFrame, R!ReadError, RP!ReadError,
              R!WriteFrame, RP!WriteFrame, R!WriteError, RP!WriteError,
              R!SendDone, RP!SendDone
<1>5. ASSUME NEW c \in Conn, Arrive(c) \/ Hub(c) PROVE RP!Next
  BY <1>2, <1>3, <1>4, <1>5 DEF Arrive, Hub, RP!Next
<1>6. ASSUME NEW c \in Conn, Admit(c) \/ Unauthorized(c) \/ UpgradeFails(c)
      PROVE  UNCHANGED hub
  BY <1>6 DEF Admit, Unauthorized, UpgradeFails
<1>7. ASSUME (\E s \in Sid : Lookup(s)) \/ Sweep \/ Tick \/ UNCHANGED vars
      PROVE  UNCHANGED hub
  BY <1>7 DEF Lookup, Sweep, Tick, vars
<1> QED BY <1>1, <1>5, <1>6, <1>7 DEF Next

LEMMA ConstantFacts ==
  /\ MaxIssueTTL \in Nat /\ Delay \in Nat /\ PairWait \in Nat
  /\ PairWait > MaxIssueTTL + 3 * Delay
  BY TicketsAssumption, PairWaitAssumption

LEMMA TicketFacts ==
  ASSUME TP!IInv
  PROVE  /\ now \in T!Instant /\ now.s \in Nat
         /\ \A t \in issued : /\ t.exp \in Nat /\ t.exp <= now.s + MaxIssueTTL
                              /\ t.role \in {"agent", "client"}
  BY DEF TP!IInv, TP!TypeOK, TP!Instant, T!Instant, TP!Ticket, TP!Dated

Running == {"pairing", "session", "ending", "closing"}
Parked == {"waiting", "expiring", "expired", "done"}

LEMMA HubFacts ==
  ASSUME RP!IInv
  PROVE  /\ pc \in [Conn -> R!HandlerState] /\ mate \in [Conn -> Conn \cup {None}]
         /\ open \in [Conn -> BOOLEAN]
         /\ \A c \in Conn :
              /\ mate[c] # None => /\ mate[c] \in Conn /\ mate[mate[c]] = c
                                   /\ sid[mate[c]] = sid[c] /\ role[mate[c]] # role[c]
              /\ c \in paired => mate[c] # None
              /\ pc[c] \in Running => mate[c] # None /\ pc[mate[c]] \in Parked
              /\ pc[c] = "none" => mate[c] = None /\ open[c]
         /\ \A s \in Sid : waiting[s] # None =>
              /\ waiting[s] \in Conn /\ pc[waiting[s]] \in {"waiting", "expiring"}
              /\ open[waiting[s]] /\ sid[waiting[s]] = s /\ mate[waiting[s]] = None
  BY HubAssumption
     DEF RP!IInv, RP!TypeOK, RP!Hub, RP!Mates, RP!Engaged, RP!Waits, RP!HandlerState,
         R!HandlerState, RP!Running, RP!Parked, Running, Parked

-----------------------------------------------------------------------------
(***************************************************************************)
(* What follows from the invariant in a state.                             *)
(***************************************************************************)
LEMMA Seconds ==
  ASSUME NEW a \in T!Instant, NEW b \in T!Instant, NEW k \in Nat,
         T!AtLeast(T!Plus(a, k), b)
  PROVE  b.s <= a.s + k
  BY DEF T!AtLeast, T!Plus, T!Instant

\* A first arrival whose timer has fired is alone, and stays so: it outlasted the
\* tickets of its session and whoever was on the way with one.
LEMMA LateAlone ==
  ASSUME IInv, NEW c \in Conn, NEW d \in Conn,
         pc[c] \in {"expiring", "expired"}, sid[d] = sid[c]
  PROVE  ~MayArrive(d) /\ mate[c] = None
<1>1. /\ now.s \in Nat /\ since[c].s \in Nat /\ since[d].s \in Nat
      /\ \A t \in issued : t.exp \in Nat
  BY TicketFacts DEF IInv, Clock, RequestTypes, T!Instant
<1>2. mate[c] = None /\ since[c].s + PairWait <= now.s
  BY DEF IInv, Clock, Late
<1>3. \A t \in TicketOf(d) : t.exp <= since[c].s + MaxIssueTTL /\ t \in issued
  BY DEF IInv, Clock, RequestTypes, Dated, LetIn, TicketOf, TicketsOf
<1>4. ASSUME dial[d] = "upgrade" PROVE FALSE
  <2>1. PICK t \in TicketOf(d) : since[d].s <= t.exp
    BY <1>4 DEF IInv, Spent, Clock, Dated, LetIn
  <2>2. now.s <= since[d].s + Delay
    BY <1>4 DEF IInv, Clock, Prompt
  <2> QED BY <1>1, <1>2, <1>3, <2>1, <2>2, ConstantFacts
<1>5. ASSUME NEW t \in TicketOf(d), T!Genuine(t) PROVE FALSE
  <2>1. ~(now.s > t.exp)
    BY <1>5 DEF T!Genuine, T!Over
  <2> QED BY <1>1, <1>2, <1>3, <2>1, ConstantFacts
<1> QED BY <1>2, <1>4, <1>5 DEF MayArrive

-----------------------------------------------------------------------------
(***************************************************************************)
(* The steps of the tickets and of a request before it arrives.            *)
(***************************************************************************)
LEMMA CardinalityAtMostOne ==
  ASSUME NEW S, \A t, u \in S : t = u
  PROVE  Cardinality(S) # 2
<1>1. CASE S = {}
  BY <1>1, FS_EmptySet
<1>2. CASE S # {}
  <2>1. PICK t \in S : S = {t}
    BY <1>2
  <2> QED BY <2>1, FS_Singleton
<1> QED BY <1>1, <1>2

LEMMA LookupKeeps ==
  ASSUME IInv, NEW s \in Sid, Lookup(s)
  PROVE  Own'
<1>1. PICK r \in {"agent", "client"} :
        /\ {t.role : t \in TicketsOf(s)} = IF r = "agent" THEN {} ELSE {"agent"}
        /\ T!Issue(s, r, MaxIssueTTL)
  BY DEF Lookup
<1> DEFINE x == [sid |-> s, role |-> r, exp |-> now.s + T!Granted(MaxIssueTTL), key |-> key]
<1>2. /\ issued' = issued \cup {x}
      /\ UNCHANGED <<now, accepted, spelling, pc, paired, mate, open, dial, since>>
  BY <1>1 DEF Lookup, T!Issue, T!keys, hub, requests
<1>3. x.sid = s /\ x.role = r
  OBVIOUS
<1> HIDE DEF x
<1>4. \A t \in TicketsOf(s) : t.role # r
  BY <1>1
<1>5. OneTicket'
  BY <1>2, <1>3, <1>4 DEF IInv, OneTicket, TicketsOf
<1>6. Cardinality(TicketsOf(s)) # 2
  <2>1. \A t \in TicketsOf(s) : t.role = "agent"
    BY <1>1
  <2>2. \A t, u \in TicketsOf(s) : t = u
    BY <2>1 DEF IInv, OneTicket, TicketsOf
  <2> QED BY <2>2, CardinalityAtMostOne
<1>7. \A c \in Conn : LetIn(c) =>
        TicketsOf(sid[c])' = TicketsOf(sid[c]) /\ TicketOf(c)' = TicketOf(c)
  BY <1>2, <1>3, <1>6 DEF IInv, Spent, Sent, TicketsOf, TicketOf
<1>8. \A c \in Conn : LetIn(c)' <=> LetIn(c)
  BY <1>2 DEF LetIn
<1>9. Spent'
  BY <1>2, <1>7, <1>8 DEF IInv, Spent, LetInOnce, Sent, Presented
<1>10. Dated'
  BY <1>2, <1>7, <1>8 DEF IInv, Clock, Dated, LetIn
<1>11. RequestTypes' /\ Prompt' /\ Joined' /\ Late' /\ Opened'
  BY <1>2 DEF IInv, Clock, RequestTypes, Prompt, Joined, Late, Opened
<1> QED BY <1>5, <1>9, <1>10, <1>11 DEF Own, Clock

LEMMA AdmitKeeps ==
  ASSUME IInv, TP!IInv', NEW c \in Conn, Admit(c)
  PROVE  Own'
<1>1. PICK t \in TicketOf(c) : T!Verify(Presented(c, t))
  BY DEF Admit
<1> DEFINE e == Presented(c, t)
<1>2. /\ dial[c] = "out" /\ Sent(c)
      /\ dial' = [dial EXCEPT ![c] = "upgrade"] /\ since' = [since EXCEPT ![c] = now]
      /\ UNCHANGED <<pc, paired, mate, open, spelling>>
  BY DEF Admit, hub
<1>3. /\ accepted' = accepted \cup {e} /\ reused' = reused \cup (accepted \cap {e})
      /\ UNCHANGED <<now, issued>> /\ ~(now.s > t.exp)
  BY <1>1 DEF T!Verify, T!Genuine, T!Over, Presented
<1>4. t \in issued /\ t.sid = sid[c] /\ t.role = role[c] /\ TicketOf(c) = {t}
  BY <1>1 DEF TicketOf, TicketsOf, IInv, OneTicket
<1>5. e \notin accepted
  <2>1. reused' = {}
    BY DEF TP!IInv, TP!SpentAsSpelled
  <2> QED BY <1>3, <2>1
<1>6. /\ \A d \in Conn \ {c} : dial'[d] = dial[d] /\ since'[d] = since[d]
      /\ dial'[c] = "upgrade" /\ since'[c] = now
  BY <1>2 DEF IInv, Clock, RequestTypes
<1>7. \A d \in Conn : TicketsOf(sid[d])' = TicketsOf(sid[d]) /\ TicketOf(d)' = TicketOf(d)
                      /\ (Sent(d)' <=> Sent(d))
  BY <1>3 DEF TicketsOf, TicketOf, Sent
<1>8. /\ \A d \in Conn \ {c} : LetIn(d)' <=> LetIn(d)
      /\ LetIn(c)' /\ ~LetIn(c)
  BY <1>2, <1>6 DEF LetIn
<1>9. ASSUME NEW d \in Conn \ {c}, LetIn(d)
      PROVE  sid[d] # sid[c] \/ role[d] # role[c] \/ spelling[d] # spelling[c]
  <2>1. PICK u \in TicketOf(d) : Presented(d, u) \in accepted
    BY <1>9 DEF IInv, Spent
  <2>2. ASSUME sid[d] = sid[c], role[d] = role[c], spelling[d] = spelling[c] PROVE FALSE
    BY <1>4, <1>5, <2>1, <2>2 DEF TicketOf, Presented
  <2> QED BY <2>2
<1>10. OneTicket'
  BY <1>3 DEF IInv, OneTicket
<1>11. Spent'
  <2>1. LetInOnce'
    BY <1>2, <1>8, <1>9 DEF IInv, Spent, LetInOnce
  <2>2. \A d \in Conn : LetIn(d)' =>
          Sent(d)' /\ \E u \in TicketOf(d)' : Presented(d, u) \in accepted'
    BY <1>2, <1>3, <1>4, <1>7, <1>8 DEF IInv, Spent
  <2> QED BY <1>2, <2>1, <2>2 DEF Spent, Presented
<1>12. RequestTypes'
  BY <1>2, <1>6, TicketFacts DEF IInv, Clock, RequestTypes
<1>13. Dated'
  <2>1. now.s \in Nat /\ t.exp \in Nat
        /\ \A u \in issued : u.exp \in Nat /\ u.exp <= now.s + MaxIssueTTL
    BY <1>4, TicketFacts DEF IInv
  <2>2. \A u \in TicketsOf(sid[c]) : u \in issued
    BY DEF TicketsOf
  <2> QED BY <1>3, <1>4, <1>6, <1>7, <1>8, <2>1, <2>2 DEF IInv, Clock, Dated
<1>14. pc[c] = "none"
  BY <1>2 DEF IInv, Clock, RequestTypes
<1>15. \A d \in Conn : mate[d] # c
  BY <1>14, HubAssumption, HubFacts DEF IInv
<1>16. Prompt'
  BY <1>2, <1>3, <1>6, <1>14, <1>15, TicketFacts, ConstantFacts, HubFacts
     DEF IInv, Clock, Prompt
<1>17. Joined' /\ Late' /\ Opened'
  BY <1>2, <1>3, <1>6, <1>14, <1>15, HubFacts DEF IInv, Clock, Joined, Late, Opened
<1> QED BY <1>10, <1>11, <1>12, <1>13, <1>16, <1>17 DEF Own, Clock

LEMMA TurnedAwayKeeps ==
  ASSUME IInv, NEW c \in Conn, Unauthorized(c) \/ UpgradeFails(c)
  PROVE  Own'
<1>1. PICK l \in {"refused", "failed"} :
        /\ dial' = [dial EXCEPT ![c] = l]
        /\ dial[c] \in {"out", "upgrade"} /\ (l = "failed" => dial[c] = "upgrade")
  BY DEF Unauthorized, UpgradeFails
<1>2. UNCHANGED <<now, issued, accepted, spelling, pc, paired, mate, open, since>>
  BY DEF Unauthorized, UpgradeFails, tickets, hub
<1>3. \A d \in Conn : dial'[d] = IF d = c THEN l ELSE dial[d]
  BY <1>1 DEF IInv, Clock, RequestTypes
<1>4. \A d \in Conn : LetIn(d)' => LetIn(d)
  BY <1>1, <1>3 DEF LetIn
<1>5. \A d \in Conn : TicketsOf(sid[d])' = TicketsOf(sid[d]) /\ TicketOf(d)' = TicketOf(d)
                      /\ (Sent(d)' <=> Sent(d))
  BY <1>2 DEF TicketsOf, TicketOf, Sent
<1>6. OneTicket' /\ Spent'
  BY <1>2, <1>4, <1>5 DEF IInv, OneTicket, Spent, LetInOnce, Presented
<1>7. RequestTypes'
  BY <1>1, <1>2, <1>3 DEF IInv, Clock, RequestTypes
<1>8. Dated' /\ Prompt'
  BY <1>2, <1>3, <1>4, <1>5 DEF IInv, Clock, Dated, Prompt
<1>9. Joined' /\ Late' /\ Opened'
  BY <1>2 DEF IInv, Clock, Joined, Late, Opened
<1> QED BY <1>6, <1>7, <1>8, <1>9 DEF Own, Clock

-----------------------------------------------------------------------------
(***************************************************************************)
(* Arrival.                                                                *)
(***************************************************************************)
\* What every arrival leaves of the requests' part, whatever the hub does.
LEMMA ArriveRequests ==
  ASSUME IInv, NEW c \in Conn, Arrive(c)
  PROVE  /\ dial[c] = "upgrade" /\ pc[c] = "none" /\ mate[c] = None /\ c \notin paired
         /\ \A d \in Conn : mate[d] # c
         /\ UNCHANGED <<now, issued, accepted, spelling>>
         /\ dial'[c] = "arrived" /\ since'[c] = now
         /\ \A d \in Conn \ {c} : dial'[d] = dial[d] /\ since'[d] = since[d]
         /\ dial' \in [Conn -> {"out", "upgrade", "arrived", "failed", "refused"}]
         /\ since' \in [Conn -> T!Instant]
         /\ OneTicket' /\ Spent' /\ Dated'
         /\ since[c].s <= now.s /\ now.s <= since[c].s + Delay
<1>1. /\ dial[c] = "upgrade" /\ dial' = [dial EXCEPT ![c] = "arrived"]
      /\ since' = [since EXCEPT ![c] = now] /\ UNCHANGED <<now, issued, accepted, spelling>>
  BY DEF Arrive, tickets
<1>2. pc[c] = "none" /\ mate[c] = None /\ c \notin paired /\ \A d \in Conn : mate[d] # c
  BY <1>1, HubAssumption, HubFacts DEF IInv, Clock, RequestTypes
<1>3. /\ dial'[c] = "arrived" /\ since'[c] = now
      /\ \A d \in Conn \ {c} : dial'[d] = dial[d] /\ since'[d] = since[d]
      /\ dial' \in [Conn -> {"out", "upgrade", "arrived", "failed", "refused"}]
      /\ since' \in [Conn -> T!Instant]
  BY <1>1, TicketFacts DEF IInv, Clock, RequestTypes
<1>4. \A d \in Conn : TicketsOf(sid[d])' = TicketsOf(sid[d]) /\ TicketOf(d)' = TicketOf(d)
                      /\ (Sent(d)' <=> Sent(d)) /\ (LetIn(d)' <=> LetIn(d))
  BY <1>1, <1>3 DEF TicketsOf, TicketOf, Sent, LetIn
<1>5. OneTicket' /\ Spent'
  BY <1>1, <1>4 DEF IInv, OneTicket, Spent, LetInOnce, Presented
<1>6. since[c].s <= now.s /\ now.s <= since[c].s + Delay
  BY <1>1 DEF IInv, Clock, Dated, Prompt
<1>7. Dated'
  <2>1. /\ now.s \in Nat /\ since[c].s \in Nat /\ MaxIssueTTL \in Nat
        /\ \A t \in issued : t.exp \in Nat /\ t.exp <= now.s + MaxIssueTTL
    BY TicketFacts, ConstantFacts DEF IInv, Clock, RequestTypes, T!Instant
  <2>2. \A t \in TicketsOf(sid[c]) : t \in issued
    BY DEF TicketsOf
  <2> QED BY <1>1, <1>3, <1>4, <2>1, <2>2 DEF IInv, Clock, Dated
<1> QED BY <1>1, <1>2, <1>3, <1>5, <1>6, <1>7

LEMMA WaitKeeps ==
  ASSUME IInv, NEW c \in Conn, Arrive(c), R!Wait(c)
  PROVE  Own'
<1>1. /\ pc' = [pc EXCEPT ![c] = "waiting"] /\ UNCHANGED <<paired, mate, open>>
  BY DEF R!Wait, R!Goto
<1>2. pc'[c] = "waiting" /\ \A d \in Conn \ {c} : pc'[d] = pc[d]
  BY <1>1, HubFacts DEF IInv
<1>3. RequestTypes'
  BY <1>2, ArriveRequests DEF IInv, Clock, RequestTypes
<1>4. \A d \in Conn : mate[d] # None =>
        mate[d] \in Conn /\ pc'[mate[d]] = pc[mate[d]] /\ since'[mate[d]] = since[mate[d]]
  BY <1>2, ArriveRequests, HubFacts DEF IInv
<1>5. Prompt'
  <2> SUFFICES ASSUME NEW d \in Conn
               PROVE  /\ dial'[d] = "upgrade" \/ pc'[d] = "pairing" =>
                           now.s <= since'[d].s + Delay
                      /\ pc'[d] = "waiting" /\ d \in paired =>
                           now.s <= since'[mate[d]].s + Delay
    BY <1>1, ArriveRequests DEF Prompt
  <2>1. CASE d = c
    BY <1>2, <2>1, ArriveRequests
  <2>2. CASE d # c
    <3>1. d \in paired => mate[d] # None
      BY HubFacts DEF IInv
    <3> QED BY <1>2, <1>4, <2>2, <3>1, ArriveRequests DEF IInv, Clock, Prompt
  <2> QED BY <2>1, <2>2
<1>6. Joined'
  BY <1>1, <1>2, <1>4, ArriveRequests DEF IInv, Clock, Joined
<1>7. Late'
  BY <1>1, <1>2, ArriveRequests DEF IInv, Clock, Late
<1>8. Opened'
  BY <1>1, <1>2 DEF IInv, Opened
<1> QED BY <1>3, <1>5, <1>6, <1>7, <1>8, ArriveRequests DEF Own, Clock

\* The second finds the first waiting, and with less than a lifetime and a delay
\* of its wait gone by.
LEMMA PairFinds ==
  ASSUME IInv, NEW c \in Conn, Arrive(c), R!Pair(c)
  PROVE  \E w \in Conn \ {c} :
           /\ pc[w] = "waiting" /\ w \notin paired /\ mate[w] = None /\ open[w]
           /\ \A d \in Conn : mate[d] # w
           /\ mate' = [mate EXCEPT ![c] = w, ![w] = c]
           /\ pc' = [pc EXCEPT ![c] = "pairing"] /\ UNCHANGED <<paired, open>>
           /\ now.s <= since[w].s + MaxIssueTTL + Delay
<1>1. sid[c] \in Sid
  BY HubAssumption
<1> DEFINE w == waiting[sid[c]]
<1>2. /\ w # None /\ role[w] # role[c] /\ mate' = [mate EXCEPT ![c] = w, ![w] = c]
      /\ pc' = [pc EXCEPT ![c] = "pairing"] /\ UNCHANGED <<paired, open>>
  BY DEF R!Pair, R!First, R!Goto
<1>3. /\ w \in Conn /\ pc[w] \in {"waiting", "expiring"} /\ open[w] /\ sid[w] = sid[c]
      /\ mate[w] = None
  BY <1>1, <1>2, HubFacts DEF IInv
<1> HIDE DEF w
<1>4. w # c /\ w \notin paired /\ \A d \in Conn : mate[d] # w
  BY <1>2, <1>3, HubAssumption, HubFacts DEF IInv
<1>5. pc[w] = "waiting"
  <2>1. MayArrive(c)
    BY ArriveRequests DEF MayArrive
  <2> QED BY <1>3, <2>1, LateAlone
<1>6. now.s <= since[w].s + MaxIssueTTL + Delay
  <2>1. PICK t \in TicketOf(c) : Presented(c, t) \in accepted
    BY ArriveRequests DEF IInv, Spent, LetIn
  <2>2. t \in TicketsOf(sid[w]) /\ t \in issued
    BY <1>3, <2>1 DEF TicketOf, TicketsOf
  <2>3. LetIn(w)
    BY <1>3 DEF IInv, Clock, RequestTypes, LetIn
  <2>4. since[c].s <= t.exp /\ t.exp <= since[w].s + MaxIssueTTL
    BY <1>3, <2>1, <2>2, <2>3, ArriveRequests DEF IInv, Clock, Dated
  <2>5. now.s <= since[c].s + Delay
    BY ArriveRequests
  <2>6. /\ now.s \in Nat /\ since[c].s \in Nat /\ since[w].s \in Nat /\ t.exp \in Nat
    BY <1>3, <2>2, TicketFacts DEF IInv, Clock, RequestTypes, T!Instant
  <2> QED BY <2>4, <2>5, <2>6, ConstantFacts
<1> QED BY <1>2, <1>3, <1>4, <1>5, <1>6

LEMMA PairKeeps ==
  ASSUME IInv, NEW c \in Conn, Arrive(c), R!Pair(c)
  PROVE  Own'
<1>1. PICK w \in Conn \ {c} :
           /\ pc[w] = "waiting" /\ w \notin paired /\ mate[w] = None /\ open[w]
           /\ \A d \in Conn : mate[d] # w
           /\ mate' = [mate EXCEPT ![c] = w, ![w] = c]
           /\ pc' = [pc EXCEPT ![c] = "pairing"] /\ UNCHANGED <<paired, open>>
           /\ now.s <= since[w].s + MaxIssueTTL + Delay
  BY PairFinds
<1>2. /\ pc'[c] = "pairing" /\ \A d \in Conn \ {c} : pc'[d] = pc[d]
      /\ mate'[c] = w /\ mate'[w] = c /\ \A d \in Conn \ {c, w} : mate'[d] = mate[d]
  BY <1>1, HubFacts DEF IInv
<1>3. RequestTypes'
  BY <1>2, ArriveRequests DEF IInv, Clock, RequestTypes
<1>4. \A d \in Conn \ {c, w} :
        /\ pc'[d] = pc[d] /\ since'[d] = since[d] /\ dial'[d] = dial[d]
        /\ mate[d] # None => /\ mate[d] \in Conn /\ pc'[mate[d]] = pc[mate[d]]
                             /\ since'[mate[d]] = since[mate[d]]
  <2>1. \A d \in Conn \ {c, w} : mate[d] # None => mate[d] \in Conn \ {c, w}
    BY <1>1, ArriveRequests, HubFacts DEF IInv
  <2> QED BY <1>2, <2>1, ArriveRequests
<1>5. /\ now.s \in Nat /\ since[w].s \in Nat /\ since'[w] = since[w] /\ dial'[w] = dial[w]
      /\ since'[c] = now /\ dial'[c] = "arrived" /\ now' = now /\ pc'[w] = "waiting"
  BY <1>1, <1>2, TicketFacts, ArriveRequests DEF IInv, Clock, RequestTypes, T!Instant
<1>6. Prompt'
  <2> SUFFICES ASSUME NEW d \in Conn
               PROVE  /\ dial'[d] = "upgrade" \/ pc'[d] = "pairing" =>
                           now.s <= since'[d].s + Delay
                      /\ pc'[d] = "waiting" /\ d \in paired =>
                           now.s <= since'[mate'[d]].s + Delay
    BY <1>1, <1>5 DEF Prompt
  <2>1. CASE d = c
    BY <1>2, <1>5, <2>1, ConstantFacts
  <2>2. CASE d = w
    BY <1>1, <1>5, <2>2 DEF IInv, Clock, Prompt
  <2>3. CASE d \in Conn \ {c, w}
    <3>1. d \in paired => mate[d] # None
      BY HubFacts DEF IInv
    <3> QED BY <1>2, <1>4, <2>3, <3>1 DEF IInv, Clock, Prompt
  <2> QED BY <2>1, <2>2, <2>3
<1>7. Joined'
  <2> SUFFICES ASSUME NEW d \in Conn, pc'[d] = "waiting", mate'[d] # None
               PROVE  \/ /\ pc'[mate'[d]] = "pairing"
                         /\ since'[mate'[d]].s <= since'[d].s + MaxIssueTTL + Delay
                      \/ /\ d \in paired /\ pc'[mate'[d]] # "pairing"
                         /\ since'[mate'[d]].s <= since'[d].s + MaxIssueTTL + 2 * Delay
    BY <1>1 DEF Joined
  <2>1. CASE d = w
    BY <1>1, <1>2, <1>5, <2>1
  <2>2. CASE d \in Conn \ {c, w}
    BY <1>2, <1>4, <2>2 DEF IInv, Clock, Joined
  <2> QED BY <1>2, <2>1, <2>2
<1>8. Late'
  <2> SUFFICES ASSUME NEW d \in Conn, pc'[d] \in {"expiring", "expired"}
               PROVE  mate'[d] = None /\ since'[d].s + PairWait <= now.s
    BY <1>5 DEF Late
  <2>1. d \in Conn \ {c, w}
    BY <1>2, <1>5
  <2> QED BY <1>2, <1>4, <2>1 DEF IInv, Clock, Late
<1>9. open[c] /\ \A d \in Conn : pc[d] \in Running => mate[d] \in Conn
  BY ArriveRequests, HubFacts DEF IInv
<1>10. Opened'
  <2> SUFFICES ASSUME NEW d \in Conn, pc'[d] \in {"pairing", "session"}
               PROVE  open[d] /\ open[mate'[d]]
    BY <1>1 DEF Opened
  <2>1. CASE d = c
    BY <1>1, <1>2, <1>9, <2>1
  <2>2. CASE d \in Conn \ {c, w}
    BY <1>2, <1>4, <2>2 DEF IInv, Opened
  <2> QED BY <1>2, <1>5, <2>1, <2>2
<1> QED BY <1>3, <1>6, <1>7, <1>8, <1>10, ArriveRequests DEF Own, Clock

\* Who is turned away was in no session.
LEMMA RefuseKeeps ==
  ASSUME IInv, NEW c \in Conn, Arrive(c), R!Refuse(c)
  PROVE  Own'
<1>1. /\ pc' = [pc EXCEPT ![c] = "done"] /\ open' = [open EXCEPT ![c] = FALSE]
      /\ UNCHANGED <<paired, mate>>
  BY DEF R!Refuse, R!Goto, R!Close, R!hub
<1>2. /\ pc'[c] = "done" /\ \A d \in Conn \ {c} : pc'[d] = pc[d] /\ open'[d] = open[d]
  BY <1>1, HubFacts DEF IInv
<1>3. \A d \in Conn \ {c} : mate[d] # None =>
        /\ mate[d] \in Conn \ {c} /\ pc'[mate[d]] = pc[mate[d]]
        /\ open'[mate[d]] = open[mate[d]] /\ since'[mate[d]] = since[mate[d]]
  BY <1>2, ArriveRequests, HubFacts DEF IInv
<1>4. RequestTypes'
  BY <1>2, ArriveRequests DEF IInv, Clock, RequestTypes
<1>5. Prompt'
  <2> SUFFICES ASSUME NEW d \in Conn
               PROVE  /\ dial'[d] = "upgrade" \/ pc'[d] = "pairing" =>
                           now.s <= since'[d].s + Delay
                      /\ pc'[d] = "waiting" /\ d \in paired =>
                           now.s <= since'[mate[d]].s + Delay
    BY <1>1, ArriveRequests DEF Prompt
  <2>1. CASE d = c
    BY <1>2, <2>1, ArriveRequests
  <2>2. CASE d # c
    <3>1. d \in paired => mate[d] # None
      BY HubFacts DEF IInv
    <3> QED BY <1>2, <1>3, <2>2, <3>1, ArriveRequests DEF IInv, Clock, Prompt
  <2> QED BY <2>1, <2>2
<1>6. Joined'
  <2> SUFFICES ASSUME NEW d \in Conn, pc'[d] = "waiting", mate[d] # None
               PROVE  \/ /\ pc'[mate[d]] = "pairing"
                         /\ since'[mate[d]].s <= since'[d].s + MaxIssueTTL + Delay
                      \/ /\ d \in paired /\ pc'[mate[d]] # "pairing"
                         /\ since'[mate[d]].s <= since'[d].s + MaxIssueTTL + 2 * Delay
    BY <1>1 DEF Joined
  <2>1. d # c /\ pc[d] = "waiting" /\ since'[d] = since[d]
    BY <1>2, ArriveRequests
  <2> QED BY <1>3, <2>1 DEF IInv, Clock, Joined
<1>7. Late'
  BY <1>1, <1>2, ArriveRequests DEF IInv, Clock, Late
<1>8. Opened'
  <2> SUFFICES ASSUME NEW d \in Conn, pc'[d] \in {"pairing", "session"}
               PROVE  open'[d] /\ open'[mate[d]]
    BY <1>1 DEF Opened
  <2>1. d # c /\ pc[d] \in {"pairing", "session"}
    BY <1>2
  <2>2. open[d] /\ open[mate[d]] /\ mate[d] # None
    BY <2>1, HubFacts DEF IInv, Opened, Running
  <2> QED BY <1>2, <1>3, <2>1, <2>2
<1> QED BY <1>4, <1>5, <1>6, <1>7, <1>8, ArriveRequests DEF Own, Clock

LEMMA ArriveKeeps ==
  ASSUME IInv, NEW c \in Conn, Arrive(c)
  PROVE  Own'
  BY RefuseKeeps, WaitKeeps, PairKeeps DEF Arrive, R!Arrive

-----------------------------------------------------------------------------
(***************************************************************************)
(* The handlers and the pumps.                                             *)
(***************************************************************************)
\* What they leave of the requests' part.
LEMMA HubRequests ==
  ASSUME IInv, NEW c \in Conn, Hub(c)
  PROVE  /\ UNCHANGED <<now, issued, accepted, spelling, mate, dial>>
         /\ since' = since \/ since' = [since EXCEPT ![c] = now]
         /\ OneTicket' /\ Spent' /\ Dated'
<1>1. UNCHANGED <<now, issued, accepted, spelling, dial>>
  BY DEF Hub, tickets
<1>2. mate' = mate
  BY DEF Hub, R!Handler, R!StartSession, R!PeerArrived, R!PairWaitOver, R!Withdraw,
         R!CloseExpired, R!PumpDone, R!LifeOver, R!CloseFirst, R!CloseSecond,
         R!Pump, R!TakeFrame, R!ReadError, R!WriteFrame, R!WriteError, R!SendDone, R!hub
<1>3. since' = since \/ (since' = [since EXCEPT ![c] = now] /\ pc[c] = "pairing")
  BY DEF Hub
<1>4. \A d \in Conn : /\ TicketsOf(sid[d])' = TicketsOf(sid[d]) /\ TicketOf(d)' = TicketOf(d)
                      /\ (Sent(d)' <=> Sent(d)) /\ (LetIn(d)' <=> LetIn(d))
  BY <1>1 DEF TicketsOf, TicketOf, Sent, LetIn
<1>5. OneTicket' /\ Spent'
  BY <1>1, <1>4 DEF IInv, OneTicket, Spent, LetInOnce, Presented
<1>6. Dated'
  <2>1. CASE since' = since
    BY <1>1, <1>4, <2>1 DEF IInv, Clock, Dated
  <2>2. CASE since' = [since EXCEPT ![c] = now] /\ pc[c] = "pairing"
    <3>1. since'[c] = now /\ \A d \in Conn \ {c} : since'[d] = since[d]
      BY <2>2 DEF IInv, Clock, RequestTypes
    <3>2. now.s \in Nat /\ \A t \in TicketsOf(sid[c]) : t.exp <= now.s + MaxIssueTTL
      BY TicketFacts DEF IInv, TicketsOf
    <3>3. dial[c] # "upgrade"
      BY <2>2 DEF IInv, Clock, RequestTypes
    <3> QED BY <1>1, <1>4, <3>1, <3>2, <3>3 DEF IInv, Clock, Dated
  <2> QED BY <1>3, <2>1, <2>2
<1> QED BY <1>1, <1>2, <1>3, <1>5, <1>6

\* A handler that moves on otherwise than from the pairing to the session.
LEMMA MoveKeeps ==
  ASSUME IInv, NEW c \in Conn, NEW l \in {"expiring", "expired", "ending", "closing", "done"},
         pc' = [pc EXCEPT ![c] = l], pc[c] \notin {"none", "pairing"},
         UNCHANGED <<now, paired, mate, dial, since, spelling>>,
         l \in {"expiring", "expired"} =>
           mate[c] = None /\ since[c].s + PairWait <= now.s
  PROVE  RequestTypes' /\ Prompt' /\ Joined' /\ Late'
<1>1. pc'[c] = l /\ \A d \in Conn \ {c} : pc'[d] = pc[d]
  BY HubFacts DEF IInv
<1>2. \A d \in Conn : mate[d] # None =>
        mate[d] \in Conn /\ (pc'[mate[d]] = "pairing" <=> pc[mate[d]] = "pairing")
  BY <1>1, HubFacts DEF IInv
<1>3. RequestTypes'
  BY <1>1 DEF IInv, Clock, RequestTypes
<1>4. Prompt'
  BY <1>1 DEF IInv, Clock, Prompt
<1>5. Joined'
  BY <1>1, <1>2 DEF IInv, Clock, Joined
<1>6. Late'
  BY <1>1 DEF IInv, Clock, Late
<1> QED BY <1>3, <1>4, <1>5, <1>6

\* Such a move that closes nothing does not end a session that goes on.
LEMMA MoveOpened ==
  ASSUME IInv, NEW c \in Conn, NEW l \in {"expiring", "expired", "ending", "closing", "done"},
         pc' = [pc EXCEPT ![c] = l], UNCHANGED <<mate, open>>
  PROVE  Opened'
<1>1. pc'[c] = l /\ \A d \in Conn \ {c} : pc'[d] = pc[d]
  BY HubFacts DEF IInv
<1> QED BY <1>1 DEF IInv, Opened

\* The timer of a first arrival that has been joined cannot have fired.
LEMMA TimerLate ==
  ASSUME IInv, NEW c \in Conn, pc[c] = "waiting", PairWaitSpent(c)
  PROVE  mate[c] = None /\ since[c].s + PairWait <= now.s
<1>1. now.s \in Nat /\ since[c].s \in Nat /\ now \in T!Instant /\ since[c] \in T!Instant
  BY TicketFacts DEF IInv, Clock, RequestTypes, T!Instant
<1>2. since[c].s + PairWait <= now.s
  BY <1>1, ConstantFacts DEF PairWaitSpent, T!AtLeast, T!Plus, T!Instant
<1>3. ASSUME mate[c] # None PROVE FALSE
  <2> DEFINE d == mate[c]
  <2>1. d \in Conn /\ since[d].s \in Nat
    BY <1>3, HubFacts DEF IInv, Clock, RequestTypes, T!Instant
  <2> HIDE DEF d
  <2>2. now.s <= since[d].s + Delay
        /\ since[d].s <= since[c].s + MaxIssueTTL + 2 * Delay
    <3>1. CASE pc[d] = "pairing" /\ since[d].s <= since[c].s + MaxIssueTTL + Delay
      BY <1>1, <2>1, <3>1, ConstantFacts DEF IInv, Clock, Prompt
    <3>2. CASE c \in paired /\ since[d].s <= since[c].s + MaxIssueTTL + 2 * Delay
      BY <3>2 DEF IInv, Clock, Prompt, d
    <3> QED BY <1>3, <3>1, <3>2 DEF IInv, Clock, Joined, d
  <2> QED BY <1>1, <1>2, <2>1, <2>2, ConstantFacts
<1> QED BY <1>2, <1>3

LEMMA StartKeeps ==
  ASSUME IInv, NEW c \in Conn, Hub(c), R!StartSession(c)
  PROVE  Own'
<1> DEFINE w == mate[c]
<1>1. /\ pc[c] = "pairing" /\ pc' = [pc EXCEPT ![c] = "session"]
      /\ paired' = paired \cup {w} /\ open' = open
  BY DEF R!StartSession, R!Goto
<1>2. pc'[c] = "session" /\ \A d \in Conn \ {c} : pc'[d] = pc[d]
  BY <1>1, HubFacts DEF IInv
<1>3. /\ w \in Conn \ {c} /\ mate[w] = c
      /\ \A d \in Conn \ {c, w} : mate[d] # None =>
           mate[d] \in Conn \ {c}
  BY <1>1, HubFacts DEF IInv, Running, Parked
<1> HIDE DEF w
<1>4. since'[c] = now /\ \A d \in Conn \ {c} : since'[d] = since[d]
  BY <1>1, <1>2 DEF Hub, IInv, Clock, RequestTypes
<1>5. UNCHANGED <<now, issued, accepted, spelling, mate, dial>>
      /\ OneTicket' /\ Spent' /\ Dated'
  BY HubRequests
<1>6. /\ now \in T!Instant /\ now.s \in Nat /\ since[c].s \in Nat /\ since[w].s \in Nat
      /\ now.s <= since[c].s + Delay
  BY <1>1, <1>3, TicketFacts DEF IInv, Clock, RequestTypes, T!Instant, Prompt
<1>7. RequestTypes'
  <2>1. since' \in [Conn -> T!Instant]
    BY <1>6, HubRequests DEF IInv, Clock, RequestTypes
  <2> QED BY <1>1, <1>2, <1>5, <2>1 DEF IInv, Clock, RequestTypes
<1>8. Prompt'
  <2> SUFFICES ASSUME NEW d \in Conn
               PROVE  /\ dial[d] = "upgrade" \/ pc'[d] = "pairing" =>
                           now.s <= since'[d].s + Delay
                      /\ pc'[d] = "waiting" /\ d \in paired' =>
                           now.s <= since'[mate[d]].s + Delay
    BY <1>5 DEF Prompt
  <2>1. CASE d = c
    BY <1>1, <1>2, <2>1 DEF IInv, Clock, RequestTypes
  <2>2. CASE d = w
    BY <1>2, <1>3, <1>4, <1>6, <2>2, ConstantFacts DEF IInv, Clock, Prompt
  <2>3. CASE d \in Conn \ {c, w}
    <3>1. d \in paired => mate[d] # None
      BY HubFacts DEF IInv
    <3> QED BY <1>1, <1>2, <1>3, <1>4, <2>3, <3>1 DEF IInv, Clock, Prompt
  <2> QED BY <2>1, <2>2, <2>3
<1>9. Joined'
  <2> SUFFICES ASSUME NEW d \in Conn, pc'[d] = "waiting", mate[d] # None
               PROVE  \/ /\ pc'[mate[d]] = "pairing"
                         /\ since'[mate[d]].s <= since'[d].s + MaxIssueTTL + Delay
                      \/ /\ d \in paired' /\ pc'[mate[d]] # "pairing"
                         /\ since'[mate[d]].s <= since'[d].s + MaxIssueTTL + 2 * Delay
    BY <1>5 DEF Joined
  <2>1. CASE d = w
    <3>1. since[c].s <= since[w].s + MaxIssueTTL + Delay
      BY <1>1, <1>2, <1>3, <2>1, HubAssumption DEF IInv, Clock, Joined
    <3> QED BY <1>1, <1>2, <1>3, <1>4, <1>6, <2>1, <3>1, ConstantFacts
  <2>2. CASE d \in Conn \ {c, w}
    BY <1>1, <1>2, <1>3, <1>4, <2>2 DEF IInv, Clock, Joined
  <2> QED BY <1>2, <2>1, <2>2
<1>10. Late'
  BY <1>2, <1>4, <1>5 DEF IInv, Clock, Late
<1>11. Opened'
  BY <1>1, <1>2, <1>5 DEF IInv, Opened
<1> QED BY <1>5, <1>7, <1>8, <1>9, <1>10, <1>11 DEF Own, Clock

\* A close ends only the session of the handler that does it.
LEMMA CloseKeeps ==
  ASSUME IInv, NEW c \in Conn, Hub(c),
         R!CloseExpired(c) \/ R!CloseFirst(c) \/ R!CloseSecond(c)
  PROVE  Own'
<1>1. PICK l \in {"closing", "done"}, x \in {c, mate[c]} :
        /\ pc' = [pc EXCEPT ![c] = l] /\ open' = [open EXCEPT ![x] = FALSE]
        /\ paired' = paired
        /\ \/ pc[c] = "expired" /\ x = c
           \/ pc[c] \in {"ending", "closing"}
  BY DEF R!CloseExpired, R!CloseFirst, R!CloseSecond, R!Goto, R!Close, R!hub
<1>2. since' = since
  BY <1>1 DEF Hub
<1>3. UNCHANGED <<now, issued, accepted, spelling, mate, dial>>
      /\ OneTicket' /\ Spent' /\ Dated'
  BY HubRequests
<1>4. RequestTypes' /\ Prompt' /\ Joined' /\ Late'
  BY <1>1, <1>2, <1>3, MoveKeeps
<1>5. Opened'
  <2> SUFFICES ASSUME NEW d \in Conn, pc'[d] \in {"pairing", "session"}
               PROVE  open'[d] /\ open'[mate[d]]
    BY <1>3 DEF Opened
  <2>1. d # c /\ pc[d] \in {"pairing", "session"}
    BY <1>1, HubFacts DEF IInv
  <2>2. /\ open[d] /\ open[mate[d]] /\ mate[d] \in Conn /\ mate[mate[d]] = d
        /\ pc[mate[d]] \in Parked
    BY <2>1, HubFacts DEF IInv, Opened, Running
  <2>3. CASE pc[c] = "expired" /\ x = c
    <3>1. mate[c] = None
      BY <2>3 DEF IInv, Clock, Late
    <3>2. mate[d] # c
      BY <2>2, <3>1, HubAssumption
    <3> QED BY <1>1, <2>1, <2>2, <2>3, <3>2, HubFacts DEF IInv
  <2>4. CASE pc[c] \in {"ending", "closing"}
    <3>1. mate[c] \in Conn /\ mate[mate[c]] = c /\ pc[mate[c]] \in Parked
      BY <2>4, HubFacts DEF IInv, Running
    <3>2. d # mate[c] /\ mate[d] # c /\ mate[d] # mate[c]
      BY <2>1, <2>2, <2>4, <3>1 DEF Parked
    <3> QED BY <1>1, <2>1, <2>2, <3>1, <3>2, HubFacts DEF IInv
  <2> QED BY <1>1, <2>3, <2>4
<1> QED BY <1>3, <1>4, <1>5 DEF Own, Clock

LEMMA HubKeeps ==
  ASSUME IInv, NEW c \in Conn, Hub(c)
  PROVE  Own'
<1> USE DEF R!Goto, R!hub, R!pumps, R!wire
<1>1. UNCHANGED <<now, issued, accepted, spelling, mate, dial>>
      /\ OneTicket' /\ Spent' /\ Dated'
  BY HubRequests
<1>2. ASSUME NEW l \in {"expiring", "expired", "ending", "done"},
             pc' = [pc EXCEPT ![c] = l], pc[c] \notin {"none", "pairing"},
             UNCHANGED <<paired, open>>,
             l \in {"expiring", "expired"} =>
               mate[c] = None /\ since[c].s + PairWait <= now.s
      PROVE  Own'
  <2>1. since' = since
    BY <1>2 DEF Hub
  <2>2. RequestTypes' /\ Prompt' /\ Joined' /\ Late'
    BY <1>1, <1>2, <2>1, MoveKeeps
  <2>3. Opened'
    BY <1>1, <1>2, MoveOpened
  <2> QED BY <1>1, <2>2, <2>3 DEF Own, Clock
<1>3. CASE R!StartSession(c)
  BY <1>3, StartKeeps
<1>4. CASE R!PeerArrived(c)
  BY <1>2, <1>4 DEF R!PeerArrived
<1>5. CASE R!PairWaitOver(c)
  <2>1. pc[c] = "waiting" /\ pc' = [pc EXCEPT ![c] = "expiring"] /\ UNCHANGED <<paired, open>>
    BY <1>5 DEF R!PairWaitOver
  <2>2. pc'[c] = "expiring"
    BY <2>1, HubFacts DEF IInv
  <2>3. PairWaitSpent(c)
    BY <2>1, <2>2 DEF Hub
  <2> QED BY <1>2, <2>1, <2>3, TimerLate
<1>6. CASE R!Withdraw(c)
  <2>1. pc[c] = "expiring" /\ pc' = [pc EXCEPT ![c] = "expired"] /\ UNCHANGED <<paired, open>>
    BY <1>6 DEF R!Withdraw
  <2>2. mate[c] = None /\ since[c].s + PairWait <= now.s
    BY <2>1 DEF IInv, Clock, Late
  <2> QED BY <1>2, <2>1, <2>2
<1>7. CASE R!CloseExpired(c) \/ R!CloseFirst(c) \/ R!CloseSecond(c)
  BY <1>7, CloseKeeps
<1>8. CASE R!PumpDone(c) \/ R!LifeOver(c)
  BY <1>2, <1>8 DEF R!PumpDone, R!LifeOver
<1>9. CASE R!Pump(c)
  <2>1. UNCHANGED <<pc, paired, open>>
    BY <1>9 DEF R!Pump, R!TakeFrame, R!ReadError, R!WriteFrame, R!WriteError, R!SendDone
  <2>2. since' = since
    BY <2>1 DEF Hub
  <2>3. RequestTypes' /\ Prompt' /\ Joined' /\ Late' /\ Opened'
    BY <1>1, <2>1, <2>2 DEF IInv, Clock, RequestTypes, Prompt, Joined, Late, Opened
  <2> QED BY <1>1, <2>3 DEF Own, Clock
<1> QED BY <1>3, <1>4, <1>5, <1>6, <1>7, <1>8, <1>9 DEF Hub, R!Handler

-----------------------------------------------------------------------------
(***************************************************************************)
(* The sweep and time.                                                     *)
(***************************************************************************)
LEMMA SweepKeeps ==
  ASSUME IInv, Sweep
  PROVE  Own'
<1>1. UNCHANGED <<now, issued, accepted, spelling, pc, paired, mate, open, dial, since>>
  BY DEF Sweep, T!SweepOnce, T!Sweep, hub, requests
<1>2. \A c \in Conn : /\ TicketsOf(sid[c])' = TicketsOf(sid[c]) /\ TicketOf(c)' = TicketOf(c)
                      /\ (Sent(c)' <=> Sent(c)) /\ (LetIn(c)' <=> LetIn(c))
  BY <1>1 DEF TicketsOf, TicketOf, Sent, LetIn
<1>3. OneTicket' /\ Spent' /\ Dated'
  BY <1>1, <1>2 DEF IInv, Clock, OneTicket, Spent, LetInOnce, Presented, Dated
<1>4. RequestTypes' /\ Prompt' /\ Joined' /\ Late' /\ Opened'
  BY <1>1 DEF IInv, Clock, RequestTypes, Prompt, Joined, Late, Opened
<1> QED BY <1>3, <1>4 DEF Own, Clock

LEMMA TickKeeps ==
  ASSUME IInv, TP!IInv', Tick
  PROVE  Own'
<1>1. /\ now' = T!Successor(now)
      /\ UNCHANGED <<issued, accepted, spelling, pc, paired, mate, open, dial, since>>
  BY DEF Tick, T!Tick, hub, requests
<1>2. now.s \in Nat /\ now'.s \in Nat /\ now.s <= now'.s /\ now' \in T!Instant
  <2>1. now \in T!Instant /\ now.s \in Nat
    BY TicketFacts DEF IInv
  <2>2. now' \in T!Instant
    BY DEF TP!IInv, TP!TypeOK, TP!Instant, T!Instant
  <2>3. now'.s = now.s \/ now'.s = now.s + 1
    BY <1>1 DEF T!Successor
  <2> QED BY <2>1, <2>2, <2>3 DEF T!Instant
<1>3. \A c \in Conn : since[c] \in T!Instant /\ since[c].s \in Nat
  BY DEF IInv, Clock, RequestTypes, T!Instant
<1>4. \A c \in Conn : /\ TicketsOf(sid[c])' = TicketsOf(sid[c]) /\ TicketOf(c)' = TicketOf(c)
                      /\ (Sent(c)' <=> Sent(c)) /\ (LetIn(c)' <=> LetIn(c))
  BY <1>1 DEF TicketsOf, TicketOf, Sent, LetIn
<1>5. OneTicket' /\ Spent'
  BY <1>1, <1>4 DEF IInv, OneTicket, Spent, LetInOnce, Presented
<1>6. Dated'
  BY <1>1, <1>2, <1>3, <1>4 DEF IInv, Clock, Dated
<1>7. Prompt'
  <2> SUFFICES ASSUME NEW c \in Conn
               PROVE  /\ dial[c] = "upgrade" \/ pc[c] = "pairing" =>
                           now'.s <= since[c].s + Delay
                      /\ pc[c] = "waiting" /\ c \in paired =>
                           now'.s <= since[mate[c]].s + Delay
    BY <1>1 DEF Prompt
  <2>1. dial[c] = "upgrade" \/ pc[c] = "pairing" =>
          T!AtLeast(T!Plus(since[c], Delay), now')
    BY DEF Tick
  <2>2. pc[c] = "waiting" /\ c \in paired =>
          mate[c] \in Conn /\ T!AtLeast(T!Plus(since[mate[c]], Delay), now')
    BY HubFacts DEF Tick, IInv
  <2> QED BY <1>2, <1>3, <2>1, <2>2, Seconds, ConstantFacts
<1>8. Joined' /\ Opened' /\ RequestTypes'
  BY <1>1 DEF IInv, Clock, RequestTypes, Joined, Opened
<1>9. Late'
  BY <1>1, <1>2, <1>3, ConstantFacts DEF IInv, Clock, Late
<1> QED BY <1>5, <1>6, <1>7, <1>8, <1>9 DEF Own, Clock

-----------------------------------------------------------------------------
(***************************************************************************)
(* The invariant and what it shows.                                        *)
(***************************************************************************)
LEMMA Initially == Init => IInv
<1> SUFFICES ASSUME Init PROVE IInv
  OBVIOUS
<1>1. TP!Init
  BY DEF Init, T!Init, TP!Init, T!NoKey, TP!NoKey, T!Idle, TP!Idle
<1>2. RP!Init
  BY DEF Init, R!Init, RP!Init
<1>3. /\ issued = {} /\ now = [s |-> 0, f |-> 0] /\ dial = [c \in Conn |-> "out"]
      /\ since = [c \in Conn |-> [s |-> 0, f |-> 0]] /\ pc = [c \in Conn |-> "none"]
      /\ spelling \in Spellings
  BY DEF Init, T!Init, R!Init
<1>4. [s |-> 0, f |-> 0] \in T!Instant
  BY TicketsAssumption DEF T!Instant
<1>5. OneTicket /\ Spent /\ RequestTypes
  BY <1>3, <1>4 DEF OneTicket, Spent, LetInOnce, Presented, LetIn, RequestTypes
<1>6. Dated /\ Prompt /\ Joined /\ Late /\ Opened
  BY <1>3 DEF Dated, LetIn, Prompt, Joined, Late, Opened
<1> QED BY <1>1, <1>2, <1>5, <1>6, TicketsInitially, HubInitially DEF IInv, Clock

LEMMA StepKeeps == IInv /\ [Next]_vars => IInv'
<1> SUFFICES ASSUME IInv, [Next]_vars PROVE IInv'
  OBVIOUS
<1>1. TP!IInv' /\ RP!IInv'
  BY TicketStep, TicketsKept, HubStep, HubKept DEF IInv, Clock
<1>2. ASSUME UNCHANGED vars PROVE Own'
  <2>1. UNCHANGED <<now, issued, accepted, spelling, pc, paired, mate, open, dial, since>>
    BY <1>2 DEF vars, tickets, hub, requests
  <2>2. \A c \in Conn : /\ TicketsOf(sid[c])' = TicketsOf(sid[c])
                        /\ TicketOf(c)' = TicketOf(c)
                        /\ (Sent(c)' <=> Sent(c)) /\ (LetIn(c)' <=> LetIn(c))
    BY <2>1 DEF TicketsOf, TicketOf, Sent, LetIn
  <2>3. OneTicket' /\ Spent' /\ Dated'
    BY <2>1, <2>2 DEF IInv, Clock, OneTicket, Spent, LetInOnce, Presented, Dated
  <2>4. RequestTypes' /\ Prompt' /\ Joined' /\ Late' /\ Opened'
    BY <2>1 DEF IInv, Clock, RequestTypes, Prompt, Joined, Late, Opened
  <2> QED BY <2>3, <2>4 DEF Own, Clock
<1>3. Own'
  BY <1>1, <1>2, LookupKeeps, AdmitKeeps, TurnedAwayKeeps, ArriveKeeps, HubKeeps,
     SweepKeeps, TickKeeps
     DEF Next
<1> QED BY <1>1, <1>3 DEF IInv, Own

LEMMA Invariance == Spec => []IInv
  BY Initially, StepKeeps, PTL DEF Spec

\* The hub's wait (relay.go:42) outlasts the tickets (ticket.go:22) whenever it
\* exceeds a ticket's lifetime and three delays of a handler: no first arrival
\* gives up on a second that may still come or has come.
THEOREM WaitAlwaysOutlasts == Spec => []WaitOutlastsTickets
<1>1. IInv => WaitOutlastsTickets
  <2> SUFFICES ASSUME IInv, NEW c \in Conn, NEW d \in Conn,
                      pc[c] \in {"expiring", "expired"}, sid[d] = sid[c]
               PROVE  ~MayArrive(d) /\ mate[c] # d
    BY DEF WaitOutlastsTickets
  <2> QED BY LateAlone, HubAssumption
<1> QED BY Invariance, <1>1, PTL

\* Bytes are copied until close or lifetime cap (relay.go:51-52): while the pumps
\* of a session run nobody has closed either end, the first's timer included.
THEOREM AlwaysCopied == Spec => []CopiedUntilCloseOrCap
<1>1. IInv => CopiedUntilCloseOrCap
  BY DEF IInv, Opened, CopiedUntilCloseOrCap, R!CopiedUntilCloseOrCap
<1> QED BY Invariance, <1>1, PTL

\* A string lets one connection in (wire.go:101-118), for any number of requests
\* that present it at once: Verify spends it before its holder is upgraded.
THEOREM StringsLetInOnce == Spec => []LetInOnce
<1>1. IInv => LetInOnce
  BY DEF IInv, Spent
<1> QED BY Invariance, <1>1, PTL

-----------------------------------------------------------------------------
(***************************************************************************)
(* What is proved of the tickets alone and of the hub alone holds of both  *)
(* together.                                                               *)
(***************************************************************************)
\* The endpoint uses tickets and hub as their modules say: its steps are their own
\* calls, so whatever holds of Tickets and of Relay holds here.
THEOREM UsesTicketsAndHub == Spec => TP!Spec /\ RP!Spec
<1>1. Init => TP!Init /\ RP!Init
  BY DEF Init, T!Init, TP!Init, T!NoKey, TP!NoKey, T!Idle, TP!Idle, R!Init, RP!Init
<1>2. IInv => RequestTypes
  BY DEF IInv, Clock
<1> QED BY <1>1, <1>2, Invariance, TicketStep, HubStep, PTL DEF Spec, TP!Spec, RP!Spec

\* Whatever is presented at the endpoint, a string is accepted at most once
\* (ticket.go:97-129), and rotation forgets the key of no ticket that still has Lag
\* to go (ticket.go:20-21).
THEOREM TicketsStand == Spec => [](TP!SpentAsSpelled /\ TP!LiveTicketsVerify)
<1>1. TP!Spec => []TP!SpentAsSpelled
  BY TP!StringsSpentOnce, TicketsAssumption
<1>2. TP!Spec => []TP!LiveTicketsVerify
  BY TP!LiveTicketsAlwaysVerify, TicketsAssumption
<1> QED BY <1>1, <1>2, UsesTicketsAndHub, PTL

\* Whoever a ticket lets in, the hub joins opposite ends of one session, once
\* (Pipe, without the frames that peers would send), and the first of a session
\* that it keeps waiting is one that a second may be joined to.
THEOREM HubStands == Spec => RP!Refinement /\ []RP!WaitingServed
<1>1. RP!Spec => RP!Refinement
  BY RP!RelayImplementsPipe, HubConstants
<1>2. RP!Spec => []RP!WaitingServed
  BY RP!WaitingAlwaysServed, HubConstants
<1> QED BY <1>1, <1>2, UsesTicketsAndHub, PTL
=============================================================================
