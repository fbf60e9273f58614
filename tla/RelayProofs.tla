----------------------------- MODULE RelayProofs -----------------------------
(***************************************************************************)
(* Proofs about Relay for any connections, sessions, roles, frame sizes    *)
(* and limits: type correctness, that the waiting map holds nothing a      *)
(* second arrival must not be joined to, that no frame is lost between the *)
(* upgrade and the pump, and that the relay implements Pipe.               *)
(***************************************************************************)
EXTENDS Relay, SequenceTheorems, WellFoundedInduction, TLAPS

\* What the waiting map holds is still on its own.
Waits ==
  \A s \in Sid : LET c == waiting[s] IN
    c # None => /\ pc[c] \in {"waiting", "expiring"}
                /\ open[c] /\ sid[c] = s /\ mate[c] = None

\* Sessions pair opposite ends, and no connection is in two.
Mates ==
  \A c \in Conn :
    mate[c] # None => /\ mate[mate[c]] = c
                      /\ sid[mate[c]] = sid[c] /\ role[mate[c]] # role[c]

Running == {"pairing", "session", "ending", "closing"}
Parked == {"waiting", "expiring", "expired", "done"}

\* A handler runs a session only for connections that have been paired, its own
\* and one whose handler does not; no pump runs before it starts them; and a
\* connection that has not arrived is in none and nobody closed it.
Engaged ==
  \A c \in Conn :
    /\ c \in paired => mate[c] # None
    /\ pc[c] \in Running =>
         mate[c] # None /\ pc[mate[c]] \in Parked
    /\ pc[c] = "pairing" => pump[c] = "off" /\ pump[mate[c]] = "off"
    /\ pump[c] # "off" => mate[c] # None
    /\ pc[c] = "none" => mate[c] = None /\ open[c]

Hub == Waits /\ Mates /\ Engaged

\* What has been written, what a pump holds and what it has yet to read is what
\* the peer sent, from the first frame it sent: before the pump starts, nothing
\* has been read.
Flow ==
  \A c \in Conn :
    /\ mate[c] = None => got[c] = <<>>
    /\ pump[c] = "off" => inbox[c] = sent[c]
    /\ pump[c] = "off" /\ mate[c] # None => got[mate[c]] = <<>>
    /\ pump[c] = "read" => got[mate[c]] \o inbox[c] = sent[c]
    /\ pump[c] = "write" => got[mate[c]] \o <<carry[c]>> \o inbox[c] = sent[c]

IInv == TypeOK /\ Hub /\ Flow

-----------------------------------------------------------------------------
LEMMA Initially == Init => IInv
<1> SUFFICES ASSUME Init PROVE IInv
  OBVIOUS
<1>1. TypeOK
  BY SizeAssumption DEF Init, TypeOK, HandlerState, PumpState
<1>2. Hub
  BY DEF Init, Hub, Waits, Mates, Engaged, Running
<1>3. Flow
  BY DEF Init, Flow
<1> QED BY <1>1, <1>2, <1>3 DEF IInv

LEMMA HeadTail ==
  ASSUME NEW S, NEW q \in Seq(S), q # <<>>
  PROVE  /\ Head(q) \in S /\ Tail(q) \in Seq(S)
         /\ q = <<Head(q)>> \o Tail(q)
  OBVIOUS

-----------------------------------------------------------------------------
(***************************************************************************)
(* Type correctness.                                                       *)
(***************************************************************************)
LEMMA ArriveTypes ==
  ASSUME TypeOK, NEW c \in Conn, Arrive(c)
  PROVE  TypeOK'
<1>1. sid[c] \in Sid
  BY WhoAssumption
<1>2. CASE Refuse(c)
  BY <1>2 DEF Refuse, TypeOK, Goto, Close, hub, pumps, wire, HandlerState
<1>3. CASE Wait(c)
  BY <1>1, <1>3 DEF Wait, TypeOK, Goto, hub, pumps, wire, HandlerState
<1>4. CASE Pair(c)
  BY <1>1, <1>4 DEF Pair, First, TypeOK, Goto, hub, pumps, wire, HandlerState
<1> QED BY <1>2, <1>3, <1>4 DEF Arrive

LEMMA HandlerTypes ==
  ASSUME TypeOK, Engaged, NEW c \in Conn, Handler(c)
  PROVE  TypeOK'
<1>1. sid[c] \in Sid
  BY WhoAssumption
<1>2. CASE StartSession(c)
  <2>1. mate[c] \in Conn
    BY <1>2 DEF StartSession, Engaged, Running, TypeOK
  <2> QED BY <1>2, <2>1 DEF StartSession, TypeOK, Goto, wire, HandlerState, PumpState
<1>3. CASE PeerArrived(c) \/ PairWaitOver(c)
  BY <1>3 DEF PeerArrived, PairWaitOver, TypeOK, Goto, hub, pumps, wire, HandlerState
<1>4. CASE Withdraw(c)
  BY <1>1, <1>4 DEF Withdraw, TypeOK, Goto, pumps, wire, HandlerState
<1>5. CASE CloseExpired(c) \/ CloseFirst(c) \/ CloseSecond(c)
  BY <1>5 DEF CloseExpired, CloseFirst, CloseSecond, TypeOK, Goto, Close, hub,
              pumps, wire, HandlerState
<1>6. CASE PumpDone(c)
  BY <1>6, SizeAssumption DEF PumpDone, TypeOK, Goto, hub, pumps, wire, HandlerState
<1>7. CASE LifeOver(c)
  BY <1>7 DEF LifeOver, TypeOK, Goto, hub, pumps, wire, HandlerState
<1> QED BY <1>2, <1>3, <1>4, <1>5, <1>6, <1>7 DEF Handler

LEMMA PumpTypes ==
  ASSUME TypeOK, NEW c \in Conn, Pump(c)
  PROVE  TypeOK'
<1>1. CASE TakeFrame(c)
  <2> DEFINE f == Head(inbox[c])
  <2>1. f \in Frame /\ Tail(inbox[c]) \in Seq(Frame)
    BY <1>1, HeadTail DEF TakeFrame, TypeOK
  <2>2. f.size \in Nat
    BY <2>1, SizeAssumption DEF Frame
  <2>3. inbox' \in [Conn -> Seq(Frame)]
    BY <1>1, <2>1 DEF TakeFrame, TypeOK
  <2>4. pump' \in [Conn -> PumpState]
    BY <1>1 DEF TakeFrame, TypeOK, PumpState
  <2>5. n' \in [Conn -> Nat]
    <3>1. n[c] \in Nat /\ n[c] + f.size \in Nat
      BY <2>2 DEF TypeOK
    <3>2. n' = n \/ n' = [n EXCEPT ![c] = n[c] + f.size]
      BY <1>1 DEF TakeFrame
    <3> QED BY <3>1, <3>2 DEF TypeOK
  <2>6. /\ carry' \in [Conn -> Frame \cup {None}]
        /\ \A d \in Conn : pump'[d] = "write" => carry'[d] \in Frame
    BY <1>1, <2>1 DEF TakeFrame, TypeOK
  <2> QED BY <1>1, <2>3, <2>4, <2>5, <2>6 DEF TakeFrame, TypeOK, hub
<1>2. CASE ReadError(c) \/ WriteError(c)
  BY <1>2 DEF ReadError, WriteError, TypeOK, hub, wire, PumpState
<1>3. CASE WriteFrame(c)
  <2>1. carry[c] \in Frame
    BY <1>3 DEF WriteFrame, TypeOK
  <2>2. got' \in [Conn -> Seq(Frame)]
    <3>1. CASE mate[c] \in Conn
      <4>1. Append(got[mate[c]], carry[c]) \in Seq(Frame)
        BY <2>1, <3>1 DEF TypeOK
      <4> QED BY <1>3, <4>1 DEF WriteFrame, TypeOK
    <3>2. CASE mate[c] \notin Conn
      BY <1>3, <3>2 DEF WriteFrame, TypeOK
    <3> QED BY <3>1, <3>2
  <2>3. /\ carry' \in [Conn -> Frame \cup {None}]
        /\ pump' \in [Conn -> PumpState]
        /\ \A d \in Conn : pump'[d] = "write" => carry'[d] \in Frame
    BY <1>3 DEF WriteFrame, TypeOK, PumpState
  <2> QED BY <1>3, <2>2, <2>3 DEF WriteFrame, TypeOK, hub
<1>4. CASE SendDone(c)
  <2>1. done' \in [Conn -> 0..DoneCap]
    <3>1. CASE owner[c] \in Conn
      BY <1>4, <3>1, SizeAssumption DEF SendDone, TypeOK
    <3>2. CASE owner[c] \notin Conn
      BY <1>4, <3>2 DEF SendDone, TypeOK
    <3> QED BY <3>1, <3>2
  <2> QED BY <1>4, <2>1 DEF SendDone, TypeOK, hub, wire, PumpState
<1> QED BY <1>1, <1>2, <1>3, <1>4 DEF Pump

LEMMA PeerTypes ==
  ASSUME TypeOK, NEW c \in Conn, Peer(c)
  PROVE  TypeOK'
<1>1. ASSUME NEW size \in Size, PeerSends(c, size)
      PROVE  TypeOK'
  <2>1. [nr |-> Len(sent[c]) + 1, size |-> size] \in Frame
    BY <1>1, SizeAssumption DEF PeerSends, TypeOK, Frame
  <2> QED BY <1>1, <2>1 DEF PeerSends, TypeOK, hub, pumps
<1>2. CASE PeerStalls(c) \/ PeerLeaves(c)
  BY <1>2 DEF PeerStalls, PeerLeaves, TypeOK, hub, pumps, wire
<1> QED BY <1>1, <1>2 DEF Peer

LEMMA StutterTypes ==
  ASSUME TypeOK, Finished \/ UNCHANGED vars
  PROVE  TypeOK'
  BY DEF Finished, TypeOK, vars, hub, pumps, wire

LEMMA TypeStep == TypeOK /\ Engaged /\ [Next]_vars => TypeOK'
  BY ArriveTypes, HandlerTypes, PumpTypes, PeerTypes, StutterTypes DEF Next

-----------------------------------------------------------------------------
(***************************************************************************)
(* The hub.                                                                *)
(***************************************************************************)
\* A handler that moves on without pairing anybody.
LEMMA MoveEngaged ==
  ASSUME TypeOK, Hub, NEW c \in Conn, NEW l,
         pc' = [pc EXCEPT ![c] = l],
         UNCHANGED <<paired, mate, pump>>,
         l \notin {"none", "pairing"},
         pc[c] \in Parked => l \in Parked,
         l \in Running => pc[c] \in Running,
         \A d \in Conn : pc'[d] = "none" => open'[d]
  PROVE  Engaged'
<1>1. \A d \in Conn : pc'[d] = IF d = c THEN l ELSE pc[d]
  BY DEF TypeOK
<1>2. \A d \in Conn : mate[d] # None => mate[d] \in Conn
  BY DEF TypeOK
<1> QED BY <1>1, <1>2 DEF Hub, Engaged, Running, Parked

LEMMA ArriveHub ==
  ASSUME TypeOK, Hub, NEW c \in Conn, Arrive(c)
  PROVE  Hub'
<1>1. sid[c] \in Sid /\ c # None
  BY WhoAssumption, NoneAssumption
<1>2. mate[c] = None /\ c \notin paired /\ pump[c] = "off"
  BY DEF Arrive, Refuse, Wait, Pair, Hub, Engaged, Running
<1>3. CASE Refuse(c)
  <2>1. /\ pc' = [pc EXCEPT ![c] = "done"] /\ open' = [open EXCEPT ![c] = FALSE]
        /\ UNCHANGED <<waiting, paired, mate, pump>>
    BY <1>3 DEF Refuse, Goto, Close, hub, pumps
  <2>2. pc[c] = "none"
    BY <1>3 DEF Refuse
  <2>3. Waits' /\ Mates'
    BY <2>1, <2>2 DEF TypeOK, Hub, Waits, Mates
  <2>4. \A d \in Conn : pc'[d] = "none" => open'[d]
    BY <2>1 DEF TypeOK, Hub, Engaged
  <2>5. "done" \in Parked /\ "done" \notin Running \cup {"none", "pairing"}
    BY DEF Running, Parked
  <2>6. pc[c] \notin Parked
    BY <2>2 DEF Parked
  <2>7. Engaged'
    BY <2>1, <2>4, <2>5, <2>6, MoveEngaged
  <2> QED BY <2>3, <2>7 DEF Hub
<1>4. CASE Wait(c)
  <2>1. open[c]
    BY <1>4 DEF Wait, Hub, Engaged, Running
  <2>2. /\ pc' = [pc EXCEPT ![c] = "waiting"] /\ pc[c] = "none"
        /\ waiting' = [waiting EXCEPT ![sid[c]] = c]
        /\ UNCHANGED <<paired, mate, pump, open>>
    BY <1>4 DEF Wait, Goto, pumps
  <2>3. Waits' /\ Mates'
    BY <1>1, <1>2, <2>1, <2>2 DEF TypeOK, Hub, Waits, Mates
  <2>4. Engaged'
    BY <2>2, MoveEngaged DEF Hub, Engaged, Running, Parked
  <2> QED BY <2>3, <2>4 DEF Hub
<1>5. CASE Pair(c)
  <2> DEFINE w == waiting[sid[c]]
  <2>1. /\ w \in Conn /\ w # c /\ w # None
        /\ mate[w] = None /\ sid[w] = sid[c] /\ role[w] # role[c]
        /\ pc[w] \in {"waiting", "expiring"}
    BY <1>1, <1>5 DEF Pair, First, TypeOK, Hub, Waits
  <2>2. mate' = [mate EXCEPT ![c] = w, ![w] = c]
    BY <1>5 DEF Pair, First
  <2>3. pc' = [pc EXCEPT ![c] = "pairing"] /\ UNCHANGED <<paired, pump, open>>
    BY <1>5 DEF Pair, Goto, pumps
  <2>4. waiting' = [waiting EXCEPT ![sid[c]] = None]
    BY <1>5 DEF Pair
  <2>5. Waits'
    <3> SUFFICES ASSUME NEW s \in Sid, waiting'[s] # None
                 PROVE  /\ pc'[waiting'[s]] \in {"waiting", "expiring"}
                        /\ open'[waiting'[s]] /\ sid[waiting'[s]] = s
                        /\ mate'[waiting'[s]] = None
      BY DEF Waits
    <3>1. waiting'[s] = waiting[s] /\ waiting[s] \in Conn
      BY <1>1, <2>4 DEF TypeOK
    <3>2. /\ pc[waiting[s]] \in {"waiting", "expiring"} /\ open[waiting[s]]
          /\ sid[waiting[s]] = s /\ mate[waiting[s]] = None
      BY <3>1, NoneAssumption DEF Hub, Waits
    <3>3. waiting[s] # c /\ waiting[s] # w
      BY <1>1, <2>1, <2>4, <3>1, <3>2, NoneAssumption DEF TypeOK
    <3> QED BY <2>1, <2>2, <2>3, <3>1, <3>2, <3>3 DEF TypeOK
  <2>6. Mates'
    <3>1. mate'[c] = w /\ mate'[w] = c
      BY <2>1, <2>2 DEF TypeOK
    <3>2. ASSUME NEW d \in Conn \ {c, w}, mate[d] # None
          PROVE  mate[d] \in Conn \ {c, w}
      <4>1. mate[d] \in Conn
        BY <3>2 DEF TypeOK
      <4>2. mate[mate[d]] = d
        BY <3>2 DEF Hub, Mates
      <4> HIDE DEF w
      <4> QED BY <1>2, <2>1, <3>2, <4>1, <4>2, NoneAssumption
    <3>3. \A d \in Conn \ {c, w} : mate'[d] = mate[d]
      BY <2>2 DEF TypeOK
    <3> QED BY <1>1, <2>1, <3>1, <3>2, <3>3 DEF Hub, Mates
  <2>7. Engaged'
    <3>1. \A d \in Conn \ {c, w} :
            /\ mate'[d] = mate[d] /\ mate[d] \notin {c, w}
            /\ pc'[d] = pc[d]
      <4>1. ASSUME NEW d \in Conn \ {c, w}, mate[d] \in {c, w}
            PROVE  FALSE
        <5>1. mate[mate[d]] = d
          BY <1>1, <2>1, <4>1 DEF Hub, Mates
        <5> QED BY <1>2, <2>1, <4>1, <5>1, NoneAssumption
      <4>2. \A d \in Conn \ {c, w} : mate'[d] = mate[d] /\ pc'[d] = pc[d]
        BY <2>2, <2>3 DEF TypeOK
      <4> QED BY <4>1, <4>2
    <3>2. mate'[c] = w /\ mate'[w] = c /\ pc'[w] = pc[w] /\ pc'[c] = "pairing"
      BY <2>1, <2>2, <2>3 DEF TypeOK
    <3>3. pump[w] = "off"
      BY <2>1 DEF Hub, Engaged
    <3>4. \A d \in Conn \ {c, w} : mate[d] # None => pc'[mate[d]] = pc[mate[d]]
      BY <2>3, <3>1 DEF TypeOK
    <3> QED BY <1>1, <1>2, <2>1, <2>3, <3>1, <3>2, <3>3, <3>4
            DEF Hub, Engaged, Running, Parked
  <2> QED BY <2>5, <2>6, <2>7 DEF Hub
<1> QED BY <1>3, <1>4, <1>5 DEF Arrive

LEMMA HandlerHub ==
  ASSUME TypeOK, Hub, NEW c \in Conn, Handler(c)
  PROVE  Hub'
<1>1. sid[c] \in Sid /\ c # None
  BY WhoAssumption, NoneAssumption
<1>2. CASE StartSession(c)
  <2>1. mate[c] \in Conn /\ mate[mate[c]] = c
    BY <1>2 DEF StartSession, TypeOK, Hub, Mates, Engaged, Running
  <2>2. /\ pc' = [pc EXCEPT ![c] = "session"] /\ paired' = paired \cup {mate[c]}
        /\ pump' = [pump EXCEPT ![c] = "read", ![mate[c]] = "read"]
        /\ UNCHANGED <<waiting, mate, open>>
    BY <1>2 DEF StartSession, Goto
  <2>3. pc[c] = "pairing"
    BY <1>2 DEF StartSession
  <2>4. Waits' /\ Mates'
    BY <2>2, <2>3 DEF TypeOK, Hub, Waits, Mates
  <2>5. Engaged'
    <3>1. \A d \in Conn \ {c} : pc'[d] = pc[d] /\ (pc[d] = "pairing" => d # mate[c])
      BY <2>2, <2>3 DEF TypeOK, Hub, Engaged, Running, Parked
    <3>2. ASSUME NEW d \in Conn \ {c}, pc[d] \in Running
          PROVE  mate[d] \in Conn \ {c, mate[c]}
      <4>1. mate[d] \in Conn /\ pc[mate[d]] \in Parked /\ mate[mate[d]] = d
        BY <3>2 DEF TypeOK, Hub, Mates, Engaged
      <4>2. mate[d] # c
        BY <2>3, <4>1 DEF Parked
      <4> QED BY <2>1, <4>1, <4>2
    <3>3. mate[c] # c
      BY <2>1, <2>3 DEF Hub, Engaged, Running, Parked
    <3>4. \A d \in Conn \ {c, mate[c]} : pump'[d] = pump[d]
      BY <2>2 DEF TypeOK
    <3>5. mate[mate[c]] # None /\ pc[mate[c]] \in Parked
      BY <1>1, <2>1, <2>3 DEF Hub, Engaged, Running
    <3>6. /\ pump'[c] = "read" /\ pump'[mate[c]] = "read" /\ pc'[c] = "session"
          /\ mate[c] # None
      BY <2>1, <2>2, <3>3, NoneAssumption DEF TypeOK
    <3>7. ASSUME NEW d \in {c, mate[c]}
          PROVE  /\ mate[d] # None /\ pc'[d] \notin {"pairing", "none"}
                 /\ pc'[d] \in Running => pc'[mate[d]] \in Parked
      BY <1>1, <2>1, <3>1, <3>3, <3>5, <3>6 DEF Parked, Running
    <3>8. ASSUME NEW d \in Conn \ {c, mate[c]}
          PROVE  /\ d \in paired' => mate[d] # None
                 /\ pc'[d] \in Running => mate[d] # None /\ pc'[mate[d]] \in Parked
                 /\ pc'[d] = "pairing" => pump'[d] = "off" /\ pump'[mate[d]] = "off"
                 /\ pump'[d] # "off" => mate[d] # None
                 /\ pc'[d] = "none" => mate[d] = None /\ open'[d]
      BY <2>2, <3>1, <3>2, <3>4 DEF Hub, Engaged, Running
    <3> QED BY <2>2, <3>7, <3>8 DEF Engaged
  <2> QED BY <2>4, <2>5 DEF Hub
<1>3. CASE PeerArrived(c)
  <2>1. /\ pc' = [pc EXCEPT ![c] = "done"] /\ pc[c] = "waiting" /\ c \in paired
        /\ UNCHANGED <<waiting, paired, mate, pump, open>>
    BY <1>3 DEF PeerArrived, Goto, hub, pumps
  <2>2. mate[c] # None
    BY <2>1 DEF Hub, Engaged
  <2>3. Waits' /\ Mates'
    BY <2>1, <2>2 DEF TypeOK, Hub, Waits, Mates
  <2>4. Engaged'
    BY <2>1, MoveEngaged DEF Hub, Engaged, Running, Parked
  <2> QED BY <2>3, <2>4 DEF Hub
<1>4. CASE PairWaitOver(c)
  <2>1. /\ pc' = [pc EXCEPT ![c] = "expiring"] /\ pc[c] = "waiting"
        /\ UNCHANGED <<waiting, paired, mate, pump, open>>
    BY <1>4 DEF PairWaitOver, Goto, hub, pumps
  <2>2. Waits' /\ Mates'
    BY <2>1 DEF TypeOK, Hub, Waits, Mates
  <2>3. Engaged'
    BY <2>1, MoveEngaged DEF Hub, Engaged, Running, Parked
  <2> QED BY <2>2, <2>3 DEF Hub
<1>5. CASE Withdraw(c)
  <2>1. /\ pc' = [pc EXCEPT ![c] = "expired"] /\ pc[c] = "expiring"
        /\ waiting' = [waiting EXCEPT ![sid[c]] =
                         IF waiting[sid[c]] = c THEN None ELSE waiting[sid[c]]]
        /\ UNCHANGED <<paired, mate, pump, open>>
    BY <1>5 DEF Withdraw, Goto, pumps
  <2>2. \A s \in Sid : waiting'[s] # None => waiting'[s] = waiting[s] /\ waiting[s] # c
    BY <1>1, <2>1 DEF TypeOK, Hub, Waits
  <2>3. Waits' /\ Mates'
    BY <2>1, <2>2 DEF TypeOK, Hub, Waits, Mates
  <2>4. Engaged'
    BY <2>1, MoveEngaged DEF Hub, Engaged, Running, Parked
  <2> QED BY <2>3, <2>4 DEF Hub
<1>6. CASE PumpDone(c) \/ LifeOver(c)
  <2>1. /\ pc' = [pc EXCEPT ![c] = "ending"] /\ pc[c] = "session"
        /\ UNCHANGED <<waiting, paired, mate, pump, open>>
    BY <1>6 DEF PumpDone, LifeOver, Goto, hub, pumps
  <2>2. Waits' /\ Mates'
    BY <2>1 DEF TypeOK, Hub, Waits, Mates
  <2>3. Engaged'
    BY <2>1, MoveEngaged DEF Hub, Engaged, Running, Parked
  <2> QED BY <2>2, <2>3 DEF Hub
<1>7. CASE CloseExpired(c)
  <2>1. /\ pc' = [pc EXCEPT ![c] = "done"] /\ pc[c] = "expired"
        /\ open' = [open EXCEPT ![c] = FALSE]
        /\ UNCHANGED <<waiting, paired, mate, pump>>
    BY <1>7 DEF CloseExpired, Goto, Close, hub, pumps
  <2>2. Waits' /\ Mates'
    BY <2>1 DEF TypeOK, Hub, Waits, Mates
  <2>3. \A d \in Conn : pc'[d] = "none" => open'[d]
    BY <2>1 DEF TypeOK, Hub, Engaged
  <2>4. Engaged'
    BY <2>1, <2>3, MoveEngaged DEF Running, Parked
  <2> QED BY <2>2, <2>4 DEF Hub
<1>8. CASE CloseFirst(c)
  <2>1. /\ pc' = [pc EXCEPT ![c] = "closing"] /\ pc[c] = "ending"
        /\ open' = [open EXCEPT ![mate[c]] = FALSE]
        /\ UNCHANGED <<waiting, paired, mate, pump>>
    BY <1>8 DEF CloseFirst, Goto, Close, hub, pumps
  <2>2. mate[c] \in Conn /\ mate[mate[c]] = c /\ pc[mate[c]] \in Parked
    BY <2>1 DEF TypeOK, Hub, Mates, Engaged, Running
  <2>3. Waits' /\ Mates'
    BY <1>1, <2>1, <2>2 DEF TypeOK, Hub, Waits, Mates
  <2>4. \A d \in Conn : pc'[d] = "none" => open'[d]
    BY <2>1, <2>2 DEF TypeOK, Hub, Engaged, Parked
  <2>5. Engaged'
    BY <2>1, <2>4, MoveEngaged DEF Running, Parked
  <2> QED BY <2>3, <2>5 DEF Hub
<1>9. CASE CloseSecond(c)
  <2>1. /\ pc' = [pc EXCEPT ![c] = "done"] /\ pc[c] = "closing"
        /\ open' = [open EXCEPT ![c] = FALSE]
        /\ UNCHANGED <<waiting, paired, mate, pump>>
    BY <1>9 DEF CloseSecond, Goto, Close, hub, pumps
  <2>2. Waits' /\ Mates'
    BY <2>1 DEF TypeOK, Hub, Waits, Mates
  <2>3. \A d \in Conn : pc'[d] = "none" => open'[d]
    BY <2>1 DEF TypeOK, Hub, Engaged
  <2>4. Engaged'
    BY <2>1, <2>3, MoveEngaged DEF Running, Parked
  <2> QED BY <2>2, <2>4 DEF Hub
<1> QED BY <1>2, <1>3, <1>4, <1>5, <1>6, <1>7, <1>8, <1>9 DEF Handler

\* A pump, a peer and a stutter leave the hub and the connections alone; pumps
\* that were not started stay off.
LEMMA OthersHub ==
  ASSUME TypeOK, Hub, [\E c \in Conn : Pump(c) \/ Peer(c)]_vars
  PROVE  Hub'
<1>1. UNCHANGED <<pc, waiting, paired, mate, open>>
  BY DEF Pump, TakeFrame, ReadError, WriteFrame, WriteError, SendDone, Peer,
         PeerSends, PeerStalls, PeerLeaves, vars, hub
<1>2. \A d \in Conn : pump[d] = "off" => pump'[d] = "off"
  <2>1. ASSUME NEW c \in Conn, Pump(c)
        PROVE  pump[c] # "off" /\ \E l \in PumpState : pump' = [pump EXCEPT ![c] = l]
    BY <2>1 DEF Pump, TakeFrame, ReadError, WriteFrame, WriteError, SendDone, PumpState
  <2>2. ASSUME NEW c \in Conn, Peer(c)
        PROVE  pump' = pump
    BY <2>2 DEF Peer, PeerSends, PeerStalls, PeerLeaves, pumps
  <2>3. CASE UNCHANGED vars
    BY <2>3 DEF vars, pumps
  <2> QED BY <2>1, <2>2, <2>3 DEF TypeOK
<1>3. Waits' /\ Mates'
  BY <1>1 DEF Hub, Waits, Mates
<1>4. Engaged'
  <2>1. \A d \in Conn : mate[d] # None => mate[d] \in Conn
    BY DEF TypeOK
  <2> QED BY <1>1, <1>2, <2>1 DEF Hub, Engaged, Running
<1> QED BY <1>3, <1>4 DEF Hub

LEMMA HubStep == TypeOK /\ Hub /\ [Next]_vars => Hub'
  BY ArriveHub, HandlerHub, OthersHub DEF Next, Finished

-----------------------------------------------------------------------------
(***************************************************************************)
(* The flow of frames.                                                     *)
(***************************************************************************)
LEMMA Extend ==
  ASSUME NEW g \in Seq(Frame), NEW q \in Seq(Frame), NEW x \in Frame
  PROVE  /\ Append(g \o q, x) = g \o Append(q, x)
         /\ Append(g, x) = g \o <<x>>
         /\ <<>> \o q = q
<1>1. <<x>> \in Seq(Frame) /\ g \o q \in Seq(Frame)
  BY ConcatProperties
<1>2. Append(g \o q, x) = (g \o q) \o <<x>>
  BY <1>1, AppendIsConcat
<1>3. (g \o q) \o <<x>> = g \o (q \o <<x>>)
  BY <1>1, ConcatAssociative
<1>4. Append(q, x) = q \o <<x>> /\ Append(g, x) = g \o <<x>>
  BY AppendIsConcat
<1>5. <<>> \o q = q
  BY ConcatEmptySeq
<1> QED BY <1>2, <1>3, <1>4, <1>5

LEMMA Regroup ==
  ASSUME NEW g \in Seq(Frame), NEW q \in Seq(Frame), NEW x \in Frame
  PROVE  g \o <<x>> \o q = g \o (<<x>> \o q)
<1>1. <<x>> \in Seq(Frame)
  OBVIOUS
<1> QED BY <1>1, ConcatAssociative

LEMMA NextFrame ==
  ASSUME NEW g \in Seq(Frame), NEW q \in Seq(Frame), NEW x \in Frame
  PROVE  /\ Len(g) < Len(g \o <<x>> \o q)
         /\ (g \o <<x>> \o q)[Len(g) + 1] = x
<1>1. ASSUME NEW S, NEW a \in Seq(S), NEW b \in Seq(S), NEW y \in S
      PROVE  LET t == a \o <<y>> \o b
             IN Len(a) < Len(t) /\ t[Len(a) + 1] = y
  OBVIOUS
<1> QED BY <1>1

\* Frames move in three steps only; the others change no more of the flow than
\* which connections are mates, or that two pumps start.
LEMMA ArriveFlow ==
  ASSUME TypeOK, Hub, Flow, NEW c \in Conn, Arrive(c)
  PROVE  Flow'
<1>1. UNCHANGED <<pump, carry, inbox, sent, got>>
  BY DEF Arrive, Refuse, Wait, Pair, pumps, wire
<1>2. mate[c] = None /\ pump[c] = "off" /\ c # None
  BY NoneAssumption DEF Arrive, Refuse, Wait, Pair, Hub, Engaged, Running
<1>3. CASE Refuse(c) \/ Wait(c)
  BY <1>1, <1>3 DEF Refuse, Wait, hub, Flow
<1>4. CASE Pair(c)
  <2> DEFINE w == waiting[sid[c]]
  <2>1. /\ w \in Conn /\ w # c /\ mate[w] = None
        /\ mate' = [mate EXCEPT ![c] = w, ![w] = c]
    BY <1>4, WhoAssumption DEF Pair, First, TypeOK, Hub, Waits
  <2>2. pump[w] = "off"
    BY <2>1 DEF Hub, Engaged, Running
  <2>3. mate'[c] = w /\ mate'[w] = c /\ \A d \in Conn \ {c, w} : mate'[d] = mate[d]
    BY <2>1 DEF TypeOK
  <2>4. ASSUME NEW d \in {c, w}
        PROVE  /\ pump[d] = "off" /\ inbox[d] = sent[d]
               /\ mate'[d] # None /\ got[mate'[d]] = <<>>
    <3>1. got[c] = <<>> /\ got[w] = <<>> /\ inbox[c] = sent[c] /\ inbox[w] = sent[w]
      BY <1>2, <2>1, <2>2 DEF Flow
    <3>2. w # None
      BY <2>1, NoneAssumption
    <3> QED BY <1>2, <2>2, <2>3, <3>1, <3>2
  <2> QED BY <1>1, <2>3, <2>4 DEF Flow
<1> QED BY <1>3, <1>4 DEF Arrive

LEMMA HandlerFlow ==
  ASSUME TypeOK, Hub, Flow, NEW c \in Conn, Handler(c)
  PROVE  Flow'
<1>1. UNCHANGED <<mate, carry, inbox, sent, got>>
  BY DEF Handler, StartSession, PeerArrived, PairWaitOver, Withdraw, CloseExpired,
         PumpDone, LifeOver, CloseFirst, CloseSecond, hub, pumps, wire
<1>2. CASE StartSession(c)
  <2>1. mate[c] \in Conn /\ mate[mate[c]] = c
    BY <1>2 DEF StartSession, TypeOK, Hub, Mates, Engaged, Running
  <2>2. pump' = [pump EXCEPT ![c] = "read", ![mate[c]] = "read"]
    BY <1>2 DEF StartSession
  <2>3. pump[c] = "off" /\ pump[mate[c]] = "off"
    BY <1>2 DEF StartSession, Hub, Engaged
  <2>4. ASSUME NEW d \in {c, mate[c]}
        PROVE  /\ got[mate[d]] \o inbox[d] = sent[d]
               /\ mate[d] # None /\ pump'[d] = "read"
    <3>1. mate[d] \in Conn /\ d \in Conn /\ pump[d] = "off"
      BY <2>1, <2>3
    <3>2. got[mate[d]] = <<>> /\ inbox[d] = sent[d]
      BY <3>1, NoneAssumption DEF Flow
    <3> QED BY <2>2, <3>1, <3>2, NoneAssumption DEF TypeOK
  <2>5. \A d \in Conn \ {c, mate[c]} : pump'[d] = pump[d]
    BY <2>2 DEF TypeOK
  <2>6. ASSUME NEW d \in Conn
        PROVE  /\ mate[d] = None => got[d] = <<>>
               /\ pump'[d] = "off" =>
                    /\ inbox[d] = sent[d]
                    /\ mate[d] # None => got[mate[d]] = <<>>
               /\ pump'[d] = "read" => got[mate[d]] \o inbox[d] = sent[d]
               /\ pump'[d] = "write" =>
                    got[mate[d]] \o <<carry[d]>> \o inbox[d] = sent[d]
    <3>1. CASE d \in {c, mate[c]}
      BY <2>4, <3>1
    <3>2. CASE d \notin {c, mate[c]}
      BY <2>5, <3>2 DEF Flow
    <3> QED BY <3>1, <3>2
  <2> QED BY <1>1, <2>6 DEF Flow
<1>3. CASE ~StartSession(c)
  <2>1. pump' = pump
    BY <1>3 DEF Handler, PeerArrived, PairWaitOver, Withdraw, CloseExpired,
            PumpDone, LifeOver, CloseFirst, CloseSecond, pumps
  <2> QED BY <1>1, <2>1 DEF Flow
<1> QED BY <1>2, <1>3

LEMMA PumpFlow ==
  ASSUME TypeOK, Hub, Flow, NEW c \in Conn, Pump(c)
  PROVE  Flow'
<1>1. /\ pump[c] # "off" /\ mate[c] \in Conn /\ mate[mate[c]] = c
      /\ mate' = mate /\ sent' = sent
  BY DEF Pump, TakeFrame, ReadError, WriteFrame, WriteError, SendDone, hub, wire,
         TypeOK, Hub, Mates, Engaged
<1>2. \A d \in Conn \ {c} : mate[d] # None => mate[d] \in Conn /\ mate[d] # mate[c]
  BY <1>1 DEF TypeOK, Hub, Mates
<1>3. CASE TakeFrame(c)
  <2> DEFINE f == Head(inbox[c])
             t == Tail(inbox[c])
  <2>1. f \in Frame /\ t \in Seq(Frame) /\ inbox[c] = <<f>> \o t
    BY <1>3, HeadTail DEF TakeFrame, TypeOK
  <2> HIDE DEF f, t
  <2>2. inbox' = [inbox EXCEPT ![c] = t] /\ got' = got /\ pump[c] = "read"
    BY <1>3 DEF TakeFrame, t
  <2>3. \/ pump' = [pump EXCEPT ![c] = "exit"] /\ carry' = carry
        \/ pump' = [pump EXCEPT ![c] = "write"] /\ carry' = [carry EXCEPT ![c] = f]
    BY <1>3 DEF TakeFrame, f
  <2>4. got[mate[c]] \o <<f>> \o t = sent[c]
    <3>1. got[mate[c]] \o (<<f>> \o t) = sent[c]
      BY <2>1, <2>2 DEF Flow
    <3>2. got[mate[c]] \in Seq(Frame)
      BY <1>1 DEF TypeOK
    <3>3. got[mate[c]] \o <<f>> \o t = got[mate[c]] \o (<<f>> \o t)
      BY <2>1, <3>2, Regroup
    <3> QED BY <3>1, <3>3
  <2>5. \A d \in Conn \ {c} :
          pump'[d] = pump[d] /\ carry'[d] = carry[d] /\ inbox'[d] = inbox[d]
    BY <2>2, <2>3 DEF TypeOK
  <2>6. /\ pump'[c] \in {"exit", "write"} /\ inbox'[c] = t
        /\ pump'[c] = "write" => carry'[c] = f
    BY <2>2, <2>3 DEF TypeOK
  <2> QED BY <1>1, <2>2, <2>4, <2>5, <2>6 DEF Flow
<1>4. CASE ReadError(c) \/ WriteError(c) \/ SendDone(c)
  <2>1. \E l \in {"exit", "ended"} : pump' = [pump EXCEPT ![c] = l]
    BY <1>4 DEF ReadError, WriteError, SendDone
  <2>2. UNCHANGED <<carry, inbox, got>>
    BY <1>4 DEF ReadError, WriteError, SendDone, wire
  <2>3. \A d \in Conn : pump'[d] = pump[d] \/ pump'[d] \in {"exit", "ended"}
    BY <2>1 DEF TypeOK
  <2> QED BY <1>1, <2>2, <2>3 DEF Flow
<1>5. CASE WriteFrame(c)
  <2>1. /\ got' = [got EXCEPT ![mate[c]] = Append(got[mate[c]], carry[c])]
        /\ pump' = [pump EXCEPT ![c] = "read"] /\ carry' = [carry EXCEPT ![c] = None]
        /\ inbox' = inbox /\ pump[c] = "write"
    BY <1>5 DEF WriteFrame
  <2>2. carry[c] \in Frame
    BY <2>1 DEF TypeOK
  <2>3. got'[mate[c]] \o inbox[c] = sent[c]
    <3>1. got[mate[c]] \o <<carry[c]>> \o inbox[c] = sent[c]
      BY <2>1 DEF Flow
    <3>2. got'[mate[c]] = got[mate[c]] \o <<carry[c]>>
      BY <1>1, <2>1, <2>2, Extend DEF TypeOK
    <3> QED BY <3>1, <3>2
  <2>4. \A d \in Conn \ {c} : pump'[d] = pump[d] /\ carry'[d] = carry[d]
    BY <2>1 DEF TypeOK
  <2>5. \A d \in Conn \ {mate[c]} : got'[d] = got[d]
    BY <2>1 DEF TypeOK
  <2>6. mate[mate[c]] # None /\ pump'[c] = "read"
    BY <1>1, <2>1, NoneAssumption DEF TypeOK
  <2>7. ASSUME NEW d \in Conn \ {c}
        PROVE  mate[d] # None \/ pump[d] # "off" => got'[mate[d]] = got[mate[d]]
    BY <1>2, <2>5 DEF Hub, Engaged
  <2>8. ASSUME NEW d \in Conn
        PROVE  /\ mate[d] = None => got'[d] = <<>>
               /\ pump'[d] = "off" =>
                    /\ inbox[d] = sent[d]
                    /\ mate[d] # None => got'[mate[d]] = <<>>
               /\ pump'[d] = "read" => got'[mate[d]] \o inbox[d] = sent[d]
               /\ pump'[d] = "write" =>
                    got'[mate[d]] \o <<carry'[d]>> \o inbox[d] = sent[d]
    <3>1. mate[d] = None => got'[d] = got[d]
      BY <2>5, <2>6
    <3>2. CASE d = c
      BY <2>3, <2>6, <3>1, <3>2 DEF Flow
    <3>3. CASE d # c
      BY <2>4, <2>7, <3>1, <3>3 DEF Flow
    <3> QED BY <3>2, <3>3
  <2> QED BY <1>1, <2>1, <2>8 DEF Flow
<1> QED BY <1>3, <1>4, <1>5 DEF Pump

LEMMA PeerFlow ==
  ASSUME TypeOK, Hub, Flow, NEW c \in Conn, Peer(c)
  PROVE  Flow'
<1>1. UNCHANGED <<mate, pump, carry, got>>
  BY DEF Peer, PeerSends, PeerStalls, PeerLeaves, hub, pumps, wire
<1>2. ASSUME NEW size \in Size, PeerSends(c, size)
      PROVE  Flow'
  <2> DEFINE f == [nr |-> Len(sent[c]) + 1, size |-> size]
  <2>1. f \in Frame
    BY <1>2, SizeAssumption DEF PeerSends, TypeOK, Frame
  <2>2. /\ sent'[c] = Append(sent[c], f) /\ inbox'[c] = Append(inbox[c], f)
        /\ \A d \in Conn \ {c} : sent'[d] = sent[d] /\ inbox'[d] = inbox[d]
    BY <1>2 DEF PeerSends, TypeOK
  <2> HIDE DEF f
  <2>3. inbox[c] \in Seq(Frame) /\ (mate[c] # None => got[mate[c]] \in Seq(Frame))
    BY DEF TypeOK
  <2>4. ASSUME pump[c] = "read"
        PROVE  got[mate[c]] \o Append(inbox[c], f) = Append(sent[c], f)
    <3>1. got[mate[c]] \o inbox[c] = sent[c] /\ mate[c] # None
      BY <2>4 DEF Flow, Hub, Engaged
    <3>2. Append(got[mate[c]] \o inbox[c], f) = got[mate[c]] \o Append(inbox[c], f)
      BY <2>1, <2>3, <3>1, Extend
    <3> QED BY <3>1, <3>2
  <2>5. ASSUME pump[c] = "write"
        PROVE  got[mate[c]] \o <<carry[c]>> \o Append(inbox[c], f) = Append(sent[c], f)
    <3>1. /\ got[mate[c]] \o <<carry[c]>> \o inbox[c] = sent[c] /\ mate[c] # None
          /\ carry[c] \in Frame
      BY <2>5 DEF Flow, Hub, Engaged, TypeOK
    <3>2. got[mate[c]] \o <<carry[c]>> \in Seq(Frame)
      BY <2>3, <3>1
    <3>3. Append(got[mate[c]] \o <<carry[c]>> \o inbox[c], f)
            = got[mate[c]] \o <<carry[c]>> \o Append(inbox[c], f)
      BY <2>1, <2>3, <3>2, Extend
    <3> QED BY <3>1, <3>3
  <2> QED BY <1>1, <2>2, <2>4, <2>5 DEF Flow
<1>3. CASE PeerStalls(c) \/ PeerLeaves(c)
  BY <1>1, <1>3 DEF PeerStalls, PeerLeaves, wire, Flow
<1> QED BY <1>2, <1>3 DEF Peer

LEMMA StepKeeps == IInv /\ [Next]_vars => IInv'
<1> SUFFICES ASSUME IInv, [Next]_vars PROVE IInv'
  OBVIOUS
<1>1. TypeOK /\ Hub /\ Flow /\ Engaged
  BY DEF IInv, Hub
<1>2. TypeOK' /\ Hub'
  BY <1>1, TypeStep, HubStep
<1>3. Flow'
  <2>1. CASE Finished \/ UNCHANGED vars
    BY <1>1, <2>1 DEF Finished, vars, hub, pumps, wire, Flow
  <2> QED BY <1>1, <2>1, ArriveFlow, HandlerFlow, PumpFlow, PeerFlow DEF Next
<1> QED BY <1>2, <1>3 DEF IInv

LEMMA Invariance == Spec => []IInv
  BY Initially, StepKeeps, PTL DEF Spec

\* The types of the hub, the pumps and the wire are never left: among them,
\* that the done channel never holds more than its capacity.
THEOREM TypeCorrect == Spec => []TypeOK
  BY Invariance, PTL DEF IInv

\* Whoever finds an entry in the waiting map (relay.go:63-72) joins a live
\* connection that no other session has.
THEOREM WaitingAlwaysServed == Spec => []WaitingServed
<1>1. IInv => WaitingServed
  <2> SUFFICES ASSUME IInv, NEW s \in Sid, waiting[s] # None
               PROVE  /\ pc[waiting[s]] \in {"waiting", "expiring"}
                      /\ open[waiting[s]] /\ sid[waiting[s]] = s
                      /\ waiting[s] \notin paired
    BY DEF WaitingServed
  <2>1. waiting[s] \in Conn
    BY DEF IInv, TypeOK
  <2> QED BY <2>1 DEF IInv, Hub, Waits, Engaged
<1> QED BY <1>1, Invariance, PTL

\* Nothing the peers sent is dropped, doubled or reordered on its way through a
\* pump, what they sent before the pairing included.
THEOREM NothingEverLost == Spec => []NothingLost
<1>1. IInv => NothingLost
  BY DEF IInv, Flow, NothingLost
<1> QED BY <1>1, Invariance, PTL

-----------------------------------------------------------------------------
(***************************************************************************)
(* The refinement.                                                         *)
(***************************************************************************)
LEMMA RefinesInit == Init => P!Init
  BY DEF Init, P!Init

LEMMA RefinesStep == IInv /\ [Next]_vars => [P!Next]_(P!vars)
<1> SUFFICES ASSUME IInv, [Next]_vars PROVE [P!Next]_(P!vars)
  OBVIOUS
<1>1. ASSUME NEW c \in Conn, Pair(c)
      PROVE  P!Next
  <2> DEFINE w == waiting[sid[c]]
  <2>1. /\ w \in Conn /\ w # c /\ mate[w] = None /\ mate[c] = None
        /\ sid[w] = sid[c] /\ role[w] # role[c]
    BY <1>1, WhoAssumption DEF Pair, First, IInv, TypeOK, Hub, Waits, Engaged
  <2>2. mate' = [mate EXCEPT ![c] = w, ![w] = c] /\ UNCHANGED <<sent, got>>
    BY <1>1 DEF Pair, First, wire
  <2>3. P!Join(c, w)
    BY <2>1, <2>2 DEF P!Join
  <2> QED BY <2>1, <2>3 DEF P!Next
<1>2. ASSUME NEW c \in Conn, WriteFrame(c)
      PROVE  P!Next
  <2> DEFINE m == mate[c]
  <2>1. pump[c] = "write" /\ UNCHANGED <<mate, sent>>
        /\ got' = [got EXCEPT ![m] = Append(got[m], carry[c])]
    BY <1>2 DEF WriteFrame, hub
  <2>2. m \in Conn /\ mate[m] = c
    BY <2>1 DEF IInv, TypeOK, Hub, Mates, Engaged
  <2>3. /\ carry[c] \in Frame /\ got[m] \in Seq(Frame) /\ inbox[c] \in Seq(Frame)
        /\ sent[c] = got[m] \o <<carry[c]>> \o inbox[c]
    BY <2>1, <2>2 DEF IInv, TypeOK, Flow
  <2> HIDE DEF m
  <2>4. Len(got[m]) < Len(sent[c]) /\ sent[c][Len(got[m]) + 1] = carry[c]
    <3>1. /\ Len(got[m]) < Len(got[m] \o <<carry[c]>> \o inbox[c])
          /\ (got[m] \o <<carry[c]>> \o inbox[c])[Len(got[m]) + 1] = carry[c]
      BY <2>3, NextFrame
    <3> QED BY <2>3, <3>1, Zenon
  <2>5. mate[m] # None
    BY <2>2, NoneAssumption
  <2>6. P!Deliver(m)
    BY <2>1, <2>2, <2>4, <2>5 DEF P!Deliver
  <2> QED BY <2>2, <2>6 DEF P!Next
<1>3. ASSUME NEW c \in Conn, NEW size \in Size, PeerSends(c, size)
      PROVE  P!Next
  <2>1. P!Send(c, size)
    BY <1>3 DEF PeerSends, P!Send, hub
  <2> QED BY <2>1 DEF P!Next
<1>4. ASSUME NEW c \in Conn,
             Refuse(c) \/ Wait(c) \/ Handler(c) \/ PeerStalls(c) \/ PeerLeaves(c)
      PROVE  UNCHANGED P!vars
  BY <1>4 DEF Refuse, Wait, Handler, StartSession, PeerArrived, PairWaitOver,
              Withdraw, CloseExpired, PumpDone, LifeOver, CloseFirst, CloseSecond,
              PeerStalls, PeerLeaves, hub, wire, P!vars
<1>5. ASSUME NEW c \in Conn,
             TakeFrame(c) \/ ReadError(c) \/ WriteError(c) \/ SendDone(c)
      PROVE  UNCHANGED P!vars
  BY <1>5 DEF TakeFrame, ReadError, WriteError, SendDone, hub, wire, P!vars
<1>6. CASE Finished \/ UNCHANGED vars
  BY <1>6 DEF Finished, vars, hub, wire, P!vars
<1> QED BY <1>1, <1>2, <1>3, <1>4, <1>5, <1>6 DEF Next, Arrive, Pump, Peer

\* The relay implements Pipe: every step of a handler, a pump, a timer or a peer
\* joins two ends, sends or delivers the next frame, or is invisible.
THEOREM RelayImplementsPipe == Spec => Refinement
<1> QED BY Invariance, RefinesInit, RefinesStep, PTL DEF Spec, Refinement, P!Spec

-----------------------------------------------------------------------------
(***************************************************************************)
(* The byte cap.                                                           *)
(***************************************************************************)
\* Induction over the natural numbers, for a set of them.
LEMMA NatInd ==
  ASSUME NEW T \in SUBSET Nat, 0 \in T, \A k \in T : k + 1 \in T
  PROVE  T = Nat
<1> SUFFICES ASSUME Nat \ T # {} PROVE FALSE
  OBVIOUS
<1>1. PICK x \in Nat \ T : \A y \in Nat \ T : ~(<<y, x>> \in OpToRel(<, Nat))
  BY WFMin, NatLessThanWellFounded, Nat \ T \subseteq Nat
<1>2. \A y \in Nat \ T : ~(y < x)
  BY <1>1 DEF OpToRel
<1>3. x - 1 \in T
  BY <1>2
<1> QED BY <1>3

\* What Bytes has added up after i frames: Sum(s) is the only solution.
Sums(f, s) == f = [i \in 0..Len(s) |-> IF i = 0 THEN 0 ELSE f[i-1] + s[i].size]
Sum(s) == CHOOSE f : Sums(f, s)

\* Bytes is the sum after the last frame.
LEMMA BytesIsSum ==
  ASSUME NEW s
  PROVE  Bytes(s) = Sum(s)[Len(s)]
  BY DEF Bytes, Sum, Sums

\* There is such a function: frame by frame, for any number of them.
LEMMA SumExists ==
  ASSUME NEW S, NEW s \in Seq(S)
  PROVE  Sums(Sum(s), s)
<1> SUFFICES \E f : Sums(f, s)
  BY DEF Sum
<1> DEFINE Upto(f, m) == f = [i \in 0..m |-> IF i = 0 THEN 0 ELSE f[i-1] + s[i].size]
           N == {m \in Nat : \E f : Upto(f, m)}
<1>1. 0 \in N
  <2>1. Upto([i \in 0..0 |-> 0], 0)
    OBVIOUS
  <2> QED BY <2>1
<1>2. ASSUME NEW m \in N PROVE m + 1 \in N
  <2>1. PICK f : Upto(f, m)
    OBVIOUS
  <2> DEFINE g == [i \in 0..(m+1) |-> IF i <= m THEN f[i] ELSE f[i-1] + s[i].size]
  <2>2. Upto(g, m + 1)
    <3>1. ASSUME NEW i \in 0..(m+1)
          PROVE  g[i] = IF i = 0 THEN 0 ELSE g[i-1] + s[i].size
      <4>1. i # 0 => g[i-1] = f[i-1]
        OBVIOUS
      <4>2. CASE i = m + 1
        BY <4>1, <4>2
      <4>3. CASE i # m + 1
        <5>1. i \in 0..m /\ g[i] = f[i]
          BY <4>3
        <5>2. f[i] = IF i = 0 THEN 0 ELSE f[i-1] + s[i].size
          BY <2>1, <5>1
        <5> QED BY <4>1, <5>1, <5>2
      <4> QED BY <4>2, <4>3
    <3>2. g = [i \in 0..(m+1) |-> g[i]]
      OBVIOUS
    <3> HIDE DEF g
    <3> QED BY <3>1, <3>2
  <2> HIDE DEF g, Upto
  <2> QED BY <2>2
<1>3. N = Nat
  <2> HIDE DEF N
  <2>1. N \in SUBSET Nat
    BY DEF N
  <2> QED BY <1>1, <1>2, <2>1, NatInd
<1>4. Len(s) \in N
  BY <1>3, LenProperties
<1> QED BY <1>4 DEF Sums

\* What each frame adds to the sum before it.
LEMMA SumValues ==
  ASSUME NEW S, NEW s \in Seq(S)
  PROVE  /\ Sum(s)[0] = 0
         /\ \A i \in 1..Len(s) : Sum(s)[i] = Sum(s)[i-1] + s[i].size
<1> DEFINE f == Sum(s)
<1>1. f = [i \in 0..Len(s) |-> IF i = 0 THEN 0 ELSE f[i-1] + s[i].size]
  BY SumExists DEF Sums
<1>2. Len(s) \in Nat
  BY LenProperties
<1> HIDE DEF f
<1>3. f[0] = 0
  BY <1>1, <1>2
<1>4. ASSUME NEW i \in 1..Len(s)
      PROVE  f[i] = f[i-1] + s[i].size
  <2>1. i \in 0..Len(s) /\ i # 0
    BY <1>2
  <2> QED BY <1>1, <2>1
<1> QED BY <1>3, <1>4 DEF f

\* A frame more is its size more.
LEMMA BytesSteps ==
  ASSUME NEW S
  PROVE  /\ Bytes(<<>>) = 0
         /\ \A s \in Seq(S), x \in S : Bytes(Append(s, x)) = Bytes(s) + x.size
<1>1. Bytes(<<>>) = 0
  <2>1. <<>> \in Seq(S) /\ Len(<<>>) = 0
    BY EmptySeq
  <2> QED BY <2>1, BytesIsSum, SumValues
<1>2. ASSUME NEW s \in Seq(S), NEW x \in S
      PROVE  Bytes(Append(s, x)) = Bytes(s) + x.size
  <2> DEFINE l == Append(s, x)
             m == Len(s)
             N == {k \in Nat : k <= m => Sum(l)[k] = Sum(s)[k]}
  <2>1. /\ l \in Seq(S) /\ m \in Nat /\ Len(l) = m + 1
        /\ l[m + 1] = x /\ \A i \in 1..m : l[i] = s[i]
    BY AppendProperties, LenProperties
  <2>2. /\ Sum(l)[0] = 0
        /\ \A i \in 1..(m + 1) : Sum(l)[i] = Sum(l)[i-1] + l[i].size
    <3>1. /\ Sum(l)[0] = 0
          /\ \A i \in 1..Len(l) : Sum(l)[i] = Sum(l)[i-1] + l[i].size
      <4> HIDE DEF l
      <4> QED BY <2>1, SumValues
    <3> QED BY <2>1, <3>1
  <2>3. /\ Sum(s)[0] = 0
        /\ \A i \in 1..m : Sum(s)[i] = Sum(s)[i-1] + s[i].size
    BY SumValues
  <2> HIDE DEF l, m
  <2>4. N = Nat
    <3>1. 0 \in N
      BY <2>2, <2>3
    <3>2. ASSUME NEW k \in N PROVE k + 1 \in N
      <4> SUFFICES ASSUME k + 1 <= m PROVE Sum(l)[k + 1] = Sum(s)[k + 1]
        OBVIOUS
      <4>1. k + 1 \in 1..m /\ k + 1 \in 1..(m + 1) /\ (k + 1) - 1 = k
        BY <2>1
      <4>2. Sum(l)[k] = Sum(s)[k] /\ l[k + 1] = s[k + 1]
        BY <2>1, <4>1
      <4> QED BY <2>2, <2>3, <4>1, <4>2
    <3>3. N \in SUBSET Nat
      OBVIOUS
    <3> HIDE DEF N
    <3> QED BY <3>1, <3>2, <3>3, NatInd
  <2>5. Sum(l)[m] = Sum(s)[m]
    BY <2>1, <2>4
  <2>6. Sum(l)[m + 1] = Sum(s)[m] + x.size
    <3>1. m + 1 \in 1..(m + 1) /\ (m + 1) - 1 = m
      BY <2>1
    <3> QED BY <2>1, <2>2, <2>5, <3>1
  <2>7. Bytes(l) = Sum(l)[m + 1] /\ Bytes(s) = Sum(s)[m]
    BY <2>1, BytesIsSum DEF m
  <2> QED BY <2>6, <2>7 DEF l
<1> QED BY <1>1, <1>2

\* A pump's count is of what it has delivered and what it holds, from nothing
\* when it starts, and it goes on only while the count is within the cap.
Counted ==
  \A c \in Conn :
    /\ pump[c] = "off" => n[c] = 0
    /\ pump[c] = "read" => Bytes(got[mate[c]]) = n[c]
    /\ pump[c] = "write" => Bytes(got[mate[c]]) + carry[c].size = n[c]
    /\ pump[c] \in {"read", "write"} /\ MaxBytes > 0 => n[c] <= MaxBytes

\* What keeps deliveries within the cap.
CapInv == Counted /\ WithinCap

\* Nothing is delivered when there is no connection yet.
LEMMA InitCapped == Init => CapInv
<1> SUFFICES ASSUME Init PROVE CapInv
  OBVIOUS
<1>1. Bytes(<<>>) = 0
  BY BytesSteps
<1>2. Counted
  BY DEF Init, Counted
<1>3. WithinCap
  <2>1. \A c \in Conn : got[c] = <<>>
    BY DEF Init
  <2>2. \A c \in Conn : Bytes(got[c]) = 0
    BY <1>1, <2>1
  <2>3. MaxBytes > 0 => 0 <= MaxBytes
    BY SizeAssumption
  <2> QED BY <2>2, <2>3 DEF WithinCap
<1> QED BY <1>2, <1>3 DEF CapInv

\* An arrival moves no frame, and pairs only connections no pump reads.
LEMMA ArriveCapped ==
  ASSUME TypeOK, Hub, CapInv, NEW c \in Conn, Arrive(c)
  PROVE  CapInv'
<1>1. UNCHANGED <<pump, carry, n, got>>
  BY DEF Arrive, Refuse, Wait, Pair, pumps, wire
<1>2. ASSUME NEW d \in Conn, pump[d] # "off" PROVE mate'[d] = mate[d]
  <2>1. mate[d] # None
    BY <1>2 DEF Hub, Engaged
  <2>2. CASE Pair(c)
    <3>1. mate[c] = None /\ mate[First(c)] = None
      BY <2>2, WhoAssumption DEF Pair, First, Hub, Engaged, Waits
    <3>2. mate' = [mate EXCEPT ![c] = First(c), ![First(c)] = c]
      BY <2>2 DEF Pair
    <3> QED BY <2>1, <3>1, <3>2 DEF TypeOK
  <2>3. CASE Refuse(c) \/ Wait(c)
    BY <2>3 DEF Refuse, Wait, hub
  <2> QED BY <2>2, <2>3 DEF Arrive
<1> QED BY <1>1, <1>2 DEF CapInv, Counted, WithinCap

\* The handler moves no frame; the pumps it starts have counted nothing.
LEMMA HandlerCapped ==
  ASSUME TypeOK, Hub, Flow, CapInv, NEW c \in Conn, Handler(c)
  PROVE  CapInv'
<1>1. UNCHANGED <<carry, n, got, mate>>
  BY DEF Handler, StartSession, PeerArrived, PairWaitOver, Withdraw, CloseExpired,
         PumpDone, LifeOver, CloseFirst, CloseSecond, hub, pumps, wire
<1>2. CASE StartSession(c)
  <2>1. /\ pump' = [pump EXCEPT ![c] = "read", ![mate[c]] = "read"]
        /\ mate[c] \in Conn /\ mate[mate[c]] = c
        /\ pump[c] = "off" /\ pump[mate[c]] = "off"
    BY <1>2 DEF StartSession, Hub, Engaged, Mates, Running, TypeOK
  <2>2. ASSUME NEW d \in Conn, pump'[d] # pump[d]
        PROVE  /\ pump'[d] = "read" /\ n[d] = 0
               /\ Bytes(got[mate[d]]) = 0
    <3>1. d \in {c, mate[c]} /\ pump'[d] = "read" /\ pump[d] = "off"
      BY <2>1, <2>2 DEF TypeOK
    <3>2. mate[d] # None
      BY <2>1, <3>1, NoneAssumption
    <3>3. got[mate[d]] = <<>> /\ n[d] = 0
      BY <3>1, <3>2 DEF Flow, CapInv, Counted
    <3> QED BY <3>1, <3>3, BytesSteps
  <2>3. Counted'
    <3> SUFFICES ASSUME NEW d \in Conn
                 PROVE  /\ pump'[d] = "off" => n[d] = 0
                        /\ pump'[d] = "read" => Bytes(got[mate[d]]) = n[d]
                        /\ pump'[d] = "write" => Bytes(got[mate[d]]) + carry[d].size = n[d]
                        /\ pump'[d] \in {"read", "write"} /\ MaxBytes > 0 => n[d] <= MaxBytes
      BY <1>1 DEF Counted
    <3>1. CASE pump'[d] = pump[d]
      BY <3>1 DEF CapInv, Counted
    <3>2. CASE pump'[d] # pump[d]
      BY <2>2, <3>2, SizeAssumption
    <3> QED BY <3>1, <3>2
  <2> QED BY <1>1, <2>3 DEF CapInv, WithinCap
<1>3. CASE ~StartSession(c)
  <2>1. pump' = pump
    BY <1>3 DEF Handler, PeerArrived, PairWaitOver, Withdraw, CloseExpired,
            PumpDone, LifeOver, CloseFirst, CloseSecond, pumps
  <2> QED BY <1>1, <2>1 DEF CapInv, Counted, WithinCap
<1> QED BY <1>2, <1>3

\* A pump counts a frame before it asks for room, and delivers it only then.
LEMMA PumpCapped ==
  ASSUME TypeOK, Hub, CapInv, NEW c \in Conn, Pump(c)
  PROVE  CapInv'
<1>1. /\ pump[c] # "off" /\ mate[c] \in Conn /\ mate[mate[c]] = c
      /\ mate' = mate
  BY DEF Pump, TakeFrame, ReadError, WriteFrame, WriteError, SendDone, hub, wire,
         TypeOK, Hub, Mates, Engaged
<1>2. \A d \in Conn \ {c} : pump[d] # "off" => mate[d] \in Conn /\ mate[d] # mate[c]
  BY <1>1 DEF TypeOK, Hub, Mates, Engaged
<1>3. n \in [Conn -> Nat] /\ MaxBytes \in Nat
  BY SizeAssumption DEF TypeOK
<1>4. CASE TakeFrame(c)
  <2> DEFINE f == Head(inbox[c])
  <2>1. f \in Frame /\ f.size \in Nat
    <3>1. f \in Frame
      BY <1>4, HeadTail DEF TakeFrame, TypeOK
    <3> QED BY <3>1, SizeAssumption DEF Frame
  <2> HIDE DEF f
  <2>2. /\ got' = got /\ pump[c] = "read"
        /\ \/ pump' = [pump EXCEPT ![c] = "exit"] /\ carry' = carry
              /\ (n' = n \/ n' = [n EXCEPT ![c] = n[c] + f.size])
           \/ /\ pump' = [pump EXCEPT ![c] = "write"] /\ carry' = [carry EXCEPT ![c] = f]
              /\ n' = [n EXCEPT ![c] = n[c] + f.size]
              /\ MaxBytes > 0 => n[c] + f.size <= MaxBytes
    <3>1. CASE f.size > MaxFrame
      BY <1>4, <3>1 DEF TakeFrame, f
    <3>2. CASE ~(f.size > MaxFrame) /\ MaxBytes > 0 /\ n[c] + f.size > MaxBytes
      BY <1>4, <3>2 DEF TakeFrame, f
    <3>3. CASE ~(f.size > MaxFrame) /\ ~(MaxBytes > 0 /\ n[c] + f.size > MaxBytes)
      <4>1. MaxBytes > 0 => n[c] + f.size <= MaxBytes
        BY <1>3, <2>1, <3>3
      <4> QED BY <1>4, <3>3, <4>1 DEF TakeFrame, f
    <3> QED BY <3>1, <3>2, <3>3
  <2>3. Bytes(got[mate[c]]) = n[c]
    BY <2>2 DEF CapInv, Counted
  <2>4. \A d \in Conn \ {c} : pump'[d] = pump[d] /\ carry'[d] = carry[d] /\ n'[d] = n[d]
    BY <1>3, <2>2 DEF TypeOK
  <2>5. \/ pump'[c] = "exit"
        \/ /\ pump'[c] = "write" /\ carry'[c] = f /\ n'[c] = n[c] + f.size
           /\ MaxBytes > 0 => n[c] + f.size <= MaxBytes
    BY <1>3, <2>2 DEF TypeOK
  <2>6. Counted'
    BY <1>1, <2>2, <2>3, <2>4, <2>5 DEF CapInv, Counted
  <2> QED BY <2>2, <2>6 DEF CapInv, WithinCap
<1>5. CASE ReadError(c) \/ WriteError(c) \/ SendDone(c)
  <2>1. \E l \in {"exit", "ended"} : pump' = [pump EXCEPT ![c] = l]
    BY <1>5 DEF ReadError, WriteError, SendDone
  <2>2. UNCHANGED <<carry, n, got>>
    BY <1>5 DEF ReadError, WriteError, SendDone, wire
  <2>3. \A d \in Conn : pump'[d] = pump[d] \/ pump'[d] \in {"exit", "ended"}
    BY <2>1 DEF TypeOK
  <2> QED BY <1>1, <2>2, <2>3 DEF CapInv, Counted, WithinCap
<1>6. CASE WriteFrame(c)
  <2>1. /\ got' = [got EXCEPT ![mate[c]] = Append(got[mate[c]], carry[c])]
        /\ pump' = [pump EXCEPT ![c] = "read"] /\ carry' = [carry EXCEPT ![c] = None]
        /\ n' = n /\ pump[c] = "write"
    BY <1>6 DEF WriteFrame
  <2>2. carry[c] \in Frame /\ got[mate[c]] \in Seq(Frame)
    BY <1>1, <2>1 DEF TypeOK
  <2>3. Bytes(Append(got[mate[c]], carry[c])) = n[c] /\ (MaxBytes > 0 => n[c] <= MaxBytes)
    <3>1. Bytes(Append(got[mate[c]], carry[c])) = Bytes(got[mate[c]]) + carry[c].size
      BY <2>2, BytesSteps
    <3> QED BY <2>1, <3>1 DEF CapInv, Counted
  <2>4. /\ got'[mate[c]] = Append(got[mate[c]], carry[c])
        /\ \A d \in Conn \ {mate[c]} : got'[d] = got[d]
        /\ pump'[c] = "read"
        /\ \A d \in Conn \ {c} : pump'[d] = pump[d] /\ carry'[d] = carry[d]
    BY <1>1, <2>1 DEF TypeOK
  <2>5. WithinCap'
    BY <2>3, <2>4 DEF CapInv, WithinCap
  <2>6. ASSUME NEW d \in Conn
        PROVE  /\ pump'[d] = "off" => n[d] = 0
               /\ pump'[d] = "read" => Bytes(got'[mate[d]]) = n[d]
               /\ pump'[d] = "write" => Bytes(got'[mate[d]]) + carry'[d].size = n[d]
               /\ pump'[d] \in {"read", "write"} /\ MaxBytes > 0 => n[d] <= MaxBytes
    <3>1. CASE d = c
      BY <2>3, <2>4, <3>1
    <3>2. CASE d # c
      <4>1. pump[d] # "off" => got'[mate[d]] = got[mate[d]]
        BY <1>2, <2>4, <3>2
      <4> QED BY <2>4, <3>2, <4>1 DEF CapInv, Counted
    <3> QED BY <3>1, <3>2
  <2>7. Counted'
    BY <1>1, <2>1, <2>6 DEF Counted
  <2> QED BY <2>5, <2>7 DEF CapInv
<1> QED BY <1>4, <1>5, <1>6 DEF Pump

\* Every step of the relay keeps deliveries within the cap.
LEMMA StepCapped == IInv /\ CapInv /\ [Next]_vars => CapInv'
<1> SUFFICES ASSUME IInv, CapInv, [Next]_vars PROVE CapInv'
  OBVIOUS
<1>1. TypeOK /\ Hub /\ Flow
  BY DEF IInv
<1>2. CASE Finished \/ UNCHANGED vars
  BY <1>2 DEF Finished, vars, hub, pumps, wire, CapInv, Counted, WithinCap
<1>3. ASSUME NEW c \in Conn, Peer(c) PROVE CapInv'
  <2>1. UNCHANGED <<mate, pump, carry, n, got>>
    BY <1>3 DEF Peer, PeerSends, PeerStalls, PeerLeaves, hub, pumps, wire
  <2> QED BY <2>1 DEF CapInv, Counted, WithinCap
<1> QED BY <1>1, <1>2, <1>3, ArriveCapped, HandlerCapped, PumpCapped DEF Next

\* WithinCap: no direction delivers more than maxBytes, for any cap, frame sizes
\* and number of sessions (relay.go:157-160).
THEOREM AlwaysWithinCap == Spec => []WithinCap
<1>1. Init => CapInv
  BY InitCapped
<1>2. IInv /\ CapInv /\ [Next]_vars => CapInv'
  BY StepCapped
<1>3. CapInv => WithinCap
  BY DEF CapInv
<1> QED BY <1>1, <1>2, <1>3, Invariance, PTL DEF Spec
=============================================================================
