-------------------------------- MODULE Relay --------------------------------
(***************************************************************************)
(* internal/relay: the hub that pairs two websocket connections of one     *)
(* session and pumps frames between them.  One Arrive handler runs per     *)
(* connection (net/http starts it); the handler of the second connection   *)
(* to arrive also runs the session: it starts two pumps, one per           *)
(* direction, and closes both connections when it ends.                    *)
(*                                                                         *)
(* The pump that reads from c is pump c.  Timers (pairWait, maxLife, the   *)
(* write deadline) may fire at any time: no step here depends on which of  *)
(* them is longer.                                                         *)
(***************************************************************************)
EXTENDS Naturals, Sequences

CONSTANTS
  Conn,      \* connections that come with a verified ticket
  Sid,       \* session ids
  sid,       \* sid[c]: the session in c's ticket
  role,      \* role[c]: the role in c's ticket
  Size,      \* frame sizes peers send
  MaxFrame,  \* wsutil.MaxRelayMessage
  MaxBytes,  \* Hub.maxBytes, per direction; 0 is no cap
  DoneCap,   \* capacity of pumpPair's done channel: 2
  MaxSent,   \* bound: frames each peer sends
  None       \* no connection

ASSUME NoneAssumption == None \notin Conn
ASSUME WhoAssumption == sid \in [Conn -> Sid] /\ DOMAIN role = Conn
ASSUME SizeAssumption == /\ Size \subseteq Nat \ {0}
                         /\ MaxFrame \in Nat /\ MaxBytes \in Nat
                         /\ DoneCap \in Nat /\ MaxSent \in [Conn -> Nat]

VARIABLES
  pc,       \* where the Arrive handler of each connection is
  waiting,  \* Hub.waiting: the first arrival of each session
  paired,   \* connections whose slot.paired channel has been closed
  mate,     \* the other connection of the pumpPair a connection is in
  owner,    \* the connection whose handler runs that pumpPair
  done,     \* tokens in the done channel of the session a handler runs
  pump,     \* where the pump reading from each connection is
  carry,    \* the frame it has read and not yet written
  n,        \* bytes it has counted (and reported to onBytes)
  open,     \* the server has not closed the connection
  far,      \* the peer: "up", "stalled" (neither reads nor sends) or "gone"
  inbox,    \* frames from the peer that no pump has read
  sent,     \* history: frames the peer sent
  got       \* history: frames written towards the peer

hub == <<waiting, paired, mate, owner>>
pumps == <<pump, carry, n>>
wire == <<inbox, sent, got>>
vars == <<pc, hub, done, pumps, open, far, wire>>

HandlerState == {"none", "waiting", "expiring", "expired", "pairing",
                 "session", "ending", "closing", "done"}
PumpState == {"off", "read", "write", "exit", "ended"}
Frame == [nr : Nat, size : Size]

TypeOK ==
  /\ pc \in [Conn -> HandlerState]
  /\ waiting \in [Sid -> Conn \cup {None}]
  /\ paired \in SUBSET Conn
  /\ mate \in [Conn -> Conn \cup {None}]
  /\ owner \in [Conn -> Conn \cup {None}]
  /\ done \in [Conn -> 0..DoneCap]
  /\ pump \in [Conn -> PumpState]
  /\ carry \in [Conn -> Frame \cup {None}]
  /\ \A c \in Conn : pump[c] = "write" => carry[c] \in Frame
  /\ n \in [Conn -> Nat]
  /\ open \in [Conn -> BOOLEAN]
  /\ far \in [Conn -> {"up", "stalled", "gone"}]
  /\ inbox \in [Conn -> Seq(Frame)]
  /\ sent \in [Conn -> Seq(Frame)]
  /\ got \in [Conn -> Seq(Frame)]

Init ==
  /\ pc = [c \in Conn |-> "none"]
  /\ waiting = [s \in Sid |-> None]
  /\ paired = {}
  /\ mate = [c \in Conn |-> None]
  /\ owner = [c \in Conn |-> None]
  /\ done = [c \in Conn |-> 0]
  /\ pump = [c \in Conn |-> "off"]
  /\ carry = [c \in Conn |-> None]
  /\ n = [c \in Conn |-> 0]
  /\ open = [c \in Conn |-> TRUE]
  /\ far = [c \in Conn |-> "up"]
  /\ inbox = [c \in Conn |-> <<>>]
  /\ sent = [c \in Conn |-> <<>>]
  /\ got = [c \in Conn |-> <<>>]

Goto(c, l) == pc' = [pc EXCEPT ![c] = l]
Close(c) == open' = [open EXCEPT ![c] = FALSE]

-----------------------------------------------------------------------------
(***************************************************************************)
(* The Arrive handler.                                                     *)
(***************************************************************************)
First(c) == waiting[sid[c]]

\* A role that is neither, or one that already waits for this session.
Refuse(c) ==
  /\ pc[c] = "none"
  /\ \/ role[c] \notin {"agent", "client"}
     \/ First(c) # None /\ role[First(c)] = role[c]
  /\ Close(c)
  /\ Goto(c, "done")
  /\ UNCHANGED <<hub, done, pumps, far, wire>>

\* The first of a session: from here to the pairing nothing reads from it.
Wait(c) ==
  /\ pc[c] = "none"
  /\ role[c] \in {"agent", "client"}
  /\ First(c) = None
  /\ waiting' = [waiting EXCEPT ![sid[c]] = c]
  /\ Goto(c, "waiting")
  /\ UNCHANGED <<paired, mate, owner, done, pumps, open, far, wire>>

\* Mutant: pairs whoever comes second.
PairAny(c) ==
  /\ pc[c] = "none"
  /\ role[c] \in {"agent", "client"}
  /\ First(c) # None
  /\ waiting' = [waiting EXCEPT ![sid[c]] = None]
  /\ mate' = [mate EXCEPT ![c] = First(c), ![First(c)] = c]
  /\ owner' = [owner EXCEPT ![c] = c, ![First(c)] = c]
  /\ Goto(c, "pairing")
  /\ UNCHANGED <<paired, done, pumps, open, far, wire>>

\* The second, with the other role: under Hub.mu it takes the first out of the
\* map, and is then the one to run the session with it.
Pair(c) ==
  /\ pc[c] = "none"
  /\ role[c] \in {"agent", "client"}
  /\ First(c) # None /\ role[First(c)] # role[c]
  /\ waiting' = [waiting EXCEPT ![sid[c]] = None]
  /\ mate' = [mate EXCEPT ![c] = First(c), ![First(c)] = c]
  /\ owner' = [owner EXCEPT ![c] = c, ![First(c)] = c]
  /\ Goto(c, "pairing")
  /\ UNCHANGED <<paired, done, pumps, open, far, wire>>

\* Mutant: the first arrival was being read to notice that its peer left, and
\* what came was thrown away.
StartSessionFlushed(c) ==
  /\ pc[c] = "pairing"
  /\ paired' = paired \cup {mate[c]}
  /\ pump' = [pump EXCEPT ![c] = "read", ![mate[c]] = "read"]
  /\ inbox' = [inbox EXCEPT ![mate[c]] = <<>>]
  /\ Goto(c, "session")
  /\ UNCHANGED <<waiting, mate, owner, done, carry, n, open, far, sent, got>>

\* close(existing.paired), and pumpPair starts both pumps.
StartSession(c) ==
  /\ pc[c] = "pairing"
  /\ paired' = paired \cup {mate[c]}
  /\ pump' = [pump EXCEPT ![c] = "read", ![mate[c]] = "read"]
  /\ Goto(c, "session")
  /\ UNCHANGED <<waiting, mate, owner, done, carry, n, open, far, wire>>

\* Mutant: the first handler closes its connection on every way out.
PeerArrivedClosing(c) ==
  /\ pc[c] = "waiting"
  /\ c \in paired
  /\ Close(c)
  /\ Goto(c, "done")
  /\ UNCHANGED <<hub, done, pumps, far, wire>>

\* The select of the first arrival.  When both channels are ready either may
\* be chosen.
PeerArrived(c) ==
  /\ pc[c] = "waiting"
  /\ c \in paired
  /\ Goto(c, "done")
  /\ UNCHANGED <<hub, done, pumps, open, far, wire>>

PairWaitOver(c) ==
  /\ pc[c] = "waiting"
  /\ Goto(c, "expiring")
  /\ UNCHANGED <<hub, done, pumps, open, far, wire>>

\* Mutant: the entry stays in the map.
WithdrawNothing(c) ==
  /\ pc[c] = "expiring"
  /\ Goto(c, "expired")
  /\ UNCHANGED <<hub, done, pumps, open, far, wire>>

\* Under Hub.mu: leaves the map, unless the second arrival was there first.
Withdraw(c) ==
  /\ pc[c] = "expiring"
  /\ waiting' = [waiting EXCEPT ![sid[c]] = IF @ = c THEN None ELSE @]
  /\ Goto(c, "expired")
  /\ UNCHANGED <<paired, mate, owner, done, pumps, open, far, wire>>

\* The close that follows, whoever has the connection by now.
CloseExpired(c) ==
  /\ pc[c] = "expired"
  /\ Close(c)
  /\ Goto(c, "done")
  /\ UNCHANGED <<hub, done, pumps, far, wire>>

-----------------------------------------------------------------------------
(***************************************************************************)
(* pumpPair, in the handler of the second arrival: the first pump to end,  *)
(* or maxLife, ends the session.                                           *)
(***************************************************************************)
PumpDone(c) ==
  /\ pc[c] = "session"
  /\ done[c] > 0
  /\ done' = [done EXCEPT ![c] = @ - 1]
  /\ Goto(c, "ending")
  /\ UNCHANGED <<hub, pumps, open, far, wire>>

LifeOver(c) ==
  /\ pc[c] = "session"
  /\ Goto(c, "ending")
  /\ UNCHANGED <<hub, done, pumps, open, far, wire>>

\* Mutant: the handler closes the connection it was called with, twice.
CloseFirstOwn(c) ==
  /\ pc[c] = "ending"
  /\ Close(c)
  /\ Goto(c, "closing")
  /\ UNCHANGED <<hub, done, pumps, far, wire>>

CloseFirst(c) ==
  /\ pc[c] = "ending"
  /\ Close(mate[c])
  /\ Goto(c, "closing")
  /\ UNCHANGED <<hub, done, pumps, far, wire>>

CloseSecond(c) ==
  /\ pc[c] = "closing"
  /\ Close(c)
  /\ Goto(c, "done")
  /\ UNCHANGED <<hub, done, pumps, far, wire>>

-----------------------------------------------------------------------------
(***************************************************************************)
(* pump: one goroutine per direction.                                      *)
(***************************************************************************)
\* Mutant: asks whether the cap is exceeded before it counts the frame.
TakeFrameCapLate(c) ==
  /\ pump[c] = "read"
  /\ inbox[c] # <<>>
  /\ LET f == Head(inbox[c])
     IN IF f.size > MaxFrame \/ (MaxBytes > 0 /\ n[c] > MaxBytes)
          THEN pump' = [pump EXCEPT ![c] = "exit"] /\ UNCHANGED <<carry, n>>
          ELSE /\ n' = [n EXCEPT ![c] = @ + f.size]
               /\ pump' = [pump EXCEPT ![c] = "write"]
               /\ carry' = [carry EXCEPT ![c] = f]
  /\ inbox' = [inbox EXCEPT ![c] = Tail(@)]
  /\ UNCHANGED <<pc, hub, done, open, far, sent, got>>

\* Mutant: the error of a frame that is too large is overlooked, and the pump goes
\* on to write what it did not read.
TakeFrameUnread(c) ==
  /\ pump[c] = "read"
  /\ inbox[c] # <<>>
  /\ LET f == Head(inbox[c])
         total == IF f.size > MaxFrame THEN n[c] ELSE n[c] + f.size
     IN /\ n' = [n EXCEPT ![c] = total]
        /\ IF MaxBytes > 0 /\ total > MaxBytes
             THEN pump' = [pump EXCEPT ![c] = "exit"] /\ UNCHANGED carry
             ELSE /\ pump' = [pump EXCEPT ![c] = "write"]
                  /\ carry' = [carry EXCEPT ![c] = IF f.size > MaxFrame THEN @ ELSE f]
  /\ inbox' = [inbox EXCEPT ![c] = Tail(@)]
  /\ UNCHANGED <<pc, hub, done, open, far, sent, got>>

\* A frame within the limits goes on to be written; one over the byte cap or
\* over the frame size ends the pump.
TakeFrame(c) ==
  /\ pump[c] = "read"
  /\ inbox[c] # <<>>
  /\ LET f == Head(inbox[c])
         total == n[c] + f.size
     IN IF f.size > MaxFrame
          THEN pump' = [pump EXCEPT ![c] = "exit"] /\ UNCHANGED <<carry, n>>
          ELSE /\ n' = [n EXCEPT ![c] = total]
               /\ IF MaxBytes > 0 /\ total > MaxBytes
                    THEN pump' = [pump EXCEPT ![c] = "exit"] /\ UNCHANGED carry
                    ELSE /\ pump' = [pump EXCEPT ![c] = "write"]
                         /\ carry' = [carry EXCEPT ![c] = f]
  /\ inbox' = [inbox EXCEPT ![c] = Tail(@)]
  /\ UNCHANGED <<pc, hub, done, open, far, sent, got>>

\* The connection was closed under the reader (what it had buffered may be read
\* or lost), or the peer is gone and all it sent has been read.
ReadError(c) ==
  /\ pump[c] = "read"
  /\ ~open[c] \/ (far[c] = "gone" /\ inbox[c] = <<>>)
  /\ pump' = [pump EXCEPT ![c] = "exit"]
  /\ UNCHANGED <<pc, hub, done, carry, n, open, far, wire>>

WriteFrame(c) ==
  /\ pump[c] = "write"
  /\ open[mate[c]]
  /\ got' = [got EXCEPT ![mate[c]] = Append(@, carry[c])]
  /\ pump' = [pump EXCEPT ![c] = "read"]
  /\ carry' = [carry EXCEPT ![c] = None]
  /\ UNCHANGED <<pc, hub, done, n, open, far, inbox, sent>>

\* The other side was closed, is gone, or does not drain before the deadline.
WriteError(c) ==
  /\ pump[c] = "write"
  /\ ~open[mate[c]] \/ far[mate[c]] # "up"
  /\ pump' = [pump EXCEPT ![c] = "exit"]
  /\ UNCHANGED <<pc, hub, done, carry, n, open, far, wire>>

\* Mutant: an unbuffered channel, received from in the select only.
SendDoneUnbuffered(c) ==
  /\ pump[c] = "exit"
  /\ pc[owner[c]] = "session"
  /\ done[owner[c]] = 0
  /\ done' = [done EXCEPT ![owner[c]] = @ + 1]
  /\ pump' = [pump EXCEPT ![c] = "ended"]
  /\ UNCHANGED <<pc, hub, carry, n, open, far, wire>>

\* done <- struct{}{}: blocks while the channel is full.
SendDone(c) ==
  /\ pump[c] = "exit"
  /\ done[owner[c]] < DoneCap
  /\ done' = [done EXCEPT ![owner[c]] = @ + 1]
  /\ pump' = [pump EXCEPT ![c] = "ended"]
  /\ UNCHANGED <<pc, hub, carry, n, open, far, wire>>

-----------------------------------------------------------------------------
(***************************************************************************)
(* The peers.                                                              *)
(***************************************************************************)
\* Peers may send as soon as they are connected, before they are paired.
PeerSends(c, size) ==
  /\ pc[c] # "none" /\ open[c] /\ far[c] = "up"
  /\ Len(sent[c]) < MaxSent[c]
  /\ LET f == [nr |-> Len(sent[c]) + 1, size |-> size]
     IN /\ sent' = [sent EXCEPT ![c] = Append(@, f)]
        /\ inbox' = [inbox EXCEPT ![c] = Append(@, f)]
  /\ UNCHANGED <<pc, hub, done, pumps, open, far, got>>

\* Makes a difference only once somebody writes to it.
PeerStalls(c) ==
  /\ pump[c] # "off" /\ open[c] /\ far[c] = "up"
  /\ far' = [far EXCEPT ![c] = "stalled"]
  /\ UNCHANGED <<pc, hub, done, pumps, open, wire>>

PeerLeaves(c) ==
  /\ pc[c] # "none" /\ open[c] /\ far[c] = "up"
  /\ far' = [far EXCEPT ![c] = "gone"]
  /\ UNCHANGED <<pc, hub, done, pumps, open, wire>>

-----------------------------------------------------------------------------
Arrive(c) == Refuse(c) \/ Wait(c) \/ Pair(c)

Handler(c) == \/ StartSession(c) \/ PeerArrived(c) \/ PairWaitOver(c)
              \/ Withdraw(c) \/ CloseExpired(c)
              \/ PumpDone(c) \/ LifeOver(c) \/ CloseFirst(c) \/ CloseSecond(c)

Pump(c) == \/ TakeFrame(c) \/ ReadError(c) \/ WriteFrame(c) \/ WriteError(c)
           \/ SendDone(c)

Peer(c) == (\E size \in Size : PeerSends(c, size)) \/ PeerStalls(c) \/ PeerLeaves(c)

\* Every connection has been served; the model has no more of them.
Finished ==
  /\ \A c \in Conn : pc[c] = "done" /\ ~open[c] /\ pump[c] \in {"off", "ended"}
  /\ UNCHANGED vars

Next == \/ \E c \in Conn : Arrive(c) \/ Handler(c) \/ Pump(c) \/ Peer(c)
        \/ Finished

Spec == Init /\ [][Next]_vars

\* Goroutines are scheduled, timers fire and writes have a deadline.  Nothing
\* is assumed of arrivals and peers.
Fairness == \A c \in Conn : WF_vars(Handler(c)) /\ WF_vars(Pump(c))
FairSpec == Spec /\ Fairness

-----------------------------------------------------------------------------
\* An entry of the waiting map is a connection whose handler is still there to
\* take it out again, that nobody closed and that was not handed to a session:
\* a second arrival is never joined to a dead or a taken first.
WaitingServed ==
  \A s \in Sid : LET c == waiting[s] IN
    c # None => /\ pc[c] \in {"waiting", "expiring"}
                /\ open[c] /\ sid[c] = s /\ c \notin paired

\* No frame is dropped, doubled or reordered on its way through a pump, those
\* sent before the pairing included (relay.go:24-27): what was written, what the
\* pump holds and what it has yet to read is what the peer sent.
NothingLost ==
  \A c \in Conn :
    /\ pump[c] = "read" => got[mate[c]] \o inbox[c] = sent[c]
    /\ pump[c] = "write" => got[mate[c]] \o <<carry[c]>> \o inbox[c] = sent[c]

Bytes(frames) ==
  LET upto[i \in 0..Len(frames)] == IF i = 0 THEN 0 ELSE upto[i-1] + frames[i].size
  IN upto[Len(frames)]

\* The cap is on what each direction delivers (relay.go:158), and the frame that
\* crosses it is not delivered, however the session ends.
WithinCap == MaxBytes > 0 => \A c \in Conn : Bytes(got[c]) <= MaxBytes

P == INSTANCE Pipe WITH End <- Conn, Alone <- None

\* The relay implements Pipe: whatever arrives, times out, stalls or closes, it
\* joins opposite ends of one session, once, and gives each a prefix of what
\* the other sent.
Refinement == P!Spec

\* No connection the hub was given stays open for ever: a lone one, a refused
\* one and both of a session are closed by the server, whatever the peers do.
EveryConnCloses == <>[](\A c \in Conn : pc[c] # "none" => ~open[c])

\* No pump outlives its session: both goroutines of a pumpPair end, although
\* its handler takes at most one token from the done channel.
EveryPumpEnds == <>[](\A c \in Conn : pump[c] \in {"off", "ended"})

\* relay.go:51-52, "When both arrive, bytes are copied until close or lifetime
\* cap": while a session runs, with both peers there and no pump at its end,
\* the server has closed neither connection.  The hub alone does not ensure it,
\* because the wait timer of the first may fire as the second takes it out of the
\* map; RelayAdmission shows why it holds all the same.
CopiedUntilCloseOrCap ==
  \A c \in Conn :
    LET ends == {c, mate[c]} IN
    (pc[c] = "session" /\ \A e \in ends : pump[e] \in {"read", "write"})
      => \A e \in ends : open[e]
=============================================================================
