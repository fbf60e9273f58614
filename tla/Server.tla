-------------------------------- MODULE Server --------------------------------
(***************************************************************************)
(* server.ListenAndServe (serve.go) and the goroutines it starts: the      *)
(* ticker that sweeps, the UDP echo (internal/reflex) with its rate        *)
(* window, and the one that waits for the signal to stop.  Of a sweep,     *)
(* the two ends are here that the other modules leave out: the notice is   *)
(* refreshed, and the window swept with the time from before that.         *)
(***************************************************************************)
EXTENDS Integers, Sequences

CONSTANTS
  Doc, Blank, Big, Absent, None, MaxGrain, MaxWrites, MaxErrors,  \* as in NoticeStore
  Source,         \* addresses that send packets, by BanKey
  Limit, Period,  \* of the reflex window
  Lag             \* longest time a sweep takes from its time.Now() to the window

ASSUME ServerAssumption == Limit \in Nat /\ Period \in Nat \ {0} /\ Lag \in Nat
ASSUME NoticeAssumption ==
  /\ Doc \cap {Blank, Big, Absent} = {}
  /\ MaxGrain \in Nat \ {0} /\ MaxWrites \in Nat /\ MaxErrors \in Nat

VARIABLES
  grain, content, time, mtime, cur, refresh, writes, errors, missed,  \* NoticeStore
  hits,     \* the reflex window
  answer,   \* history: the last answer of the reflex limiter
  main,     \* where ListenAndServe is: loading the notice, opening the sockets,
            \* serving; "stopped" and "failed" are the process exited with 0 and 1
  asked,    \* the context is cancelled: the process was asked to stop
  stopper,  \* the goroutine that shuts the HTTP server down, and the server with it
  udp,      \* the UDP socket
  echo,     \* the echo goroutine
  ticker,   \* the ticker goroutine, in the steps of SweepOnce
  lag       \* how old the time is that SweepOnce read

N == INSTANCE NoticeStore
W == INSTANCE Window WITH Key <- Source

notice == <<grain, content, time, mtime, cur, refresh, writes, errors, missed>>
window == <<hits, answer>>
process == <<main, asked, stopper, udp, echo>>
sweep == <<ticker, lag>>
vars == <<notice, window, process, sweep>>

TypeOK ==
  /\ N!TypeOK /\ W!TypeOK
  /\ main \in {"notice", "udp", "listen", "serve", "stopped", "failed"}
  /\ stopper \in {"off", "wait", "shut"}
  /\ udp \in {"none", "open", "closed"} /\ echo \in {"off", "read", "ended"}
  /\ ticker \in {"off", "wait", "notice", "window", "ended"} /\ lag \in 0..Lag

Init ==
  /\ N!Init /\ W!Init /\ answer = <<>>
  /\ main = "notice" /\ asked = FALSE /\ stopper = "off"
  /\ udp = "none" /\ echo = "off" /\ ticker = "off" /\ lag = 0

Up == main \notin {"stopped", "failed"}

-----------------------------------------------------------------------------
RefreshStep == N!Stat \/ N!StatFails \/ N!Read \/ N!ReadFails

\* NewWire makes the store, and New refreshes it once.
LoadNotice ==
  /\ main = "notice" /\ RefreshStep
  /\ main' = IF refresh' = "idle" THEN "udp" ELSE main
  /\ UNCHANGED <<window, asked, stopper, udp, echo, sweep>>

\* The UDP socket and its echo, unless it is configured away; and the ticker.
StartLoops ==
  /\ main = "udp"
  /\ \/ udp' = "open" /\ echo' = "read"
     \/ UNCHANGED <<udp, echo>>
  /\ ticker' = "wait" /\ main' = "listen"
  /\ UNCHANGED <<notice, window, asked, stopper, lag>>

\* Mutant: a server that was asked to stop before it listens goes on.
ListenUnasked ==
  /\ main = "listen"
  /\ stopper' = IF asked THEN "off" ELSE "wait"
  /\ main' = "serve"
  /\ UNCHANGED <<notice, window, asked, udp, echo, sweep>>

Listen ==
  /\ main = "listen"
  /\ stopper' = "wait" /\ main' = "serve"
  /\ UNCHANGED <<notice, window, asked, udp, echo, sweep>>

\* A socket or the certificate is not to be had; or the listener fails.
Fail ==
  /\ main \in {"udp", "listen", "serve"} /\ stopper # "shut"
  /\ main' = "failed"
  /\ UNCHANGED <<notice, window, asked, stopper, udp, echo, sweep>>

\* SIGTERM or an interrupt, at any time.
Ask == /\ Up /\ ~asked /\ asked' = TRUE
       /\ UNCHANGED <<notice, window, main, stopper, udp, echo, sweep>>

\* Shutdown closes the listener at once, or keeps Serve from starting.
Shutdown == /\ Up /\ asked /\ stopper = "wait" /\ stopper' = "shut"
            /\ UNCHANGED <<notice, window, main, asked, udp, echo, sweep>>

\* Serve returns ErrServerClosed and the process ends, whatever still runs.
ServerClosed == /\ main = "serve" /\ stopper = "shut" /\ main' = "stopped"
                /\ UNCHANGED <<notice, window, asked, stopper, udp, echo, sweep>>

-----------------------------------------------------------------------------
\* reflex.ListenAndServe with a limiter that has no book of bans (A2): a packet
\* over the limit gets no answer.
Packet(k) ==
  /\ Up /\ echo = "read" /\ udp = "open"
  /\ W!Allow(k) /\ answer' = <<k, W!Room(k)>>
  /\ UNCHANGED <<notice, process, sweep>>

CloseUDP == /\ Up /\ asked /\ udp = "open" /\ udp' = "closed"
            /\ UNCHANGED <<notice, window, main, asked, stopper, echo, sweep>>

\* A read error, of the closed socket or any other, ends the echo for good.
EchoEnds == /\ Up /\ echo = "read" /\ echo' = "ended"
            /\ UNCHANGED <<notice, window, main, asked, stopper, udp, sweep>>

-----------------------------------------------------------------------------
\* The select of the ticker.
BeginSweep == /\ Up /\ ticker = "wait" /\ ticker' = "notice" /\ lag' = 0
              /\ UNCHANGED <<notice, window, process>>

StopTicker == /\ Up /\ asked /\ ticker = "wait" /\ ticker' = "ended"
              /\ UNCHANGED <<notice, window, process, lag>>

SweepNotice ==
  /\ Up /\ ticker = "notice" /\ RefreshStep
  /\ ticker' = IF refresh' = "idle" THEN "window" ELSE ticker
  /\ UNCHANGED <<window, process, lag>>

\* With the time SweepOnce was called with.
SweepWindow ==
  /\ Up /\ ticker = "window" /\ W!Sweep(lag)
  /\ ticker' = "wait" /\ lag' = 0
  /\ UNCHANGED <<notice, answer, process>>

Sweep == BeginSweep \/ SweepNotice \/ SweepWindow

-----------------------------------------------------------------------------
Operator == /\ Up /\ N!Operator
            /\ UNCHANGED <<window, process, sweep>>

Tick ==
  /\ Up /\ N!Tick /\ W!Tick
  /\ IF ticker \in {"notice", "window"} THEN lag < Lag /\ lag' = lag + 1
                                        ELSE UNCHANGED lag
  /\ UNCHANGED <<answer, process, ticker>>

Next ==
  \/ LoadNotice \/ StartLoops \/ Listen \/ Fail \/ Ask \/ Shutdown \/ ServerClosed
  \/ \E k \in Source : Packet(k)
  \/ CloseUDP \/ EchoEnds \/ StopTicker \/ Sweep
  \/ Operator \/ Tick

Spec == Init /\ [][Next]_vars

\* Goroutines are scheduled and the ticker ticks; system calls return.  Nothing
\* is assumed of signals, packets and the operator.
Fairness ==
  /\ WF_vars(LoadNotice) /\ WF_vars(StartLoops) /\ WF_vars(Listen)
  /\ WF_vars(Shutdown) /\ WF_vars(ServerClosed) /\ WF_vars(Sweep)
FairSpec == Spec /\ Fairness

-----------------------------------------------------------------------------
\* The notice is the file's wherever the modification time can tell
\* (RENDEZVOUS.md:86), at every step of the process and of the operator.
UpToDate == N!UpToDate

\* A server that keeps running shows, from some sweep on, what the file says
\* (RENDEZVOUS.md:86, "hot-reloaded on mtime, no restart"): through files that
\* were removed, half written, replaced by older ones or not to be read, except
\* for what the modification time cannot tell.
NoticeCatchesUp == <>[](~Up \/ asked \/ missed \/ cur = N!Shown(content))

RL == INSTANCE RateLimit WITH Key <- Source, log <- [k \in Source |-> W!Kept(hits[k], 0)]

\* The reflex window is RateLimit: between sweeps that work with an old time and
\* packets that prune as they come, it answers as if it remembered every packet
\* it ever answered (window.go:31-76).
RateLimited == RL!Spec

\* A process that was asked to stop ends, wherever the signal finds it, the time
\* before it listens and a sweep included (serve.go:92-102).
StopsWhenAsked == asked ~> ~Up
=============================================================================
