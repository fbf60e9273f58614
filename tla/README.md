# Verification of spadeide-rendezvous

TLA+ models, TLC runs and TLAPS proofs of the rendezvous server: the introducer
that agents register with and clients look them up in, and the blind relay that
joins the two. Everything is translated from the Go source under `src/server`.

## The system

| Part | State | Operations | Used by |
|---|---|---|---|
| Registry (`internal/registry`) | map from keys (an agent id and its blinded rids) to slot objects with a connection, an address and an expiry | `Upsert`, `Touch`, `Get`, `Remove`, `Sweep`, `CountByIP`, `Len` | agent and client handlers, sweep ticker |
| Agent handler (`signal/agent.go`) | one goroutine per agent connection: hello, address limit, challenge, proof, `Upsert`, ready, read loop | pings renew the slot, offer-acks go to the lookup that waits | registry, pending map |
| Client handler (`signal/client.go`) | one goroutine per lookup: `Get`, two tickets, a pending entry with an ack channel of two, offer, wait, peer, late direct | | registry, tickets, pending map, the agent's connection |
| Tickets (`internal/ticket`) | signing key, previous key and its end, map of spent tickets | `Issue`, `Verify`, `Sweep` with hourly rotation | client handler, relay endpoint, sweep ticker |
| Relay (`internal/relay`) | map of first arrivals; per session two pumps and a lifetime timer | `Arrive`, `pumpPair`, `pump` | relay endpoint |
| Wiring (`server/wire.go`) | the mux; `/v1/relay` verifies a ticket, upgrades and arrives at the hub | `SweepOnce` | the ticker |
| Process (`server/serve.go`, `main.go`) | goroutines of the ticker, the UDP echo and the shutdown, and the listener | `ListenAndServe` | |
| Bans and windows (`internal/ratelimit`) | a ban ladder and a sliding window per address | `Admit`, `Strike`, `SoftStrike`, `Sweep` | all endpoints |
| Notice (`internal/notice`) | the announcement, by modification time of one file | `Refresh`, `Get` | client handler, sweep ticker |
| Reflex (`internal/reflex`) | a UDP echo with a window of its own | | |
| Configuration, metrics, helpers | none that outlives a call, or counters | | |

What is hard about it:

* **One registry, many goroutines.** An agent is known under several keys, its
  slot expires by the clock, is renewed by key rather than by connection, and is
  deleted by whoever meets it expired. Reconnecting agents overlap with their own
  half-dead connections.
* **Handlers that look, let go of the lock, and act.** The address limit, the
  slot pointer of a lookup, the ack channel and the waiting map are all read in
  one critical section and used after it.
* **Timers against messages.** TTL against read deadline, two seconds and 50 ms
  against offer-acks, the pair wait against the second arrival, the session
  lifetime against both pumps.
* **Two resolutions of time.** Tickets expire by whole seconds, signing keys by
  the full clock, and the sweep works with a time it read before it had to wait.
* **Files that change while they are read.** The notice is known by a
  modification time, which has a grain, is read before the content, and may go back.
* **Restarts.** Everything but the notice is in memory; tickets outlive the
  process that issued them.

What makes each part correct: the registry never moves a key from a live
connection (A1 in the code's comments); an agent that renews in time stays
listed and one that died is forgotten; every lookup ends and gets what the agent
answered; a ticket string buys one admission, across restarts, and a ticket survives a
rotation; the
two holders of a session's tickets find each other if both come; a ban runs its time unless a
strike on its own key replaces it, nobody
is banned for long on rate trips alone, and a limit neither lets in more nor turns
away sooner than it says; the relay joins
opposite ends of one session, loses nothing between them, keeps its cap and ends
everything it started; the notice shown is the one in the file; and the process
ends when it is asked to.

## The modules

| Module | What it is |
|---|---|
| `Registry` | the registry; every method holds its lock throughout and is one action |
| `Directory` | the abstract registry: holders and leases of keys |
| `RegistryProofs` | TLAPS proofs about `Registry` |
| `Introducer`, `IntroducerProofs` | agent and client handlers over an instance of `Registry`, and the proofs about them |
| `Tickets`, `TicketsProofs` | the ticket manager and the proofs about it |
| `Relay`, `RelayProofs` | the hub, the sessions and the pumps, and the proofs about them |
| `Pipe` | the abstract relay: ends that are joined once and a queue each way |
| `RelayAdmission`, `RelayAdmissionProofs` | `/v1/relay`: instances of `Tickets` and `Relay` on one clock, and the proofs about it |
| `Banbook`, `BanbookProofs` | the book of progressive bans and the proofs about it |
| `Ages` | the pruning of a sequence of ages |
| `Window` | the sliding window of hits |
| `RateLimit` | the abstract rate limit, which remembers every hit that counts |
| `Admission`, `AdmissionProofs` | requests and their faults, over instances of `Banbook` and `Window`, and the proofs about them |
| `NoticeStore` | the operator's announcement and its file |
| `Server`, `ServerProofs` | the process: start, ticker, UDP echo and stop, over instances of `NoticeStore` and `Window`; the proofs cover both, and what `Ages` computes for any sequence |
| `MC...` | instances for TLC with their configurations |

Definitions whose comment begins with "Mutant" are slips a change to the code
might make. They are used by nothing; `PROJECT.json` pairs each with the
definition it stands in for and the property that then fails.

### Registry

`slots` is `Registry.slots`; `obj` holds the fields of a slot object that never
change; `life` is the time until `now.After(ExpiresAt)`, and `Tick` the passing
of a unit, so no clock grows without bound. `Without` is `deleteSlotLocked`,
which walks the slot's own keys and compares pointers. `Upsert` and
`UpsertRefused` are the two outcomes of one method. The code looks at the keys
in the caller's order and gives up at the first conflict; which expired slots it
swept before is left open, any subset of the other keys may have come first.
`Touch` neither asks for expiry nor for the connection. Absent keys make `Touch`,
`Get` and `Remove` steps without effect.

### Introducer

`Registry` is instantiated with the agent connections as slot objects, because a
connection registers at most once. A handler's `pc` names the next thing it will
do; a registry method, a section under `Handler.mu` and a write under `WriteMu`
are one step each. `cap` and `count` are the two registry calls of the address
limit; `ready` is the window in which lookups already see the slot (and an offer may be
written before the ready frame, which `docs/PROTOCOL.md:12-15` lists first);
`ack` lies between leaving `Handler.mu` with a channel and the non-blocking send;
`leaving` is the deferred `Remove`. `deadline` counts down to the read deadline,
which is set anew on each turn of the loop. The agent's end may go silent or
close at any time; its frames are chosen among those a real agent may send: a
ping at any time, an ack at once with or without a direct candidate, the
candidate in a second ack, and frames the handler does not know or cannot decode
(`ReadOther`), which keep the connection but not the slot. A lookup keeps the slot it found by pointer (`hit`).
Its two timers may fire at any moment. Client ends are not modelled: the handler
does not read from them once it has the lookup.

`pings` and `lapsed` record, for the properties only, whether an agent ever let
a whole TTL go by without renewing. `NeverDisplaced` is the registry's A1 said of the
handlers that call it; `ListingRefined` says that all they do to the registry together is
what `Directory` allows.

The admission before the upgrade, and the faults that a malformed hello or a wrong
proof counts as, are in `Admission`; here such a handshake fails (`ProofFails`).

### Tickets

An instant is a record of seconds and a fraction. `Granted` is the clamp in
`Issue`, `Over` the comparison of whole seconds that `Verify` and `Sweep` share,
`KeepUntil` the end of the previous key. `SweepOnce` reads the clock, sweeps the
registry, and only then calls `Sweep`: `sweeping` is that reading, at most `Lag`
seconds old. `Rotate` and `KeepKey` are the two outcomes of
`maybeRotateLocked`, the second also when the generator fails. What
`Issue` returns and `Verify` is given is a string, here a ticket in one of its
spellings (`Encoded`): `base64.RawURLEncoding` is not `Strict`, so it skips line
breaks and ignores the bits left over in the last character, and several strings
decode to what was signed. Signature and expiry are those of the ticket; `used` is
keyed by the string. A string that is no spelling of an issued ticket fails the
signature and changes nothing; such strings are left out. `SpentAsSpelled` is
what the map ensures, once for each string; `SingleUse`, once for each ticket, is what
`docs/PROTOCOL.md:67` says and is refuted below.
`Restart` is a new process, whose `New` makes a new manager at the present time: the
spent tickets are forgotten and the key is another (`boot` is its number). The
tickets it did not issue are still in their holders' hands.

### Relay

`pc` follows `Arrive`: `waiting` is its select, `expiring` and `expired` the way
from the timer through the lock to the `Close`, `pairing` the gap between taking
the first arrival out of the map and starting the session, `session` the select
in `pumpPair`, `ending` and `closing` the two closes. `pump[c]` is the goroutine
that reads from `c`. `mate` and `owner` record which `pumpPair` a connection is
in. Peers send from the moment they connect; `stalled` peers neither read nor
send, and `gone` ones have closed. A write towards either may succeed or fail;
what a closed connection had buffered may be read or lost. `n` is both the
pump's count and what it reported to `onBytes`. `CopiedUntilCloseOrCap` is stated
here, but holds only with `RelayAdmission`'s clock.

### RelayAdmission

A lookup issues the two tickets of its session, and only then sends either
(`Sent`). A connection shows its ticket (`Admit`, `Unauthorized`), is upgraded or
not, and arrives. Connections may hold the same ticket, and `spelling` says how each
presents it (`Presented`): those that spell it alike compete for one admission, those
that do not are let in one by one, and the hub has to cope with two of a role.
`since` is the instant
a connection was verified, then the one it arrived, then, for the second of a
session, the one it started the session; `Tick` lets a handler be at most `Delay`
late for each step it need not wait for, and the wait timer may fire any time after
`PairWait`. The clock is that of `Tickets`. `PairWaitAssumption`, that the pair wait
exceeds a ticket's lifetime and three such delays, stands for two minutes against
thirty seconds. What peers do to sessions is left to `Relay`, and a restart, which
clears the hub as well, to `Tickets`.

### Banbook

An entry keeps its instants relative to the present: `until` counts down to the
end of the ban, `struck` and `seen` count up from `lastStrike` and `lastSeen`, and
each stops where no comparison of the code can tell any more. The strike counts
stop at the top of their ladder for the same reason. `Victims` is
`ensureCapacityLocked`: an idle entry, any of them because a Go map has no order,
or else one of those with the lowest `Rank`. `Found` is the entry a strike finds,
with its strikes forgotten after a clean decay period, `Struck` is `strikeLocked`,
`GaugeAfter` the bookkeeping of `bansActive`. Both ladders write the same `until`,
so a strike also replaces what was left of a longer ban of the other ladder
(`guard_test.go:79-84` relies on it). `Sweep(lag)` works with a time read up to
`Lag` ago, because `SweepOnce` has to wait for the registry and the tickets first.
The counters of strikes, rejections and evictions serve the metrics only.

### Window

A hit is its age. `Kept` is the pruning that both methods do (`Younger` of `Ages`), `Room`
what `Allow` answers. A key without hits and a key the map does not have are the same.
`Sweep(lag)` prunes by a time `lag` ago. `RateLimit` keeps a log of the hits let in
that a period that ends now covers, and lets in exactly while there are fewer than
the limit. The refinement mapping is the window's own hits, pruned to the present.

### NoticeStore and Server

`Refresh` holds `Store.mu`, but the file belongs to somebody else: `Stat` and `Read`
are two steps, with any number of changes to the file between them. `content` is
what is in the file, as far as the code distinguishes it: an announcement, anything
that shows none, or more than the limit. `time` is its modification time in grains
of the file system's clock, and may go back when a file is moved into place. A
change within the grain that `Stat` recorded cannot be told by any later `Refresh`:
`missed` records that, so that `UpToDate` and `NoticeCatchesUp` promise what a
modification time can, and no more. A failed read whose time was recorded is the
same case, and stays blank until the next change.

`Server` follows `ListenAndServe`: `main` is the goroutine of the process, `echo`,
`ticker` and `stopper` are those it starts. The context's end (`asked`) may come at
any time, and each goroutine sees it when it looks. `Fail` is a socket or
certificate that cannot be had. A process whose configuration does not parse or
whose first key cannot be generated ends before any of this. Of `SweepOnce` the
notice and the reflex window are here, with `lag` the age of the time that the
window is swept with; the parts in between are in the modules above.

### Admission

A request's `at` names its next step through `Limiter.Admit`: `Check` is `CheckBan`,
`AskAgain` and `Hit` are `Limiter.Allow`, `Note` the count of a rejection, `Trip` the
soft strike of whoever is over the limit, `Refuse` the look at the ban for
`Retry-After`. Each is a critical section of its own. A request that was let in may
commit a fault: a bad hello or proof on `/v1/agent` (`noteFault`, once, since each
closes the connection), a ticket that does not verify on `/v1/relay`. Both are
counted in the window of `/v1/agent` under keys of their own, protocol faults by
`BanKey` and bad tickets by address, and both strike when over the limit. `/v1/relay`
has no window for admission. `faults` records, for the properties only, how many
faults a block committed. `LongBansAreEarned` ties the two ladders together: rate
trips, however many overlap, never ban a block for longer than the soft ladder's last
rung, and each rung beyond costs a fault. Sweeps have no delay here; `Banbook` by itself is
checked with one.

## Runs

| Run | Question | Instance and bounds |
|---|---|---|
| `registry` | Can any order of calls take a key from a live connection? Does the registry implement `Directory`? | 3 keys, 2 connections, 3 slot objects, TTL 2; symmetric in all three |
| `agents` | Are entries served by a live handler, whole, and lost only by their own connection's end or a lapsed lease? | 3 agent connections: a reconnect with a rid more, and another agent sharing that rid and the first one's address; limit 1 per address; TTL 1, grace 1 |
| `lookups` | Do acks land, candidates arrive, and lookups end? | 1 agent, 2 lookups, TTL 1 |
| `forgetting` | Does an agent that lets no lease go by stay listed, and is a dead one forgotten although others may renew its key? Do lookups see a directory of leases throughout? | 2 connections of one agent, the second with a rid more, TTL 2, grace 1; fair scheduling |
| `tickets` | Is no string accepted twice, and does a rotation lose no ticket in flight? | 9 s in half-second ticks, lifetime at most 2 s, rotation after 3 s, sweeps up to 1 s late, 2 tickets of 2 spellings each, 3 keys (by rotation or restart); symmetric in the spellings |
| `relay` | Is the waiting map sound, are only opposite ends joined, once, is each direction a lossless queue up to its cap, and does everything that was started end? | 1 agent that sends 2 frames and 2 clients of its session that send none; frames of 1 (the second crosses the cap of 1) and of 3 (above the read limit of 2); fair scheduling |
| `relay_admission` | Does the pair wait outlast the tickets, does the wait timer leave sessions alone, and does a string let one connection in? | 1 agent, 2 clients with the same ticket, in the same spelling or in two; half-second ticks for 6 s; lifetime 1 s, delay 1 s, pair wait 5 s, prompt sweeps and no rotation; symmetric in the clients |
| `bans` | Are bans lost or moved by others, are rate trips capped, and is the gauge right about what it shows? | 3 keys, room for 2; ladders 1, 3 and 1, 2; decay 3; sweeps up to 1 late; gauge at most 4; symmetric in the keys |
| `admission` | Is every auth strike, and every ban longer than rate trips are worth, earned by faults, whatever overlaps? | 2 requests, 1 address, limits 1, period 1, ladders 1, 2 and 1, decay 2, room for 1 key; symmetric in the requests |
| `server` | Does the notice follow its file, does the reflex window limit what it should, does the process end when asked? | 1 announcement, 2 changes of the file, 2 grains, 1 failing call; 1 source, 2 packets in 2 units, sweeps up to 1 late; fair scheduling |
| `address_limit_race` | expected violation of `CapRespected` | 2 agents of one address, limit 1 |
| `ticket_spellings` | expected violation of `SingleUse` | the bounds of `tickets` |

Why the bounds are enough. The registry's hard cases need an old slot that kept
one of two re-registered keys and a third party: three keys and slots, two
connections. A TTL of 2 tells "just renewed", "half run out" and "expired"
apart. With a TTL of 1 in `agents` every lease is over at the next tick, which is
enough to have entries expire, be met expired and be taken over; what renewing a
lease half run out does, by the agent itself or by another connection's ping,
needs the TTL of 2 of `forgetting`, which is therefore where `AgentStaysListed` is
checked. The acks of one lookup
never meet those of another except in the agent's read loop, which two lookups
exercise. In `tickets` the lifetime, the rotation period and the delay keep the
order they have in the code (a rotation period longer than a lifetime, a delay
smaller than either) and the clock has room for two rotations and the retirement
between them, or a restart before, between or after them; a third key is enough,
because a ticket only ever meets its own and whether that is still known. In
`relay` the first frame fits under the cap and the second crosses it, a frame
above the read limit ends a session at once, and a second client is there to take
the wrong place. There only the agent sends: the
two pumps of a session share nothing but its end, and the theorems have frames both
ways. Lapse of time in `Relay` is not modelled at all: any timer may
fire at any moment. In `relay_admission` the pair wait is the smallest that
`PairWaitAssumption` allows, so any step of any handler taken later than assumed
would show; one fraction of a second tells the rounding of expiries from the
clock. None of its properties depends on which keys are
known, as long as tickets do not lose theirs, which is `tickets`' matter; so there is no
rotation in the run. The theorems have any. Two spellings of a
ticket are enough, since `used` compares strings for equality only. In `server` a file may be written with a time older than the one recorded
(two grains and two changes), be removed and restored, or be found half written
and completed; one failing call may hit the `Stat` or the read; two hits in a period of
two have one that ends while the other counts, under a sweep that is late by one. The ladders of `bans` have a rung that two keys can be at different
points of and a last rung that repeats; its decay is as long as the longest ban,
as 24 h are in the code; a third key forces evictions of idle, recently seen and
banned entries. In `admission` two requests suffice to have one past the ban
check while the other is struck, and limits of 1 make the second fault the one
that strikes.

`MaxTime`, `MaxIssued`, `MaxKey` (`Tickets`; it bounds restarts only), `MaxSent`
(`Relay`), `MaxGrain`, `MaxWrites`, `MaxErrors` (`NoticeStore`) and `MaxActive` (the
gauge in `Banbook`, which strikes raise until a sweep sets it right) are the
only bounds on otherwise unbounded behaviour; `EnoughFaults` (`Admission`) only
stops a history count where no strike count can reach it. The deadlock
check is off for `server` only, whose process ends: `StopsWhenAsked` says when.
`Finished` in `Relay` is a stutter step, taken when every connection has been
served; elsewhere time can always pass.

### Fairness

`Introducer`: weak fairness of each handler's own steps (goroutines are
scheduled; every write has a 10 s deadline, so none blocks for ever; `select`
timers fire) and of the passing of time. Reading a frame is an agent's choice
and not fair, nor is the sweep: `DeadAgentForgotten` holds without it.
`Relay`: weak fairness of each `Arrive` handler and each pump, whose timers and
write deadlines are real timers. Nothing is assumed of arrivals and peers: a
pump that waits for a silent peer is not enabled, and only the lifetime timer
gets it out.
`Server`: weak fairness of the main goroutine, of the one that shuts down and of
sweeps, which the 30 s ticker begins and whose system calls return. Nothing is
assumed of signals, packets, the operator and the UDP socket.

### What the violations show

* `CapRespected`: the limit per address is checked before the challenge and not
  again; agents that say hello together pass it together.
* `SingleUse`: `Verify` remembers the string it accepted, not the ticket it decoded,
  and a ticket has more than one string. `docs/PROTOCOL.md:67` says that a ticket is
  single-use; the code makes each string of it so (`SpentAsSpelled`).

One disagreement that `Relay` by itself allows is no longer among them. The wait
timer may be chosen, or be waiting for the lock, as the second side pairs; the first
handler then closes a connection that its session is pumping, although
`relay.go:51-52` says that bytes are copied until close or lifetime cap.
`relay_admission` shows that this needs a handler that is late by more than a third of
what the pair wait exceeds a ticket's lifetime by, half a minute in the code: both
arrivals of a session come within a ticket's lifetime and the delays. The assumption
is strict because expiries are rounded: a ticket is good through its last second.

## Proofs

All proofs are for every value of the constants under the modules' named
assumptions. Those say: the TTL, a ticket's lifetime and a period are positive;
null values are not members of the sets they extend; the functions that say who a
connection is have their types; a rotation period is longer than a ticket's lifetime
(`RotateAssumption`); the pair wait exceeds a ticket's lifetime and three delays
(`PairWaitAssumption`); the ladders rise, the soft one ends no higher than the other,
and that no higher than the decay period (`LadderAssumption`). No set of keys,
connections, lookups or addresses is assumed finite. `TicketsAssumption` and `HubAssumption` of `RelayAdmission`, and
`BookAssumption` of `Admission`, are those of `Tickets`, `Relay` and `Banbook` for the
constants these are instantiated with.

Each proof has the same shape: an inductive invariant, that it holds at the start
of a behaviour, one lemma per action or group of actions that it is kept,
and the theorems, which follow from it or, for properties of steps and refinements,
from it and a lemma on what each step does.

* `RegistryProofs`. The inductive invariant is the type invariant and, for every
  key that leads to a slot, that the slot lists the key and was built by a
  connection. It is what makes `Without` delete every key of a slot
  (`WithoutFacts`): without it an expired slot could keep a key. On it rest
  `TypeCorrect`, `KeysAlwaysBelong`, and one lemma per method on what it does to
  the answers a lookup gets: deleting expired slots changes none, an accepted
  `Upsert` answers its connection where nobody or that connection was the answer,
  `Touch` and `Remove` act on one slot. `TakeoverNeverSilent` (A1) and
  `RegistryImplementsDirectory` follow from those lemmas.
* `IntroducerProofs`. The invariant has two halves.
  `AgentInv` is about the registry and the agent handlers: an agent is listed under all
  of its keys or under none (`Whole`), every slot's handler is between `Upsert` and
  `Remove` (`EveryEntryServed`), and an agent that has always renewed is listed with
  a lease that outlasts what it has left to ping (`Renewed`). `Whole` is needed for
  both others: a deletion reaches every key of a slot only because the keys that lead
  to it are its own. `LookupInv` is about offers and acks: a lookup is offered once, to
  the connection it found (`Hit`, `Offered`); its channel holds no more than what was
  acked (`Backlog`), and whatever an agent handler is about to hand over has room
  (`InHand`); a lookup that lingers without having timed out has taken the empty ack,
  so all that can still come is the candidate (`Lingering`), and one that is over without
  a timer had it (`Told`). The theorems are `TypeCorrect`, `EveryEntryAlwaysServed`,
  `SlotsAreWhole`, `RenewingAgentStaysListed`, `AcksAlwaysLand`,
  `DirectAlwaysReachesClient`, `NobodyDisplaced` and `IntroducerImplementsDirectory`:
  every step of a handler is a step of `Directory` or does not show. `Whole` is needed
  there too: the keys a departure gives up are the connection's own.
* `TicketsProofs`. The invariant adds to the types: no ticket expires later than
  a lifetime from now (`Dated`); a sweep under way has a time at most `Lag` old
  (`Clocks`); the previous key is kept for a lifetime and a second from the
  rotation (`Kept`); a ticket is signed by the current key, or by the previous
  one and expires within `Lag` and a lifetime of the rotation, or is over, or was
  issued before the process started (`Signed`); a spent string is remembered until its ticket is over or a restart
  (`Remembered`), after which no key it could be verified with is known: the current
  and the previous key are both at least `boot`.
  `StringsSpentOnce` and `LiveTicketsAlwaysVerify` follow. There is no theorem of
  `SingleUse`, which is false. `LiveTicketsAlwaysVerify` is exact in
  the delay: with prompt sweeps (`Lag` 0) no unexpired ticket ever loses its key.
* `RelayProofs`. The invariant has three parts. `Waits`: what the waiting map
  holds is open, alone, and its handler is still there. `Mates` and `Engaged`:
  pairing is symmetric and between opposite ends of one session, one handler of a
  pair runs the session and the other is parked, and no pump runs before that
  handler starts it. `Flow`: what was written, what the pump holds and what it has
  yet to read is what the peer sent, and nothing has been written before the pump
  starts. `Engaged` is needed for `Flow`: a pump started twice would read on after
  it gave a frame up. `TypeCorrect`, `WaitingAlwaysServed`, `NothingEverLost` and
  `RelayImplementsPipe` follow. `AlwaysWithinCap` has an invariant of its own
  (`CapInv`) on top of that: the pump's count `n` is what it delivered (`Counted`), and
  a pump that still runs has not passed the cap. The sum over what was
  delivered is a recursive function (`Bytes`), and `BytesAppend` says how it grows.
* `RelayAdmissionProofs`. `Tickets` and `Relay` are instantiated, and so are
  their proofs: a step of the composition is a step of each or none
  (`TicketStep`, `HubStep`), which brings both invariants along. What the composition adds is in
  `Own`. A session has one ticket of each role (`OneTicket`), and who was let in has
  spent the string it presented (`Spent`): since `Verify` accepts none twice, no two
  connections with the same string are let in, which is `StringsLetInOnce`. With
  different spellings a role may come to the hub twice, and everything else holds with
  that: a duplicate is refused there, or waits in vain. The rest is about the clock: once a connection of a session was let
  in, no ticket of that session is good for longer than a lifetime (`Dated`); a handler
  does what it need not wait for in time (`Prompt`); so the second comes, and has told
  the first, within a lifetime and two delays of the first's arrival (`Joined`), and a
  first whose timer has fired was alone all the while (`Late`). `WaitAlwaysOutlasts`
  follows, and with `Opened`, that both ends of a session stay open until its
  own handler closes them, `AlwaysCopied`. `UsesTicketsAndHub` says that the endpoint
  implements both modules, so that what is proved of either holds of the two together:
  `TicketsStand` is that no string is accepted twice and that rotation loses no ticket, `HubStands` that the hub is still a `Pipe` and
  its waiting map sound.
* `BanbookProofs`. The invariant is `TypeOK`, that the book is finite
  (`FiniteBook`; `Cardinality` says nothing otherwise), `GaugeCovers` and
  `SoftBansCapped`. The book's limit rests on what `Victims` takes out, and that
  the gauge never goes below zero on its covering the bans that run. `BansAlwaysHeld` adds
  a lemma on evictions: a banned victim means that every entry is banned
  (`BannedVictim`). All strike counts of a ladder are bounded by its rungs (`Rungs`).
* `AdmissionProofs`. `Banbook` is instantiated and so are its proofs: every step of
  a request or a sweep is one call of the book or none (`BookStep`). What `Admission`
  adds is a count. A fault either leaves a hit in its window or, when the window is full,
  a strike to be dealt, never both, since a refused hit is not recorded: the strikes a
  block has on record, the requests on their way to deal one (`Striking`) and the hits
  under any one of the block's fault keys together never exceed its faults
  (`Separate`). Because of that the fault that finds the window full brings the count to the limit
  and one more (`Earned`), which is not inductive without `Separate`. Both count only as
  far as the history does (`Told`). The handlers that wait to strike have to be finitely
  many for their number to mean something, and they are, because they come one by
  one; the handlers themselves need not be finitely many. `TypeCorrect` and `StrikesAlwaysEarned`
  follow. `LongBansAlwaysEarned` has one more invariant on top: a ban longer than the soft
  ladder's is no longer than the rung its entry has come to (`Fits`). `UsesBanbook` says
  that what is proved of the book alone holds under any load, and `BansStand` says it of
  `GaugeCovers`, `SoftBansCapped` and `BansHeld`. The last does not say that a ban is never
  cut short: a strike on the same key, of either ladder, replaces the end of the ban it
  finds, also by a sooner one, and an eviction from a book full of bans loses it.
* `ServerProofs`. `TypeOK` and `UpToDate` are inductive together: what was
  read under the recorded time is what the file holds, or is under way, or the change was
  within the grain and `missed` says so. `ReflexImplementsRateLimit` rests on what
  `Younger`, the pruning loop of the window, computes for any sequence: it is the only
  function that the loop's equation has (`LoopExists`, `LoopValues`), it follows the sequence as
  that grows (`YoungerSteps`), pruning twice is pruning once (`YoungerAgain`), and ageing
  before pruning is pruning at a lower limit (`YoungerAged`). So the hits pruned
  to the present are the abstract log, and a sweep that is late by any `Lag` prunes only
  what that pruning drops anyway.

The provers cannot apply theorems that take an operator to do induction with. Where
a recursive function is reasoned about, induction is for *sets* of numbers and of
sequences (`NatInd`, `SeqInd`), from the well-foundedness of `<`. `RelayProofs`,
`ServerProofs` and `AdmissionProofs` each have the first of these, so that none depends on another.

Only model-checked: the liveness properties (`LookupAnswered`, `DeadAgentForgotten`,
`EveryConnCloses`, `EveryPumpEnds`, `NoticeCatchesUp`, `StopsWhenAsked`), because fairness is out
of the prover's reach. Every invariant, every property of steps and every refinement that
a run finds to hold is a theorem. No `RECURSIVE` operator is used.

## Plan

1. `Registry`, `Directory`, `RegistryProofs`: done.
2. `Introducer`, `IntroducerProofs`: done. `CapRespected` is refuted,
   everything else that is not liveness is proved.
3. `Tickets`, `TicketsProofs`: done. `SingleUse` is refuted. A wall clock that steps back, apart from the
   monotonic one, is a possible extension: a spent ticket that the sweep forgot
   could then be unexpired again.
4. `Relay`, `Pipe`, `RelayProofs`: done.
5. `RelayAdmission`, `RelayAdmissionProofs`: done.
6. `Banbook`, `Window`, `RateLimit`, `Admission` and the proofs about them: done.
7. `NoticeStore`, `Server`, `ServerProofs`: done.

## Not modelled

TLS, ACME and certificates (that one cannot be had is `Fail`), the metrics listener
and its text, configuration (parsed once, then constant), address parsing, JSON
coding and the installers: calls of libraries, or pure functions without a state to
go wrong. Cryptography is taken to work: a signature verifies exactly under its key,
nonces and session ids are fresh. The clock does not step back.
