------------------------------- MODULE Tickets -------------------------------
(***************************************************************************)
(* internal/ticket: relay admission tickets, signed with a key that the    *)
(* periodic Sweep rotates, and spent on first use.  A restart of the       *)
(* server makes a new manager: the keys and the spent tickets are gone.    *)
(*                                                                         *)
(* An instant is [s |-> whole seconds, f |-> fraction], because the code   *)
(* mixes both resolutions: a ticket expires by time.Unix(), the keys by    *)
(* the full clock.  A signature is the number of the key that made it, so  *)
(* that two Issues of the same session, role and expiry under one key are  *)
(* one ticket (Ed25519 is deterministic).                                  *)
(*                                                                         *)
(* What Issue returns and Verify is given is a string, and a ticket has    *)
(* several: base64.RawURLEncoding, which is not Strict, skips line breaks  *)
(* and ignores the bits that are left over in the last character.  Every   *)
(* spelling is the same ticket to the signature, and a string of its own   *)
(* to the map of used ones.  Strings that are no spelling of an issued     *)
(* ticket fail the signature and change nothing: they are left out.        *)
(***************************************************************************)
EXTENDS Integers, FiniteSets

CONSTANTS
  SID,          \* session ids
  Role,         \* "agent", "client"
  Spelling,     \* the ways to spell a signed ticket; Issue returns one of them
  Frac,         \* fractions of a second the clock can tell apart, less one
  MaxIssueTTL,  \* maxIssueTTL, in seconds
  TTLs,         \* the lifetimes callers ask for, in seconds
  RotateEvery,  \* time between key rotations, in seconds
  Lag,          \* longest time, in seconds, from SweepOnce's time.Now() to
                \* Tickets.Sweep (it waits for Registry.Sweep in between)
  MaxTime,      \* bound: the last second of the clock
  MaxIssued,    \* bound: tickets issued in a behaviour
  MaxKey        \* bound: no restart after this many keys

ASSUME ClockAssumption == Frac \in Nat /\ Lag \in Nat /\ MaxTime \in Nat
ASSUME TTLAssumption == MaxIssueTTL \in Nat \ {0} /\ TTLs \subseteq Int
\* One hour against 31 seconds in the code.
ASSUME RotateAssumption == RotateEvery \in Nat /\ RotateEvery > MaxIssueTTL

VARIABLES
  now,       \* the wall clock
  key,       \* number of the current signing key
  boot,      \* number of the key the manager was made with
  prev,      \* number of the previous key while it is kept, or NoKey
  prevUntil, \* Manager.prevUntil
  rotated,   \* Manager.rotated
  used,      \* Manager.used: the strings that were accepted
  sweeping,  \* the now of a SweepOnce that has not reached Tickets.Sweep yet
  issued,    \* history: every ticket ever issued
  accepted,  \* history: every string Verify ever accepted
  reused     \* history: those it accepted more than once

keys == <<key, boot, prev, prevUntil, rotated>>
vars == <<now, keys, used, sweeping, issued, accepted, reused>>

NoKey == 0
Idle == [s |-> -1, f |-> 0]     \* no sweep under way

Instant == [s : Nat, f : 0..Frac]
Ticket == [sid : SID, role : Role, exp : Nat, key : Nat]
Encoded == [ticket : Ticket, spelling : Spelling]

TypeOK == /\ now \in Instant
          /\ key \in Nat \ {NoKey} /\ boot \in Nat \ {NoKey}
          /\ prev \in Nat
          /\ prevUntil \in Instant
          /\ rotated \in Instant
          /\ used \in SUBSET Encoded
          /\ sweeping \in Instant \cup {Idle}
          /\ issued \in SUBSET Ticket
          /\ accepted \in SUBSET Encoded
          /\ reused \in SUBSET accepted

-----------------------------------------------------------------------------
AtLeast(a, b) == a.s > b.s \/ (a.s = b.s /\ a.f >= b.f)
Plus(a, secs) == [s |-> a.s + secs, f |-> a.f]

\* Mutant: cuts long lifetimes only, and takes "not given" for a lifetime.
GrantedUnchecked(ttl) == IF ttl > MaxIssueTTL THEN MaxIssueTTL ELSE ttl

\* The lifetime Issue grants: never none, never more than MaxIssueTTL.
Granted(ttl) == IF ttl <= 0 \/ ttl > MaxIssueTTL THEN MaxIssueTTL ELSE ttl

\* The expiry test of Verify and Sweep, on whole seconds.
Over(exp, t) == t.s > exp

\* Mutant: the previous key is kept for the longest ticket lifetime, and not a
\* second more for the rounding of expiries.
KeepUntilShort(t) == Plus(t, MaxIssueTTL)

\* Until when a rotation at t keeps the key it replaces.
KeepUntil(t) == Plus(t, MaxIssueTTL + 1)

Init == /\ now = [s |-> 0, f |-> 0]
        /\ key = 1 /\ boot = 1
        /\ prev = NoKey
        /\ prevUntil = [s |-> 0, f |-> 0]
        /\ rotated = now
        /\ used = {}
        /\ sweeping = Idle
        /\ issued = {}
        /\ accepted = {}
        /\ reused = {}

Issue(sid, role, ttl) ==
  /\ Cardinality(issued) < MaxIssued
  /\ issued' = issued \cup {[sid |-> sid, role |-> role,
                             exp |-> now.s + Granted(ttl), key |-> key]}
  /\ UNCHANGED <<now, keys, used, sweeping, accepted, reused>>

\* Signed by a key the manager still knows, and not over.
Genuine(t) == t.key \in {key, prev} /\ ~Over(t.exp, now)

\* Verify that returns the ticket spelled by e.  The signature and the expiry are
\* those of the decoded ticket, the entry of the used map is the string.  A Verify
\* that returns an error changes nothing.
Verify(e) ==
  /\ Genuine(e.ticket)
  /\ e \notin used
  /\ used' = used \cup {e}
  /\ accepted' = accepted \cup {e}
  /\ reused' = reused \cup (accepted \cap {e})
  /\ UNCHANGED <<now, keys, sweeping, issued>>

\* SweepOnce reads the clock before it sweeps the registry.
SweepOnce ==
  /\ sweeping = Idle
  /\ sweeping' = now
  /\ UNCHANGED <<now, keys, used, issued, accepted, reused>>

RotationDue == AtLeast(sweeping, Plus(rotated, RotateEvery))

\* maybeRotateLocked, when it is due and the generator yields a key.  The key
\* it replaces is kept: its time is not over at the instant it begins.
Rotate ==
  /\ RotationDue
  /\ key' = key + 1 /\ UNCHANGED boot
  /\ prev' = key
  /\ prevUntil' = KeepUntil(sweeping)
  /\ rotated' = sweeping

\* No rotation: it is not due, or key generation failed.  The previous key goes
\* once its time is over.
KeepKey ==
  /\ UNCHANGED <<key, boot, rotated>>
  /\ IF prev # NoKey /\ AtLeast(sweeping, prevUntil)
       THEN prev' = NoKey /\ prevUntil' = [s |-> 0, f |-> 0]
       ELSE UNCHANGED <<prev, prevUntil>>

\* Manager.Sweep with the time SweepOnce read.
Sweep ==
  /\ sweeping # Idle
  /\ Rotate \/ KeepKey
  /\ used' = {e \in used : ~Over(e.ticket.exp, sweeping)}
  /\ sweeping' = Idle
  /\ UNCHANGED <<now, issued, accepted, reused>>

Successor(t) == IF t.f < Frac THEN [s |-> t.s, f |-> t.f + 1]
                              ELSE [s |-> t.s + 1, f |-> 0]

Tick ==
  /\ Successor(now).s <= MaxTime
  /\ sweeping # Idle => AtLeast(Plus(sweeping, Lag), Successor(now))
  /\ now' = Successor(now)
  /\ UNCHANGED <<keys, used, sweeping, issued, accepted, reused>>

\* Mutant: the key outlives the process.
RestartKeepingKey ==
  /\ used' = {} /\ sweeping' = Idle
  /\ UNCHANGED <<now, keys, issued, accepted, reused>>

\* The server is started again, after a crash or a stop, and New makes its
\* manager: what was spent is forgotten, and so is what it was signed with.
Restart ==
  /\ key < MaxKey
  /\ key' = key + 1 /\ boot' = key + 1
  /\ prev' = NoKey /\ prevUntil' = [s |-> 0, f |-> 0]
  /\ rotated' = now
  /\ used' = {} /\ sweeping' = Idle
  /\ UNCHANGED <<now, issued, accepted, reused>>

Next == \/ \E sid \in SID, role \in Role, ttl \in TTLs : Issue(sid, role, ttl)
        \/ \E t \in issued, s \in Spelling : Verify([ticket |-> t, spelling |-> s])
        \/ SweepOnce
        \/ Sweep
        \/ Tick
        \/ Restart

Spec == Init /\ [][Next]_vars

-----------------------------------------------------------------------------
\* Rotation never invalidates a ticket in flight (ticket.go:20-21): a ticket of
\* this process whose lifetime is not over, give or take the time a sweep was
\* delayed, has a signature by one of the two keys Verify tries.
LiveTicketsVerify ==
  \A t \in issued : t.key >= boot /\ now.s + Lag <= t.exp => t.key \in {key, prev}

\* What Verify accepted it never accepts again, as it was spelled: however the sweep
\* of the used map, which forgets strings by its own, older reading of the clock,
\* the rotation of keys, and restarts, which forget them all, fall between the two
\* calls.
SpentAsSpelled == reused = {}

\* PROTOCOL.md:67, "Ticket is single-use": Verify accepts each ticket at most once.
\* It does not hold: the used map knows a ticket in the one spelling it came in.
SingleUse == SpentAsSpelled /\ \A e, f \in accepted : e.ticket = f.ticket => e = f
=============================================================================
