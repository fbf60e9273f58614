------------------------------- MODULE Banbook -------------------------------
(***************************************************************************)
(* internal/ratelimit/guard.go: the book of progressive bans.  Every       *)
(* method holds Banbook.mu throughout and is one action.                   *)
(*                                                                         *)
(* An entry keeps instants relative to the present: until counts down to   *)
(* the end of the ban, struck and seen count up since lastStrike and       *)
(* lastSeen, each only as far as some comparison of the code can tell.     *)
(***************************************************************************)
EXTENDS Integers, Sequences, FiniteSets

CONSTANTS
  Key,         \* what BanKey returns: IPv4 addresses, IPv6 /64 blocks
  Ladder,      \* Banbook.ladder, for Strike
  SoftLadder,  \* Banbook.softLadder, for SoftStrike
  Decay,       \* Banbook.strikeDecay
  MaxKeys,     \* Banbook.maxKeys; 0 is unlimited
  Lag,         \* how late Sweep may act on the time it was called with
  MaxActive    \* bound: the gauge, which strikes raise until a sweep corrects it

Rising(ladder) == \A i, j \in DOMAIN ladder : i < j => ladder[i] <= ladder[j]
Top(ladder) == ladder[Len(ladder)]

\* Rungs rise, SoftLadder is the gentler one, and a strike is remembered at
\* least as long as its ban runs.
ASSUME LadderAssumption ==
  /\ Ladder \in Seq(Nat \ {0}) /\ SoftLadder \in Seq(Nat \ {0})
  /\ Len(Ladder) > 0 /\ Len(SoftLadder) > 0
  /\ Rising(Ladder) /\ Rising(SoftLadder)
  /\ Top(SoftLadder) <= Top(Ladder) /\ Top(Ladder) <= Decay
ASSUME BoundAssumption == {Decay, MaxKeys, Lag, MaxActive} \subseteq Nat

VARIABLES
  entries,    \* Banbook.entries: from the keys that have one
  bansActive  \* Banbook.bansActive, a gauge

vars == <<entries, bansActive>>

OldAge == Decay + Lag + 1     \* older is the same to every comparison

Entry == [strikes : 0..Len(Ladder), soft : 0..Len(SoftLadder),
          until : -Lag..Top(Ladder), struck : 0..OldAge, seen : 0..OldAge]

Banned(e) == e.until > 0
BannedKeys == {k \in DOMAIN entries : Banned(entries[k])}

TypeOK ==
  /\ DOMAIN entries \subseteq Key
  /\ \A k \in DOMAIN entries : entries[k] \in Entry
  /\ bansActive \in Nat
  /\ MaxKeys > 0 => Cardinality(DOMAIN entries) <= MaxKeys

Init == entries = [k \in {} |-> 0] /\ bansActive = 0

-----------------------------------------------------------------------------
Saw(k) == entries' = [entries EXCEPT ![k].seen = 0]

\* What Blocked answers, and what it leaves behind.
IsBlocked(k) == k \in BannedKeys

Blocked(k) ==
  /\ IF k \in DOMAIN entries THEN Saw(k) ELSE UNCHANGED entries
  /\ UNCHANGED bansActive

\* The count of rejections is for the metrics only.
NoteRejected(k) ==
  /\ IF IsBlocked(k) THEN Saw(k) ELSE UNCHANGED entries
  /\ UNCHANGED bansActive

\* Neither banned nor struck nor seen for a decay period, as of lag ago.
Idle(e, lag) ==
  e.until <= -lag /\ e.struck - lag > Decay /\ e.seen - lag > Decay

\* Mutant: whoever was not seen for longest has to go, banned or not.
RankLastSeen(e) == -e.seen

\* The instant an entry stops being of use: the end of its ban or, not banned,
\* when it was last seen.
Rank(e) == IF Banned(e) THEN e.until ELSE -e.seen

\* Mutant: one entry too many.
NoRoomLate == MaxKeys > 0 /\ Cardinality(DOMAIN entries) > MaxKeys

NoRoom == MaxKeys > 0 /\ Cardinality(DOMAIN entries) >= MaxKeys

\* ensureCapacityLocked: an idle entry (the map has no order), else one of
\* those with the lowest rank.
Victims ==
  LET idle == {k \in DOMAIN entries : Idle(entries[k], 0)}
      lowest == {k \in DOMAIN entries :
                   \A j \in DOMAIN entries : Rank(entries[k]) <= Rank(entries[j])}
  IN IF idle # {} THEN idle ELSE lowest

Without(gone) == [k \in DOMAIN entries \ gone |-> entries[k]]

\* The keys that have to go before k can have an entry.
Evicted(k) == IF k \notin DOMAIN entries /\ NoRoom THEN {{v} : v \in Victims} ELSE {{}}

NewEntry == [strikes |-> 0, soft |-> 0, until |-> -Lag, struck |-> 0, seen |-> 0]

\* The entry a strike finds: a fresh one, or one whose strikes it forgets after
\* a clean decay period.
Found(k) ==
  IF k \notin DOMAIN entries THEN NewEntry
  ELSE IF entries[k].struck > Decay
         THEN [entries[k] EXCEPT !.strikes = 0, !.soft = 0]
         ELSE entries[k]

NextRung(n, ladder) == IF n < Len(ladder) THEN n + 1 ELSE n

\* Mutant: soft strikes climb the ladder for strikes.
StruckHard(e, soft) ==
  LET n == NextRung(IF soft THEN e.soft ELSE e.strikes, Ladder)
  IN [strikes |-> IF soft THEN e.strikes ELSE n, soft |-> IF soft THEN n ELSE e.soft,
      until |-> Ladder[n], struck |-> 0, seen |-> 0]

\* strikeLocked: up one rung of one ladder; the ban is that rung's, whatever was
\* left of the one before.
Struck(e, soft) ==
  LET hard == IF soft THEN e.strikes ELSE NextRung(e.strikes, Ladder)
      mild == IF soft THEN NextRung(e.soft, SoftLadder) ELSE e.soft
  IN [strikes |-> hard, soft |-> mild,
      until |-> IF soft THEN SoftLadder[mild] ELSE Ladder[hard],
      struck |-> 0, seen |-> 0]

\* Mutant: the gauge goes down with every eviction.
GaugeAfterAny(gone, e) == bansActive - Cardinality(gone) + (IF Banned(e) THEN 0 ELSE 1)

GaugeAfter(gone, e) ==
  bansActive - Cardinality(gone \cap BannedKeys) + (IF Banned(e) THEN 0 ELSE 1)

StrikeAs(k, soft) ==
  bansActive < MaxActive /\ \E gone \in Evicted(k) :
    LET e == Found(k)
    IN /\ entries' = [j \in (DOMAIN entries \ gone) \cup {k} |->
                        IF j = k THEN Struck(e, soft) ELSE entries[j]]
       /\ bansActive' = GaugeAfter(gone, e)

Strike(k) == StrikeAs(k, FALSE)
SoftStrike(k) == StrikeAs(k, TRUE)

\* Drops idle entries and sets the gauge right, as of lag ago.
Sweep(lag) ==
  /\ entries' = Without({k \in DOMAIN entries : Idle(entries[k], lag)})
  /\ bansActive' = Cardinality({k \in DOMAIN entries : entries[k].until > -lag})

Older(t) == IF t < OldAge THEN t + 1 ELSE t

Tick ==
  /\ entries' = [k \in DOMAIN entries |->
       [entries[k] EXCEPT !.until = IF @ > -Lag THEN @ - 1 ELSE @,
                          !.struck = Older(@), !.seen = Older(@)]]
  /\ UNCHANGED bansActive

Next == \/ \E k \in Key : Blocked(k) \/ NoteRejected(k) \/ Strike(k) \/ SoftStrike(k)
        \/ \E lag \in 0..Lag : Sweep(lag)
        \/ Tick

Spec == Init /\ [][Next]_vars

-----------------------------------------------------------------------------
\* The gauge never shows fewer bans than there are, whichever strikes, evictions
\* and late sweeps come between two readings (guard.go:199-201, 230-232, 240-252).
GaugeCovers == bansActive >= Cardinality(BannedKeys)

\* A5 (guard.go:21-22): without an auth strike on record no ban is longer than
\* the soft ladder's, evictions, decay and other keys' strikes notwithstanding.
SoftBansCapped ==
  \A k \in DOMAIN entries :
    entries[k].until > Top(SoftLadder) => entries[k].strikes > 0

\* A ban that runs keeps its entry, unless the book is full, every entry in it
\* is banned and no ban ends sooner (guard.go:160-161); and while it has its entry
\* nothing moves its end but time and the strikes dealt to its own key, which may
\* bring it forward, since a strike of either ladder replaces the ban it finds.
BansHeld ==
  [][\A k \in BannedKeys :
       IF k \in DOMAIN entries'
         THEN \/ entries'[k].until \in {entries[k].until, entries[k].until - 1}
              \/ entries'[k].struck = 0
         ELSE /\ NoRoom /\ BannedKeys = DOMAIN entries
              /\ \A j \in BannedKeys : entries[k].until <= entries[j].until
     ]_vars
=============================================================================
