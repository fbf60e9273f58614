----------------------------- MODULE NoticeStore -----------------------------
(***************************************************************************)
(* internal/notice: the operator's announcement, kept in step with a file  *)
(* by its modification time.  Refresh holds Store.mu throughout, but the   *)
(* file is not locked: it may change between the Stat and the ReadFile,    *)
(* and more than once within the grain of modification times.              *)
(***************************************************************************)
EXTENDS Naturals

CONSTANTS
  Doc,        \* contents with an announcement that can be shown
  Blank,      \* any other content: empty, half written, disabled, invalid
  Big,        \* content of more than MaxFileBytes
  Absent,     \* no file
  None,       \* no announcement
  MaxGrain,   \* bound: the file system's clock, in grains
  MaxWrites,  \* bound: changes to the file
  MaxErrors   \* bound: failing system calls

VARIABLES
  grain,    \* the file system's clock
  content,  \* what is in the file
  time,     \* its modification time
  mtime,    \* Store.mtime; 0 is the zero time
  cur,      \* Store.cur
  refresh,  \* where Refresh is: "idle" or about to "read"
  writes, errors,   \* changes and failures so far
  missed    \* history: the content has not been read, and the modification
            \* time does not tell

file == <<content, time, writes>>
store == <<mtime, cur, refresh>>

TypeOK ==
  /\ grain \in 1..MaxGrain
  /\ content \in Doc \cup {Blank, Big, Absent} /\ time \in 1..MaxGrain
  /\ mtime \in 0..MaxGrain /\ cur \in Doc \cup {None}
  /\ refresh \in {"idle", "read"}
  /\ writes \in 0..MaxWrites /\ errors \in 0..MaxErrors /\ missed \in BOOLEAN

\* New, on whatever file the last process left.
Init ==
  /\ grain = 1 /\ content \in Doc \cup {Blank, Big, Absent} /\ time = 1
  /\ mtime = 0 /\ cur = None /\ refresh = "idle"
  /\ writes = 0 /\ errors = 0 /\ missed = FALSE

\* What is to be shown of a content.
Shown(c) == IF c \in Doc THEN c ELSE None

-----------------------------------------------------------------------------
\* The file is gone, or Stat fails: as if there had never been one.
StatFails ==
  /\ refresh = "idle"
  /\ content = Absent \/ errors < MaxErrors
  /\ errors' = IF content = Absent THEN errors ELSE errors + 1
  /\ mtime' = 0 /\ cur' = None
  /\ UNCHANGED <<grain, file, refresh, missed>>

\* Mutant: only a later time is a change.
NewTimeLater == time > mtime

NewTime == mtime = 0 \/ time # mtime

\* Mutant: a file that is too big leaves things as they were.
StatKeeping ==
  /\ refresh = "idle" /\ content # Absent
  /\ mtime' = time
  /\ refresh' = IF NewTime /\ content # Big THEN "read" ELSE "idle"
  /\ UNCHANGED <<grain, file, cur, errors, missed>>

\* The time is recorded before the content is read; a file known to be too big
\* is not read.
Stat ==
  /\ refresh = "idle" /\ content # Absent
  /\ IF ~NewTime THEN UNCHANGED store
     ELSE /\ mtime' = time
          /\ IF content = Big THEN cur' = None /\ UNCHANGED refresh
             ELSE refresh' = "read" /\ UNCHANGED cur
  /\ UNCHANGED <<grain, file, errors, missed>>

Read ==
  /\ refresh = "read"
  /\ refresh' = "idle"
  /\ cur' = Shown(content)
  /\ missed' = FALSE
  /\ UNCHANGED <<grain, file, mtime, errors>>

ReadFails ==
  /\ refresh = "read" /\ content # Absent /\ errors < MaxErrors
  /\ refresh' = "idle" /\ cur' = None
  /\ errors' = errors + 1
  /\ missed' = (time = mtime)
  /\ UNCHANGED <<grain, file, mtime>>

-----------------------------------------------------------------------------
\* The operator's editor or copy: in place, with the present time, in one write
\* or through a blank or half written file; or a rename of a file that keeps the
\* time it had.
Write(c, t) ==
  /\ writes < MaxWrites
  /\ content' = c /\ time' = t /\ writes' = writes + 1
  /\ missed' = (t = mtime)
  /\ UNCHANGED <<grain, store, errors>>

Remove ==
  /\ content # Absent /\ writes < MaxWrites
  /\ content' = Absent /\ writes' = writes + 1
  /\ missed' = FALSE
  /\ UNCHANGED <<grain, time, store, errors>>

Operator == Remove \/ \E c \in Doc \cup {Blank, Big}, t \in 1..grain : Write(c, t)

Tick == /\ grain' = IF grain < MaxGrain THEN grain + 1 ELSE grain
        /\ UNCHANGED <<file, store, errors, missed>>

-----------------------------------------------------------------------------
\* When the store takes the file for known, it shows what is in it, unless the
\* modification time could not tell (RENDEZVOUS.md:86, "hot-reloaded on mtime").
\* The time recorded must never be later than what was read (notice.go:136, 141).
UpToDate ==
  refresh = "idle" /\ content # Absent /\ time = mtime => missed \/ cur = Shown(content)
=============================================================================
