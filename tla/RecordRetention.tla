--------------------------- MODULE RecordRetention ---------------------------
(***************************************************************************)
(* What "older than DB_CLEANUP_DAYS" comes to.  A row's last_seen is the   *)
(* local time of the host as Python's isoformat writes it, with a T        *)
(* between date and time; cleanup_old_records compares it, as text, with   *)
(* SQLite's datetime('now', '-N days'), which is in UTC and has a space    *)
(* there.  Module CognitState has cleanup at the grain of days; this one   *)
(* shows where that grain comes from.                                      *)
(***************************************************************************)
EXTENDS Integers

CONSTANTS
    Rows,
    Day,              \* ticks in a day
    DB_CLEANUP_DAYS,
    Offset,           \* local time minus UTC, in ticks
    Start,            \* the time the host is first looked at
    MaxTime           \* bound on the clock

ASSUME RetentionAssumption ==
    /\ Day \in Nat \ {0}
    /\ DB_CLEANUP_DAYS \in Nat
    /\ Offset \in Int
    /\ Start \in Int
    /\ MaxTime \in Int

VARIABLES
    now,        \* the clock, UTC
    last_seen,  \* the text in the column, per row
    touched     \* history: when it was written, UTC

vars == <<now, last_seen, touched>>

\* A time as text: date, separator and time of day, compared in this order.
Text(t, sep) == [date |-> t \div Day, sep |-> sep, time |-> t % Day]
Space == 0
T == 1

isoformat(t) == Text(t + Offset, T)

TextLeq(a, b) ==
    \/ a.date < b.date
    \/ a.date = b.date /\ a.sep < b.sep
    \/ a.date = b.date /\ a.sep = b.sep /\ a.time <= b.time

Init ==
    /\ now = Start
    /\ last_seen = [r \in {} |-> isoformat(Start)]
    /\ touched = [r \in {} |-> Start]

Tick ==
    /\ now < MaxTime
    /\ now' = now + 1
    /\ UNCHANGED <<last_seen, touched>>

\* INSERT, UPDATE and update_last_seen all write the current local time.
TouchRow(r) ==
    /\ last_seen' = [q \in DOMAIN last_seen \cup {r} |->
                       IF q = r THEN isoformat(now) ELSE last_seen[q]]
    /\ touched' = [q \in DOMAIN touched \cup {r} |->
                       IF q = r THEN now ELSE touched[q]]
    /\ UNCHANGED now

\* Mutants: the limit is a day too late, or a day too early.
CutoffLate == Text(now - (DB_CLEANUP_DAYS - 1) * Day, Space)
CutoffEarly == Text(now - (DB_CLEANUP_DAYS + 1) * Day, Space)

\* datetime('now', '-N days')
Cutoff == Text(now - DB_CLEANUP_DAYS * Day, Space)

Kept == {r \in DOMAIN last_seen : ~TextLeq(last_seen[r], Cutoff)}

cleanup_old_records ==
    /\ last_seen' = [r \in Kept |-> last_seen[r]]
    /\ touched' = [r \in Kept |-> touched[r]]
    /\ UNCHANGED now

Next == Tick \/ (\E r \in Rows : TouchRow(r)) \/ cleanup_old_records

Spec == Init /\ [][Next]_vars

----------------------------------------------------------------------------
Age(r) == now - touched[r]

\* db_manager.py:99 "Delete records older than configured days": a row that
\* disappears was last seen more than DB_CLEANUP_DAYS days ago.
DeletesOnlyOld ==
    [][\A r \in DOMAIN touched \ DOMAIN touched' :
          Age(r) > DB_CLEANUP_DAYS * Day]_vars

\* And cleanup does not leave a row for more than one day above that.
DeletesWithinADay ==
    [][cleanup_old_records =>
         \A r \in DOMAIN touched' : now - touched'[r] < (DB_CLEANUP_DAYS + 1) * Day]_vars
==============================================================================
