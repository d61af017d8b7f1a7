---------------------------- MODULE StorageGrid ----------------------------
(***************************************************************************)
(* The time series the load daemon writes for every OneFlow service: one   *)
(* cpu_sum row per cycle and, when the SDK can forecast, one forecast row  *)
(* "with same timestamp".  The timestamps are not the time of the write    *)
(* but points of a grid: last + interval, or now() when the process has no *)
(* last timestamp or is too far behind.                                    *)
(*                                                                         *)
(* Time is a natural number; Pass lets it advance between any two steps,   *)
(* so every call of the cycle may take any time.  A row that was written   *)
(* is on disk and survives Restart; `last` is a dict of the process and    *)
(* does not.                                                               *)
(***************************************************************************)
EXTENDS Integers, FiniteSets

CONSTANTS
    Services,   \* service ids with a Frontend role
    Interval,   \* ESTIMATED_LOAD_UPDATE_INTERVAL_SECONDS
    MaxGap,     \* MAX_STORAGE_GAP_SECONDS
    Sleep,      \* the --interval argument of the daemon
    MaxNow      \* bound on the clock

\* The unit file passes --interval 30 and the default configuration says 30.
ASSUME GridAssumption ==
    /\ Interval \in Nat \ {0}
    /\ Sleep \in Nat /\ Sleep >= Interval
    /\ MaxGap \in Nat /\ MaxGap >= Interval
    /\ MaxNow \in Nat

None == -1

VARIABLES
    now,        \* the clock
    last,       \* _last_cpu_sum_time_per_service, None when absent
    newest,     \* per service, timestamp of its newest cpu_sum row on disk
    forecast,   \* per service, timestamp of its newest forecast row on disk
    todo,       \* services the running cycle still has to store
    phase,      \* "sleep" between two cycles, "cycle" in one
    wake        \* when the daemon wakes from time.sleep(interval)

vars == <<now, last, newest, forecast, todo, phase, wake>>

----------------------------------------------------------------------------

Init ==
    /\ now = 0
    /\ last = [s \in Services |-> None]
    /\ newest = [s \in Services |-> None]
    /\ forecast = [s \in Services |-> None]
    /\ todo = {}
    /\ phase = "sleep"
    /\ wake = 0

\* Mutant: the gap is measured but the grid restarts an interval ahead.
NextStorageTimestampAhead(s) ==
    IF last[s] = None \/ now - last[s] > MaxGap
    THEN now + Interval ELSE last[s] + Interval

\* Mutant: the grid walks backwards.
NextStorageTimestampBack(s) ==
    IF last[s] = None \/ now - last[s] > MaxGap THEN now ELSE last[s] - Interval

\* Mutant: a new grid starts at the beginning of the interval that was measured.
NextStorageTimestampBegin(s) ==
    IF last[s] = None \/ now - last[s] > MaxGap
    THEN IF now < Interval THEN 0 ELSE now - Interval
    ELSE last[s] + Interval

NextStorageTimestamp(s) ==
    IF last[s] = None \/ now - last[s] > MaxGap THEN now ELSE last[s] + Interval

\* The daemon wakes up and collects the metrics; collecting may fail part of the
\* way and then returns the services it got to.
BeginCycle ==
    /\ phase = "sleep"
    /\ now >= wake
    /\ \E S \in SUBSET Services : todo' = S
    /\ phase' = "cycle"
    /\ UNCHANGED <<now, last, newest, forecast, wake>>

\* One service: the timestamp, the cpu_sum row, the forecast row.  Both
\* stores catch their own exceptions, so the forecast is stored whether or
\* not the cpu_sum row was.
StoreService(s) ==
    /\ s \in todo
    /\ todo' = todo \ {s}
    /\ LET ts == NextStorageTimestamp(s) IN
         /\ \/ /\ newest' = [newest EXCEPT ![s] = ts]
               /\ last' = [last EXCEPT ![s] = ts]
            \/ UNCHANGED <<newest, last>>
         /\ \/ forecast' = [forecast EXCEPT ![s] = ts]
            \/ UNCHANGED forecast
    /\ UNCHANGED <<now, phase, wake>>

EndCycle ==
    /\ phase = "cycle"
    /\ todo = {}
    /\ phase' = "sleep"
    /\ wake' = now + Sleep
    /\ UNCHANGED <<now, last, newest, forecast, todo>>

\* A crash, a stop, a reboot.  Starting again takes time.
Restart ==
    /\ now < MaxNow
    /\ now' = now + 1
    /\ wake' = now + 1
    /\ last' = [s \in Services |-> None]
    /\ todo' = {}
    /\ phase' = "sleep"
    /\ UNCHANGED <<newest, forecast>>

Pass ==
    /\ now < MaxNow
    /\ now' = now + 1
    /\ UNCHANGED <<last, newest, forecast, todo, phase, wake>>

Next ==
    \/ BeginCycle
    \/ \E s \in Services : StoreService(s)
    \/ EndCycle
    \/ Restart
    \/ Pass

Spec == Init /\ [][Next]_vars

----------------------------------------------------------------------------
(* Properties *)

TypeOK ==
    /\ now \in Nat
    /\ last \in [Services -> Nat \cup {None}]
    /\ newest \in [Services -> Nat \cup {None}]
    /\ forecast \in [Services -> Nat \cup {None}]
    /\ todo \in SUBSET Services
    /\ phase \in {"sleep", "cycle"}
    /\ wake \in Nat

\* get_next_storage_timestamp adds a fixed interval to the last timestamp
\* whatever the clock says.  Still no row, actual or forecast, is ever
\* stamped in the future, however long the calls of a cycle take and however
\* often a store fails: the sleep between cycles is at least the interval.
NeverAhead ==
    \A s \in Services : newest[s] <= now /\ forecast[s] <= now

\* A new cpu_sum row is later than every row the service already has, also
\* when the daemon restarted in between and lost its last timestamps.
StrictlyIncreasing ==
    [][\A s \in Services : newest'[s] # newest[s] => newest'[s] > newest[s]]_vars
============================================================================
