----------------------------- MODULE SchemaInit -----------------------------
(***************************************************************************)
(* How the processes that share the SQLite file bring its one table into   *)
(* being.  The frontend and the optimizer (which imports the frontend's    *)
(* DBManager) insist on the composite primary key and DROP and CREATE the  *)
(* table otherwise; the load daemon has a DBManager of its own, which      *)
(* CREATEs the table IF NOT EXISTS, with the key of an earlier version.    *)
(* Python's sqlite3 runs DDL in autocommit, so each statement is a step.   *)
(* A failed statement ends the process; systemd starts it again.           *)
(***************************************************************************)
EXTENDS Naturals

CONSTANTS Frontends,   \* the processes that insert assignments
          Optimizers,  \* these use the frontend's DBManager too
          Daemons,     \* the load daemon, with a DBManager of its own
          MaxRestarts  \* bound: restarts by an administrator

Strict == Frontends \cup Optimizers

ASSUME ProcessAssumption == 
    Strict # {} /\ Strict \cap Daemons = {} /\ MaxRestarts \in Nat

Procs == Strict \cup Daemons

VARIABLES
    schema,  \* "none", "old" (PRIMARY KEY device_id) or "composite"
    filled,  \* "yes" when the table holds assignments
    pc,      \* the next statement of each process
    waits,   \* the starts in progress that end before a failed one is repeated
    restarts \* restarts by an administrator so far

vars == <<schema, filled, pc, waits, restarts>>

Ended == {"running", "failed"}

Starting == {q \in Procs : pc[q] \notin Ended}

\* RestartSec=5 in the systemd units is much longer than a start takes, so the
\* starts under way when one fails have ended when that one is repeated.
Goto(p, l) ==
    /\ pc' = [pc EXCEPT ![p] = l]
    /\ waits' = [q \in Procs |->
                   IF q # p THEN IF l \in Ended THEN waits[q] \ {p} ELSE waits[q]
                   ELSE IF l = "failed" THEN Starting \ {p} ELSE waits[p]]

\* The file a start finds: none, that of an earlier version, or the last run's.
Init ==
    /\ schema \in {"none", "old", "composite"}
    /\ filled \in IF schema = "none" THEN {"no"} ELSE {"no", "yes"}
    /\ pc = [p \in Procs |-> "start"]
    /\ waits = [p \in Procs |-> {}]
    /\ restarts = 0

\* SELECT name FROM sqlite_master
SelectTable(p) ==
    /\ p \in Strict
    /\ pc[p] = "start"
    /\ Goto(p, IF schema = "none" THEN "create" ELSE "pragma")
    /\ UNCHANGED <<schema, filled, restarts>>

\* Mutant: a table with a wrong key is taken as it is.
TakeTable(p) ==
    /\ p \in Strict
    /\ pc[p] = "pragma"
    /\ Goto(p, "cleanup")
    /\ UNCHANGED <<schema, filled, restarts>>

\* Mutant: the key is compared with its first column only.
PragmaFirstColumn(p) ==
    /\ p \in Strict
    /\ pc[p] = "pragma"
    /\ Goto(p, IF schema = "old" THEN "cleanup" ELSE "drop")
    /\ UNCHANGED <<schema, filled, restarts>>

\* PRAGMA table_info: no columns at all when the table has gone meanwhile.
PragmaTableInfo(p) ==
    /\ p \in Strict
    /\ pc[p] = "pragma"
    /\ Goto(p, IF schema = "composite" THEN "cleanup" ELSE "drop")
    /\ UNCHANGED <<schema, filled, restarts>>

DropTable(p) ==
    /\ pc[p] = "drop"
    /\ Goto(p, IF schema = "none" THEN "failed" ELSE "create")
    /\ schema' = "none"
    /\ filled' = "no"
    /\ UNCHANGED restarts

CreateTable(p) ==
    /\ pc[p] = "create"
    /\ Goto(p, IF schema = "none" THEN "cleanup" ELSE "failed")
    /\ schema' = IF schema = "none" THEN "composite" ELSE schema
    /\ UNCHANGED <<filled, restarts>>

CreateIfNotExists(p) ==
    /\ p \in Daemons
    /\ pc[p] = "start"
    /\ Goto(p, "cleanup")
    /\ schema' = IF schema = "none" THEN "old" ELSE schema
    /\ UNCHANGED <<filled, restarts>>

\* The DELETE of __init__ needs the table.
CleanupTable(p) ==
    /\ pc[p] = "cleanup"
    /\ Goto(p, IF schema = "none" THEN "failed" ELSE "running")
    /\ UNCHANGED <<schema, filled, restarts>>

\* Mutant: the insert does not depend on the table.
InsertBlindly(p) ==
    /\ p \in Frontends
    /\ pc[p] = "running"
    /\ filled' = "yes"
    /\ UNCHANGED <<schema, pc, waits, restarts>>

\* A running frontend inserts assignments.
InsertAssignment(p) ==
    /\ p \in Frontends
    /\ pc[p] = "running"
    /\ schema # "none"
    /\ filled' = "yes"
    /\ UNCHANGED <<schema, pc, waits, restarts>>

\* systemd starts a failed process again.
StartProcess(p) ==
    /\ pc[p] = "failed"
    /\ waits[p] = {}
    /\ Goto(p, "start")
    /\ UNCHANGED <<schema, filled, restarts>>

\* The control script's restart.
RestartProcess(p) ==
    /\ pc[p] = "running"
    /\ restarts < MaxRestarts
    /\ restarts' = restarts + 1
    /\ Goto(p, "start")
    /\ UNCHANGED <<schema, filled>>

Step(p) ==
    \/ SelectTable(p)
    \/ PragmaTableInfo(p)
    \/ DropTable(p)
    \/ CreateTable(p)
    \/ CreateIfNotExists(p)
    \/ CleanupTable(p)

Next == \E p \in Procs : Step(p) \/ InsertAssignment(p) \/ StartProcess(p)
                            \/ RestartProcess(p)

Spec == Init /\ [][Next]_vars

\* Processes run, and the systemd units have Restart=on-failure.
FairSpec ==
    /\ Spec
    /\ \A p \in Procs :
         WF_vars(Step(p)) /\ WF_vars(StartProcess(p))

----------------------------------------------------------------------------
\* The kinds of table, of processes and of starts; a table that is not there holds
\* no assignments.
TypeOK ==
    /\ schema \in {"none", "old", "composite"}
    /\ filled \in IF schema = "none" THEN {"no"} ELSE {"no", "yes"}
    /\ restarts \in 0..MaxRestarts
    /\ waits \in [Procs -> SUBSET Procs]
    /\ pc \in [Procs -> {"start", "pragma", "drop", "create", "cleanup",
                         "running", "failed"}]

\* However the starts interleave, and whoever fails on the way, the table ends up
\* with the composite key for good.
SchemaConverges == <>[](schema = "composite")

Settled == schema = "composite" /\ \A p \in Procs : pc[p] # "drop"

\* The point of no return: once the table has the composite key and nobody is
\* about to drop it, no start or restart of any process takes it, or the assignments
\* in it, away again.  Before that point a start may drop rows that are in a good
\* table: it examined the key before another start recreated the table.
SettledStays ==
    [][Settled => Settled' /\ (filled = "yes" => filled' = "yes")]_vars
=============================================================================
