---------------------------- MODULE CognitSystem ----------------------------
(***************************************************************************)
(* The frontend, the optimizer and the load daemon's cleanup over the      *)
(* state they share, with the passing of days and the removal of clusters. *)
(* No lock spans two processes (_write_lock is per process and SQLite      *)
(* serialises statements only), so every step may come between any two     *)
(* steps of another process.                                               *)
(***************************************************************************)
EXTENDS Frontend, Optimizer

vars == <<shared, fe, opt, pending>>

Init ==
    /\ InitShared
    /\ fe = Idle
    /\ opt = Sleeping
    /\ pending = EmptyDict

Environment ==
    \/ NextDay
    \/ \E c \in Clusters : RemoveCluster(c)
    \/ DaemonCleanup

Next ==
    \/ FrontendNext /\ UNCHANGED optVars
    \/ OptimizerNext /\ UNCHANGED fe
    \/ Environment /\ UNCHANGED <<fe, optVars>>

Spec == Init /\ [][Next]_vars

\* A request in service is not suspended, and crashes do not hit the same point
\* of a request every time; every device keeps asking for its cluster.
Fairness ==
    /\ SF_vars(Touch /\ UNCHANGED optVars)
    /\ SF_vars(SelectCluster /\ UNCHANGED optVars)
    /\ SF_vars(ReadCardinality /\ UNCHANGED optVars)
    /\ SF_vars(ScaleFaas /\ UNCHANGED optVars)
    /\ SF_vars(InsertRow /\ UNCHANGED optVars)
    /\ SF_vars(UpdateRow /\ UNCHANGED optVars)
    /\ WF_vars(Serve /\ UNCHANGED optVars)
    /\ \A id \in DocIds : SF_vars(get_edge_cluster_frontends(id) /\ UNCHANGED optVars)

FairSpec == Spec /\ Fairness

----------------------------------------------------------------------------
TypeOK ==
    /\ SharedTypeOK
    /\ FeType
    /\ OptType
    /\ IsDict(pending, Pairs, Nat)

KeyOf(r) == <<r.dev, r.flavour>>

\* The contract of the assignment table, which the three processes write.
Assignments == INSTANCE AssignmentTable WITH
    rows <- table, known <- held, date <- today, KeepDays <- DB_CLEANUP_DAYS

\* The table changes as if it had one careful writer: whatever a process read
\* before, and however long ago, each of its steps writes one whole row for the
\* row's own device, renews one, or purges exactly what has expired.
KeepsContract == Assignments!Spec

\* The requirement stored in a row is one of the row's own device and flavour:
\* neither a PUT that rewrites the document nor the optimizer's write of rows
\* it read earlier mixes two devices (main.py, db_adapter.py).
RowMatchesKey == \A k \in DOMAIN table : KeyOf(table[k].req) = k

\* app_req_id and app_req_json of a row belong together: the document did hold
\* that requirement.  Both columns are always written as a pair, also by the
\* optimizer, from a copy that may be stale.
SnapshotIsHistorical ==
    \A k \in DOMAIN table : table[k].req \in held[table[k].reqId]

\* The cluster of a row was allowed by a document of the row's own device: the
\* optimizer, which finds clusters for the documents named in rows it read at
\* the start of its cycle and writes them into rows it reads at the end, never
\* gives a device what another one's document allows.  (The requirement in the
\* row itself may be a later one: see ReplyMeetsRequirements.)
PlacedForOwnDocument ==
    \A k \in DOMAIN table : Assignments!Suits(k, table[k].cluster)

\* The frontend's INSERT never meets an existing primary key, although it
\* looked the row up before a cluster search and a scale call of up to two
\* minutes, under no lock the other processes respect.
InsertNeverConflicts == fe.pc = "insert" => fe.key \notin DOMAIN table

\* A row the frontend has found and is about to UPDATE can only have vanished
\* because the device had not been seen for DB_CLEANUP_DAYS: a cleanup in
\* another process never takes the row of a live device from under a request.
MissOnlyIfExpired ==
    fe.pc \in {"touch", "select_changed", "update"} =>
        fe.key \in DOMAIN table \/ fe.seen + DB_CLEANUP_DAYS < today

\* Whatever retries were merged in, no target is below the number of devices
\* of that flavour the solution places on the cluster ("fresh optimizer
\* decisions take priority").
TargetCoversAllocation ==
    opt.pc = "scale" =>
        \A p \in DOMAIN opt.targets :
            opt.targets[p] >= Cardinality({k \in DOMAIN opt.alloc :
                                             <<opt.alloc[k], k[2]>> = p})

\* The optimizer moves a device only to a cluster that, at that very moment,
\* runs at least one FaaS VM of the device's flavour (or was just removed),
\* whatever the frontend and timed-out calls did to the role meanwhile.
MovedToServingCluster ==
    [][\A k \in DOMAIN table \cap DOMAIN table' :
         opt.pc = "write" /\ opt' # opt /\ table'[k].cluster # table[k].cluster
           => \/ faas[table'[k].cluster][k[2]] >= 1
              \/ table'[k].cluster \notin pool]_vars

\* A requirement that a device has settled on, and that some cluster meets,
\* reaches the assignment table, again and again if a stale write of the
\* optimizer, a cleanup or a crash takes it away.
RequirementsConverge ==
    \A id \in DocIds, r \in Reqs :
        /\ r.dev # NoDevice
        /\ r.want \notin NoGeo
        /\ <>[](id \in DOMAIN docs /\ docs[id] = r)
        /\ <>[](Feasible(r) # {})
        => []<>(KeyOf(r) \in DOMAIN table /\ table[KeyOf(r)].req = r)
=============================================================================
