---------------------------- MODULE CognitState ----------------------------
(***************************************************************************)
(* What the COGNIT processes share: the SQLite table                       *)
(* device_cluster_assignment, the application-requirement documents and    *)
(* the cluster pool of OpenNebula, and the FaaS roles of the edge          *)
(* clusters.  The table and the document pool are partial functions, like  *)
(* the dictionaries the code makes of them.                                *)
(*                                                                         *)
(* A requirement keeps the fields that decide something: the device, the   *)
(* flavour, and a `want` that stands for confidentiality, providers and    *)
(* geolocation together.  Time is counted in days: the cleanup compares an *)
(* ISO timestamp ("2026-01-31T...") with an SQLite one ("2026-01-31 ..."), *)
(* as texts, so a record goes when its date is earlier than the cutoff's.  *)
(***************************************************************************)
EXTENDS Integers, FiniteSets

CONSTANTS
    Devices, Flavours, Clusters, Wants,
    NoDevice,      \* requirements of an old device-runtime carry no ID
    NoGeo,         \* wants whose GEOLOCATION is unset
    Admits,        \* want -> clusters with the right confidentiality and provider
    Dist,          \* want -> cluster -> distance
    FlavoursOf,    \* cluster -> its FLAVOURS
    FirstFlavour,  \* cluster -> the first of its FLAVOURS
    MaxCapacity,   \* cluster -> CPUs of its hosts
    BaseVMs,       \* VMs of a cluster that are not FaaS (edge frontend)
    DB_CLEANUP_DAYS,
    Faults,        \* which of "error", "timeout", "crash" may happen
    Removable,     \* clusters an administrator may delete
    MaxDocs, MaxVersions, MaxDay, MaxVMs   \* bounds

Keys == Devices \X Flavours
Pairs == Clusters \X Flavours
DocIds == 1..MaxDocs
Reqs == [dev : Devices \cup {NoDevice}, flavour : Flavours, want : Wants]
IsDict(d, K, V) == \E S \in SUBSET K : d \in [S -> V]
Rows == [cluster : Clusters, reqId : DocIds, req : Reqs, seen : Nat]

ASSUME StateAssumption ==
    /\ IsFiniteSet(Devices) /\ IsFiniteSet(Flavours)
    /\ NoDevice \notin Devices
    /\ NoGeo \subseteq Wants
    /\ Admits \in [Wants -> SUBSET Clusters]
    /\ Dist \in [Wants -> [Clusters -> Nat]]
    /\ FlavoursOf \in [Clusters -> SUBSET Flavours]
    /\ FirstFlavour \in [Clusters -> Flavours]
    /\ \A c \in Clusters : FirstFlavour[c] \in FlavoursOf[c]
    /\ MaxCapacity \in [Clusters -> Nat]
    /\ BaseVMs \in Nat
    /\ DB_CLEANUP_DAYS \in Nat
    /\ Faults \subseteq {"error", "timeout", "crash"}
    /\ Removable \subseteq Clusters
    /\ MaxDocs \in Nat
    /\ MaxVersions \in Nat
    /\ MaxDay \in Nat
    /\ MaxVMs \in Nat

VARIABLES
    table,    \* device_cluster_assignment: (device, flavour) -> row
    docs,     \* APP_REQUIREMENT documents: id -> requirement
    nextDoc,  \* OpenNebula never reuses an id
    pool,     \* clusters known to OpenNebula
    faas,     \* cardinality of the FaaS role per cluster and flavour
    today,    \* the date
    held      \* history: every requirement a document has contained

shared == <<table, docs, nextDoc, pool, faas, today, held>>

----------------------------------------------------------------------------
(* db_manager.DBManager *)

\* Mutant: a day too early (<= on dates, as the SQL text suggests).
ExpiredEarly(row) == row.seen + DB_CLEANUP_DAYS <= today

Expired(row) == row.seen + DB_CLEANUP_DAYS < today

cleanup_old_records ==
    table' = [k \in {x \in DOMAIN table : ~Expired(table[x])} |-> table[k]]

\* UPDATE ... WHERE device_id = ? AND flavour = ?: no row, no effect.
update_last_seen(k) ==
    table' = [x \in DOMAIN table |->
                IF x = k THEN [table[x] EXCEPT !.seen = today] ELSE table[x]]

\* Mutant: app_req_id is left out of the SET list.
UpdateKeepsReqId(k, c, id, r) ==
    table' = [x \in DOMAIN table |->
                IF x = k THEN [cluster |-> c, reqId |-> table[x].reqId,
                               req |-> r, seen |-> today]
                ELSE table[x]]

update_device_assignment(k, c, id, r) ==
    table' = [x \in DOMAIN table |->
                IF x = k THEN [cluster |-> c, reqId |-> id, req |-> r, seen |-> today]
                ELSE table[x]]

insert_device_assignment(k, c, id, r) ==
    table' = [x \in DOMAIN table \cup {k} |->
                IF x = k THEN [cluster |-> c, reqId |-> id, req |-> r, seen |-> today]
                ELSE table[x]]

----------------------------------------------------------------------------
(* opennebula.clusters_ids_get, on a requirement that has a geolocation *)

Feasible(r) ==
    {c \in pool : r.flavour \in FlavoursOf[c] /\ c \in Admits[r.want]}

\* cluster_ids[0] of a non-empty result
Closest(r) ==
    {c \in Feasible(r) : \A d \in Feasible(r) : Dist[r.want][c] <= Dist[r.want][d]}

----------------------------------------------------------------------------
(* The environment *)

InitShared ==
    /\ table = [k \in {} |-> {}]
    /\ docs = [i \in {} |-> {}]
    /\ nextDoc = 1
    /\ pool = Clusters
    /\ faas = [c \in Clusters |-> [f \in Flavours |-> 0]]
    /\ today = 0
    /\ held = [i \in DocIds |-> {}]

NextDay ==
    /\ today < MaxDay
    /\ today' = today + 1
    /\ UNCHANGED <<table, docs, nextDoc, pool, faas, held>>

\* An administrator deletes a cluster; its services go with it.
RemoveCluster(c) ==
    /\ c \in pool \cap Removable
    /\ pool' = pool \ {c}
    /\ faas' = [faas EXCEPT ![c] = [f \in Flavours |-> 0]]
    /\ UNCHANGED <<table, docs, nextDoc, today, held>>

\* estimated_load_daemon starts every cycle with a cleanup.
DaemonCleanup ==
    /\ cleanup_old_records
    /\ UNCHANGED <<docs, nextDoc, pool, faas, today, held>>

SharedTypeOK ==
    /\ IsDict(table, Keys, Rows)
    /\ IsDict(docs, DocIds, Reqs)
    /\ nextDoc \in 1..(MaxDocs + 1)
    /\ pool \subseteq Clusters
    /\ faas \in [Clusters -> [Flavours -> Nat]]
    /\ today \in Nat
    /\ held \in [DocIds -> SUBSET Reqs]
============================================================================
