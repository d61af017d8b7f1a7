------------------------ MODULE CognitSystem_proofs ------------------------
(***************************************************************************)
(* TypeOK, RowMatchesKey, SnapshotIsHistorical, InsertNeverConflicts,      *)
(* MissOnlyIfExpired, TargetCoversAllocation, MovedToServingCluster and    *)
(* PlacedForOwnDocument of CognitSystem, and that it implements            *)
(* AssignmentTable: for any number of devices, flavours, clusters,         *)
(* documents and days, and any faults.                                     *)
(*                                                                         *)
(* None of the first five is inductive alone.  A row is as good as what is *)
(* written into it, so the invariant follows the requirement from the      *)
(* document (DocsHeld) through the request in service (FeOK) and through   *)
(* the optimizer's copy of the rows (OptOK); and a row the frontend has    *)
(* looked up stays present or absent because only the frontend inserts,    *)
(* and only expired rows go (NewOK, SeenOK).  The next two rest on         *)
(* Serving: what a cycle has asked for covers what it has placed, and what *)
(* it has scaled goes on running until it has written its assignments.     *)
(* The last one follows the clusters in the same way (Placing), and the    *)
(* refinement needs both.                                                  *)
(***************************************************************************)
EXTENDS CognitSystem, FiniteSetTheorems, TLAPS

RowsOK(t) ==
    \A k \in DOMAIN t :
        /\ KeyOf(t[k].req) = k
        /\ t[k].req \in held[t[k].reqId]
        /\ t[k].seen <= today

DocsHeld == \A i \in DOMAIN docs : docs[i] \in held[i]

FeOK ==
    /\ fe.pc \in {"upload_check", "upload_create"} => nextDoc <= MaxDocs
    /\ fe.pc \notin {"idle", "upload_check", "upload_create"} =>
         KeyOf(fe.req) = fe.key /\ fe.req \in held[fe.id]

NewOK ==
    fe.pc \in {"select_new", "read_card", "scale", "insert"} =>
        fe.key \notin DOMAIN table

SeenOK ==
    fe.pc \in {"touch", "select_changed", "update"} =>
        IF fe.key \in DOMAIN table THEN fe.seen <= table[fe.key].seen
        ELSE fe.seen + DB_CLEANUP_DAYS < today

OptOK == opt.pc = "write" => RowsOK(opt.rows)

Inv ==
    /\ TypeOK
    /\ RowsOK(table)
    /\ DocsHeld
    /\ FeOK
    /\ NewOK
    /\ SeenOK
    /\ OptOK

\* What a step of any process but the frontend may do to the rows: none is
\* added, none gets older, and only expired ones go.
Kept ==
    /\ DOMAIN table' \subseteq DOMAIN table
    /\ \A k \in DOMAIN table :
         IF k \in DOMAIN table' THEN table[k].seen <= table'[k].seen
         ELSE table[k].seen + DB_CLEANUP_DAYS < today

\* History only grows.
Grows ==
    /\ \A i \in DocIds : held[i] \subseteq held'[i]
    /\ today <= today'

TableOK == IsDict(table, Keys, Rows) /\ RowsOK(table)

\* Most steps are first-order reasoning; those that need arithmetic, records or
\* sequences name SMT.
USE Zenon

----------------------------------------------------------------------------
\* cleanup_old_records keeps every other row as it is.
LEMMA CleanupKeeps ==
    ASSUME SharedTypeOK, RowsOK(table), cleanup_old_records,
           today' = today, held' = held
    PROVE  TableOK' /\ Kept
<1> DEFINE S == {x \in DOMAIN table : ~Expired(table[x])}
<1>1. PICK D \in SUBSET Keys : table \in [D -> Rows]
  BY DEF SharedTypeOK, IsDict
<1>2. table' = [k \in S |-> table[k]] /\ S \subseteq D /\ DOMAIN table = D
  BY <1>1 DEF cleanup_old_records
<1>3. table' \in [S -> Rows] /\ S \in SUBSET Keys
  BY <1>1, <1>2
<1>4. IsDict(table, Keys, Rows)'
  BY <1>3 DEF IsDict
<1>5. \A k \in DOMAIN table' : k \in DOMAIN table /\ table'[k] = table[k]
  BY <1>2
<1>6. RowsOK(table)'
  BY <1>5 DEF RowsOK
<1>7. ASSUME NEW k \in DOMAIN table
      PROVE  IF k \in DOMAIN table' THEN table[k].seen <= table'[k].seen
             ELSE table[k].seen + DB_CLEANUP_DAYS < today
  <2>1. table[k].seen \in Nat
    BY <1>1 DEF Rows
  <2>2. CASE k \in S
    BY SMT, <2>1, <2>2, <1>2
  <2>3. CASE k \notin S
    BY <2>3, <1>2 DEF Expired
  <2>4. QED BY <2>2, <2>3
<1>8. QED BY <1>4, <1>5, <1>6, <1>7 DEF TableOK, Kept

\* So does update_last_seen, and it makes the one row it changes younger.
LEMMA TouchKeeps ==
    ASSUME SharedTypeOK, RowsOK(table), NEW k \in Keys, update_last_seen(k),
           today' = today, held' = held
    PROVE  TableOK' /\ Kept
<1>1. PICK D \in SUBSET Keys : table \in [D -> Rows]
  BY DEF SharedTypeOK, IsDict
<1>2. DOMAIN table = D /\ DOMAIN table' = D /\ today \in Nat
  BY <1>1 DEF update_last_seen, SharedTypeOK
<1>3. \A x \in D : /\ table[x] \in Rows
                   /\ table'[x] = IF x = k THEN [table[x] EXCEPT !.seen = today] ELSE table[x]
  BY <1>1 DEF update_last_seen
<1>4. \A x \in D : /\ table'[x] \in Rows
                   /\ table'[x].req = table[x].req
                   /\ table'[x].reqId = table[x].reqId
                   /\ table'[x].seen \in {table[x].seen, today}
  BY <1>2, <1>3 DEF Rows
<1>5. table' \in [D -> Rows]
  BY <1>1, <1>4 DEF update_last_seen
<1>6. \A x \in D : table[x].seen <= today /\ table[x].seen \in Nat
  BY <1>2, <1>3 DEF RowsOK, Rows
<1>7. RowsOK(table)'
  BY SMT, <1>2, <1>4, <1>6 DEF RowsOK
<1>8. Kept
  BY SMT, <1>2, <1>4, <1>6 DEF Kept
<1>9. QED BY <1>5, <1>7, <1>8 DEF TableOK, IsDict

\* update_device_assignment with a requirement of the row's own device.
LEMMA UpdateKeeps ==
    ASSUME SharedTypeOK, RowsOK(table),
           NEW k \in Keys, NEW c \in Clusters, NEW id \in DocIds, NEW r \in Reqs,
           KeyOf(r) = k, r \in held[id],
           update_device_assignment(k, c, id, r), today' = today, held' = held
    PROVE  TableOK' /\ Kept
<1>1. PICK D \in SUBSET Keys : table \in [D -> Rows]
  BY DEF SharedTypeOK, IsDict
<1> DEFINE new == [cluster |-> c, reqId |-> id, req |-> r, seen |-> today]
<1>2. DOMAIN table = D /\ DOMAIN table' = D /\ today \in Nat
  BY <1>1 DEF update_device_assignment, SharedTypeOK
<1>3. new \in Rows
  BY <1>2 DEF Rows
<1>4. \A x \in D : table'[x] = IF x = k THEN new ELSE table[x]
  BY <1>1 DEF update_device_assignment
<1>5. table' \in [D -> Rows]
  BY <1>1, <1>3, <1>4 DEF update_device_assignment
<1>6. \A x \in D : table[x].seen <= today /\ table[x].seen \in Nat
  BY <1>1, <1>2 DEF RowsOK, Rows
<1>7. RowsOK(table)'
  BY SMT, <1>2, <1>4 DEF RowsOK
<1>8. Kept
  BY SMT, <1>2, <1>4, <1>6 DEF Kept
<1>9. QED BY <1>5, <1>7, <1>8 DEF TableOK, IsDict

\* insert_device_assignment likewise.
LEMMA InsertKeeps ==
    ASSUME SharedTypeOK, RowsOK(table),
           NEW k \in Keys, NEW c \in Clusters, NEW id \in DocIds, NEW r \in Reqs,
           KeyOf(r) = k, r \in held[id],
           insert_device_assignment(k, c, id, r), today' = today, held' = held
    PROVE  TableOK'
<1>1. PICK D \in SUBSET Keys : table \in [D -> Rows]
  BY DEF SharedTypeOK, IsDict
<1> DEFINE new == [cluster |-> c, reqId |-> id, req |-> r, seen |-> today]
<1>2. DOMAIN table = D /\ DOMAIN table' = D \cup {k} /\ today \in Nat
  BY <1>1 DEF insert_device_assignment, SharedTypeOK
<1>3. new \in Rows
  BY <1>2 DEF Rows
<1>4. \A x \in D \cup {k} : table'[x] = IF x = k THEN new ELSE table[x]
  BY <1>1 DEF insert_device_assignment
<1>5. table' \in [D \cup {k} -> Rows] /\ D \cup {k} \in SUBSET Keys
  BY <1>1, <1>3, <1>4 DEF insert_device_assignment
<1>6. RowsOK(table)'
  BY SMT, <1>2, <1>4 DEF RowsOK
<1>7. QED BY <1>5, <1>6 DEF TableOK, IsDict

----------------------------------------------------------------------------
\* The locals of a request in service.
LEMMA FeLocals ==
    ASSUME FeType
    PROVE  /\ fe.pc \in {"upload_check", "upload_create"} => fe.req \in Reqs
           /\ fe.pc = "upload_check" => fe.id \in DocIds
           /\ fe.pc \notin {"idle", "upload_check", "upload_create"} =>
                fe.key \in Keys /\ fe.id \in DocIds /\ fe.req \in Reqs
           /\ fe.pc \in {"touch", "update", "read_card", "insert", "reply", "scale"} =>
                fe.cluster \in Clusters
           /\ fe.pc \in {"touch", "update", "select_changed"} => fe.seen \in Nat
           /\ fe.pc = "scale" => fe.flavour \in Flavours /\ fe.card \in Nat
BY SMT DEF FeType, Idle

\* A step of another process does not disturb what a request relies on.
LEMMA FeUndisturbed ==
    ASSUME Inv, TableOK', Kept, Grows, fe' = fe, nextDoc' = nextDoc, today' \in Nat
    PROVE  FeOK' /\ NewOK' /\ SeenOK'
<1> USE DEF Inv, TypeOK
<1>1. FeOK'
  BY FeLocals DEF FeOK, Grows
<1>2. NewOK'
  BY DEF NewOK, Kept
<1>3. ASSUME fe.pc \in {"touch", "select_changed", "update"} PROVE SeenOK'
  <2>1. fe.seen \in Nat /\ DB_CLEANUP_DAYS \in Nat /\ today \in Nat /\ today <= today'
    BY <1>3, FeLocals, StateAssumption DEF SharedTypeOK, Grows
  <2>2. \A k \in DOMAIN table : table[k].seen \in Nat
    BY DEF SharedTypeOK, IsDict, Rows
  <2>3. \A k \in DOMAIN table' : table'[k].seen \in Nat
    BY DEF TableOK, IsDict, Rows
  <2>4. CASE fe.key \in DOMAIN table'
    BY SMT, <1>3, <2>1, <2>2, <2>3, <2>4 DEF SeenOK, Kept
  <2>5. CASE fe.key \notin DOMAIN table'
    BY SMT, <1>3, <2>1, <2>2, <2>5 DEF SeenOK, Kept
  <2>6. QED BY <2>4, <2>5
<1>4. SeenOK'
  BY <1>3 DEF SeenOK
<1>5. QED BY <1>1, <1>2, <1>4

\* The locals of a cycle, by pc.
LEMMA OptLocals ==
    ASSUME OptType
    PROVE  /\ opt.pc = "validate" => \E S \in SUBSET Keys : opt \in AtValidate(S)
           /\ opt.pc = "feasible" => \E S, T \in SUBSET Keys : opt \in AtFeasible(S, T)
           /\ opt.pc = "scale" =>
                \E S \in SUBSET Keys, P \in SUBSET Pairs : opt \in AtScale(S, P)
           /\ opt.pc = "db" => \E S \in SUBSET Keys : opt \in AtDb(S)
           /\ opt.pc = "write" => \E S, T \in SUBSET Keys : opt \in AtWrite(S, T)
<1>1. \A S, T, P : /\ opt \in AtValidate(S) => opt.pc = "validate"
                   /\ opt \in AtFeasible(S, T) => opt.pc = "feasible"
                   /\ opt \in AtScale(S, P) => opt.pc = "scale"
                   /\ opt \in AtDb(S) => opt.pc = "db"
                   /\ opt \in AtWrite(S, T) => opt.pc = "write"
  BY DEF AtValidate, AtFeasible, AtScale, AtDb, AtWrite
<1>2. opt \in {Sleeping, [pc |-> "read"]} => opt.pc \in {"sleep", "read"}
  BY SMT DEF Sleeping
<1>3. QED BY <1>1, <1>2 DEF OptType

\* Only while it writes rows does the optimizer hold rows it will write.
LEMMA NotWriting ==
    ASSUME \/ opt' \in {Sleeping, [pc |-> "read"]}
           \/ \E S : opt' \in AtValidate(S)
           \/ \E S, T : opt' \in AtFeasible(S, T)
           \/ \E S, P : opt' \in AtScale(S, P)
           \/ \E S : opt' \in AtDb(S)
    PROVE  OptOK'
<1>1. opt'.pc # "write"
  BY SMT DEF Sleeping, AtValidate, AtFeasible, AtScale, AtDb
<1>2. QED BY <1>1 DEF OptOK

\* Nor does a step of another process disturb the optimizer's copy.
LEMMA OptUndisturbed ==
    ASSUME Inv, Grows, opt' = opt, today' \in Nat
    PROVE  OptOK'
<1> SUFFICES ASSUME opt.pc = "write" PROVE RowsOK(opt.rows)'
  BY DEF OptOK
<1>1. PICK T \in SUBSET Keys : opt.rows \in [T -> Rows]
  BY OptLocals DEF Inv, TypeOK, AtWrite
<1>2. \A k \in T : opt.rows[k].reqId \in DocIds /\ opt.rows[k].seen \in Nat
  BY <1>1 DEF Rows
<1>3. RowsOK(opt.rows) /\ today \in Nat
  BY DEF Inv, OptOK, TypeOK, SharedTypeOK
<1>4. QED BY SMT, <1>1, <1>2, <1>3 DEF RowsOK, Grows

\* A step that leaves the shared state alone.
LEMMA SharedSame ==
    ASSUME Inv, UNCHANGED shared
    PROVE  /\ SharedTypeOK' /\ TableOK' /\ DocsHeld'
           /\ Kept /\ Grows /\ today' \in Nat
<1> USE DEF Inv, TypeOK, shared
<1>1. SharedTypeOK'
  BY DEF SharedTypeOK, IsDict
<1>2. TableOK'
  BY <1>1 DEF SharedTypeOK, TableOK, IsDict, RowsOK
<1>3. DocsHeld' /\ today' \in Nat
  BY <1>1 DEF DocsHeld, SharedTypeOK
<1>4. \A k \in DOMAIN table : table[k].seen \in Nat
  BY DEF SharedTypeOK, IsDict, Rows
<1>5. Kept
  BY SMT, <1>4 DEF Kept
<1>6. Grows
  BY SMT, <1>3 DEF Grows
<1>7. QED BY <1>1, <1>2, <1>3, <1>5, <1>6

\* A step of the frontend, from its effects.
LEMMA FrontendInv ==
    ASSUME Inv, UNCHANGED optVars, Grows,
           SharedTypeOK', RowsOK(table)', DocsHeld',
           FeType', FeOK', NewOK', SeenOK'
    PROVE  Inv'
<1>1. OptOK'
  BY OptUndisturbed DEF optVars, SharedTypeOK
<1>2. OptType' /\ IsDict(pending, Pairs, Nat)'
  BY DEF Inv, TypeOK, optVars, OptType, IsDict
<1>3. QED BY <1>1, <1>2 DEF Inv, TypeOK

\* POST: lookup, comparison, allocation.
LEMMA UploadStep ==
    ASSUME Inv, UNCHANGED optVars,
           \/ \E r \in Reqs : upload_application_requirements(r)
           \/ UploadCheck
           \/ UploadCreate
    PROVE  Inv'
<1> USE DEF Inv, TypeOK
<1>1. ASSUME NEW r \in Reqs, upload_application_requirements(r) PROVE Inv'
  <2>1. UNCHANGED shared BY <1>1 DEF upload_application_requirements
  <2>2. /\ SharedTypeOK' /\ RowsOK(table)' /\ DocsHeld' /\ Grows
    BY <2>1, SharedSame DEF TableOK
  <2>3. \A k \in DOMAIN table : table[k].reqId \in DocIds
    BY DEF SharedTypeOK, IsDict, Rows
  <2>4. FeType' /\ FeOK' /\ NewOK' /\ SeenOK'
    BY <1>1, <2>1, <2>3
       DEF upload_application_requirements, FeType, FeOK, NewOK, SeenOK, shared
  <2>5. QED BY <2>2, <2>4, FrontendInv
<1>2. ASSUME UploadCheck PROVE Inv'
  <2>1. UNCHANGED shared BY <1>2 DEF UploadCheck
  <2>2. /\ SharedTypeOK' /\ RowsOK(table)' /\ DocsHeld' /\ Grows
    BY <2>1, SharedSame DEF TableOK
  <2>3. fe.req \in Reqs /\ nextDoc <= MaxDocs
    BY <1>2, FeLocals DEF UploadCheck, FeOK
  <2>4. FeType' /\ FeOK' /\ NewOK' /\ SeenOK'
    BY <1>2, <2>1, <2>3 DEF UploadCheck, FeType, FeOK, NewOK, SeenOK, shared, Idle
  <2>5. QED BY <2>2, <2>4, FrontendInv
<1>3. ASSUME UploadCreate PROVE Inv'
  <2>1. fe.req \in Reqs /\ nextDoc <= MaxDocs /\ nextDoc \in 1..(MaxDocs + 1)
    BY <1>3, FeLocals DEF UploadCreate, FeOK, SharedTypeOK
  <2>2. nextDoc \in DocIds /\ nextDoc' \in 1..(MaxDocs + 1)
    <3>1. MaxDocs \in Nat /\ nextDoc' = nextDoc + 1
      BY <1>3, StateAssumption DEF UploadCreate
    <3> HIDE DEF Inv, TypeOK
    <3>2. QED BY SMT, <2>1, <3>1 DEF DocIds
  <2>3. PICK D \in SUBSET DocIds : docs \in [D -> Reqs]
    BY DEF SharedTypeOK, IsDict
  <2>4. docs' \in [D \cup {nextDoc} -> Reqs] /\ D \cup {nextDoc} \in SUBSET DocIds
    BY <1>3, <2>1, <2>2, <2>3 DEF UploadCreate
  <2>5. held' \in [DocIds -> SUBSET Reqs] /\ Grows /\ fe.req \in held'[nextDoc]
    BY SMT, <1>3, <2>1, <2>2 DEF UploadCreate, SharedTypeOK, Grows
  <2>6. SharedTypeOK'
    BY <1>3, <2>2, <2>4, <2>5 DEF UploadCreate, SharedTypeOK, IsDict
  <2>7. DocsHeld'
    BY <1>3, <2>3, <2>5 DEF UploadCreate, DocsHeld, Grows
  <2>8. \A k \in DOMAIN table : table[k].reqId \in DocIds
    BY DEF SharedTypeOK, IsDict, Rows
  <2>9. RowsOK(table)'
    BY <1>3, <2>5, <2>8 DEF UploadCreate, RowsOK, Grows
  <2>10. FeType' /\ FeOK' /\ NewOK' /\ SeenOK'
    BY <1>3 DEF UploadCreate, FeType, FeOK, NewOK, SeenOK, Idle
  <2>11. QED BY <2>5, <2>6, <2>7, <2>9, <2>10, FrontendInv
<1>4. QED BY <1>1, <1>2, <1>3

\* PUT and DELETE.
LEMMA DocumentStep ==
    ASSUME Inv, UNCHANGED optVars, NEW id \in DocIds, NEW r \in Reqs,
           \/ update_application_requirements(id, r)
           \/ delete_application_requirements(id)
    PROVE  Inv'
<1> USE DEF Inv, TypeOK
<1>1. PICK D \in SUBSET DocIds : docs \in [D -> Reqs]
  BY DEF SharedTypeOK, IsDict
<1>2. FeType' /\ FeOK' /\ NewOK' /\ SeenOK'
  BY SMT DEF update_application_requirements, delete_application_requirements,
         FeType, FeOK, NewOK, SeenOK, Idle
<1>3. \A k \in DOMAIN table : table[k].reqId \in DocIds
  BY DEF SharedTypeOK, IsDict, Rows
<1>4. CASE update_application_requirements(id, r)
  <2>1. docs' \in [D -> Reqs]
    BY <1>1, <1>4 DEF update_application_requirements
  <2>2. held' \in [DocIds -> SUBSET Reqs] /\ Grows /\ r \in held'[id]
    BY SMT, <1>4 DEF update_application_requirements, SharedTypeOK, Grows
  <2>3. SharedTypeOK'
    BY <1>4, <2>1, <2>2 DEF update_application_requirements, SharedTypeOK, IsDict
  <2>4. DocsHeld'
    BY <1>1, <1>4, <2>2 DEF update_application_requirements, DocsHeld, Grows
  <2>5. RowsOK(table)'
    BY <1>3, <1>4, <2>2 DEF update_application_requirements, RowsOK, Grows
  <2>6. QED BY <1>2, <2>2, <2>3, <2>4, <2>5, FrontendInv
<1>5. CASE delete_application_requirements(id)
  <2>1. docs' \in [D \ {id} -> Reqs]
    BY <1>1, <1>5 DEF delete_application_requirements
  <2>2. SharedTypeOK'
    BY <1>5, <2>1 DEF delete_application_requirements, SharedTypeOK, IsDict
  <2>3. DocsHeld' /\ RowsOK(table)' /\ Grows
    BY SMT, <1>1, <1>5 DEF delete_application_requirements, DocsHeld, RowsOK, Grows, SharedTypeOK
  <2>4. QED BY <1>2, <2>2, <2>3, FrontendInv
<1>6. QED BY <1>4, <1>5

\* The steps of a GET .../ec_fe that only read, and the scale call.
LEMMA LookupStep ==
    ASSUME Inv, UNCHANGED optVars,
           \/ \E id \in DocIds : get_edge_cluster_frontends(id)
           \/ SelectCluster
           \/ ReadCardinality
           \/ Reply
    PROVE  Inv'
<1> USE DEF Inv, TypeOK
<1>1. UNCHANGED shared
  BY DEF get_edge_cluster_frontends, SelectCluster, ReadCardinality, Reply
<1>2. SharedTypeOK' /\ RowsOK(table)' /\ DocsHeld' /\ Grows
  BY <1>1, SharedSame DEF TableOK
<1>3. \A k \in DOMAIN table : table[k].cluster \in Clusters /\ table[k].seen \in Nat
  BY DEF SharedTypeOK, IsDict, Rows
<1>4. ASSUME NEW id \in DocIds, get_edge_cluster_frontends(id)
      PROVE  FeType' /\ FeOK' /\ NewOK' /\ SeenOK'
  <2> DEFINE r == docs[id]
             k == <<r.dev, r.flavour>>
  <2>1. r \in Reqs /\ r \in held[id] /\ KeyOf(r) = k /\ k \in Keys
    BY <1>4 DEF get_edge_cluster_frontends, SharedTypeOK, IsDict, DocsHeld, KeyOf, Reqs, Keys
  <2> HIDE DEF r, k
  <2>2. fe' = IF k \notin DOMAIN table
              THEN [pc |-> "select_new", key |-> k, id |-> id, req |-> r]
              ELSE IF table[k].req = r
              THEN [pc |-> "touch", key |-> k, id |-> id, req |-> r,
                    cluster |-> table[k].cluster, seen |-> table[k].seen]
              ELSE [pc |-> "select_changed", key |-> k, id |-> id, req |-> r,
                    seen |-> table[k].seen]
    BY <1>4 DEF get_edge_cluster_frontends, r, k
  <2>3. table' = table /\ held' = held
    BY <1>1 DEF shared
  <2> HIDE DEF Inv, TypeOK
  <2>4. CASE k \notin DOMAIN table
    <3>1. FeType'
      BY <2>1, <2>2, <2>4 DEF FeType
    <3>2. FeOK' /\ NewOK' /\ SeenOK'
      BY <2>1, <2>2, <2>3, <2>4 DEF FeOK, NewOK, SeenOK
    <3>3. QED BY <3>1, <3>2
  <2>5. CASE k \in DOMAIN table /\ table[k].req = r
    <3>1. FeType'
      BY <1>3, <2>1, <2>2, <2>5 DEF FeType
    <3>2. FeOK' /\ NewOK' /\ SeenOK'
      BY SMT, <1>3, <2>1, <2>2, <2>3, <2>5 DEF FeOK, NewOK, SeenOK
    <3>3. QED BY <3>1, <3>2
  <2>6. CASE k \in DOMAIN table /\ table[k].req # r
    <3>1. FeType'
      BY <1>3, <2>1, <2>2, <2>6 DEF FeType
    <3>2. FeOK' /\ NewOK' /\ SeenOK'
      BY SMT, <1>3, <2>1, <2>2, <2>3, <2>6 DEF FeOK, NewOK, SeenOK
    <3>3. QED BY <3>1, <3>2
  <2>7. QED BY <2>4, <2>5, <2>6
<1>5. ASSUME SelectCluster
      PROVE  FeType' /\ FeOK' /\ NewOK' /\ SeenOK'
  <2>1. /\ fe.key \in Keys /\ fe.id \in DocIds /\ fe.req \in Reqs
        /\ KeyOf(fe.req) = fe.key /\ fe.req \in held[fe.id]
        /\ fe.pc = "select_changed" => fe.seen \in Nat
    BY <1>5, FeLocals DEF SelectCluster, FeOK
  <2>2. CASE fe' = Idle
    BY <1>1, <2>2 DEF FeType, FeOK, NewOK, SeenOK, shared, Idle
  <2>3. CASE \E c \in Closest(fe.req) :
               fe' = IF fe.pc = "select_new"
                     THEN Selected("read_card", fe.key, fe.id, fe.req, c)
                     ELSE [pc |-> "update", key |-> fe.key, id |-> fe.id,
                           req |-> fe.req, cluster |-> c, seen |-> fe.seen]
    <3>1. PICK c \in Clusters :
               fe' = IF fe.pc = "select_new"
                     THEN Selected("read_card", fe.key, fe.id, fe.req, c)
                     ELSE [pc |-> "update", key |-> fe.key, id |-> fe.id,
                           req |-> fe.req, cluster |-> c, seen |-> fe.seen]
      BY <2>3 DEF Closest, Feasible, SharedTypeOK
    <3>2. CASE fe.pc = "select_new"
      BY <1>1, <2>1, <3>1, <3>2 DEF Selected, FeType, FeOK, NewOK, SeenOK, shared
    <3>3. CASE fe.pc = "select_changed"
      BY <1>1, <2>1, <3>1, <3>3 DEF FeType, FeOK, NewOK, SeenOK, shared
    <3>4. QED BY <1>5, <3>2, <3>3 DEF SelectCluster
  <2>4. QED BY <1>5, <2>2, <2>3 DEF SelectCluster
<1>6. ASSUME ReadCardinality
      PROVE  FeType' /\ FeOK' /\ NewOK' /\ SeenOK'
  <2>1. /\ fe.key \in Keys /\ fe.id \in DocIds /\ fe.req \in Reqs
        /\ fe.cluster \in Clusters /\ fe.key \notin DOMAIN table
        /\ KeyOf(fe.req) = fe.key /\ fe.req \in held[fe.id]
    BY <1>6, FeLocals DEF ReadCardinality, FeOK, NewOK
  <2>2. \A f \in FlavoursOf[fe.cluster] : f \in Flavours /\ faas[fe.cluster][f] \in Nat
    <3>1. FlavoursOf[fe.cluster] \subseteq Flavours
      BY <2>1, StateAssumption
    <3>2. faas \in [Clusters -> [Flavours -> Nat]]
      BY DEF SharedTypeOK
    <3> HIDE DEF Inv, TypeOK
    <3>3. faas[fe.cluster] \in [Flavours -> Nat]
      BY <2>1, <3>2
    <3>4. QED BY <3>1, <3>3
  <2>3. table' = table /\ held' = held
    BY <1>1 DEF shared
  <2> HIDE DEF Inv, TypeOK
  <2>4. CASE fe' = Selected("insert", fe.key, fe.id, fe.req, fe.cluster)
    <3>1. FeType'
      BY <2>1, <2>4 DEF Selected, FeType
    <3>2. FeOK' /\ NewOK' /\ SeenOK'
      BY <2>1, <2>3, <2>4 DEF Selected, FeOK, NewOK, SeenOK
    <3>3. QED BY <3>1, <3>2
  <2>5. ASSUME NEW f \in FlavoursOf[fe.cluster],
               fe' = [pc |-> "scale", key |-> fe.key, id |-> fe.id, req |-> fe.req,
                      cluster |-> fe.cluster, flavour |-> f,
                      card |-> faas[fe.cluster][f]]
        PROVE  FeType' /\ FeOK' /\ NewOK' /\ SeenOK'
    <3>1. FeType'
      BY <2>1, <2>2, <2>5 DEF FeType
    <3>2. FeOK' /\ NewOK' /\ SeenOK'
      BY <2>1, <2>3, <2>5 DEF FeOK, NewOK, SeenOK
    <3>3. QED BY <3>1, <3>2
  <2>6. QED BY <1>6, <2>4, <2>5 DEF ReadCardinality
<1>7. ASSUME Reply
      PROVE  FeType' /\ FeOK' /\ NewOK' /\ SeenOK'
  BY <1>1, <1>7 DEF Reply, FeType, FeOK, NewOK, SeenOK, shared, Idle
<1>8. QED BY <1>2, <1>4, <1>5, <1>6, <1>7, FrontendInv

\* The steps of a GET .../ec_fe that write, and a restart.
LEMMA WriteStep ==
    ASSUME Inv, UNCHANGED optVars,
           \/ Touch
           \/ ScaleFaas
           \/ InsertRow
           \/ UpdateRow
           \/ FrontendRestart
    PROVE  Inv'
<1> USE DEF Inv, TypeOK
<1>1. ASSUME fe.pc \in {"touch", "scale", "insert", "update"}
      PROVE  /\ fe.key \in Keys /\ fe.id \in DocIds /\ fe.req \in Reqs
             /\ fe.cluster \in Clusters
             /\ KeyOf(fe.req) = fe.key /\ fe.req \in held[fe.id]
  BY <1>1, FeLocals DEF FeOK
<1>2. ASSUME TableOK', UNCHANGED <<docs, nextDoc, pool, faas, today, held>>,
             \/ fe' = Idle
             \/ /\ fe.pc \in {"touch", "insert", "update"}
                /\ fe' = Selected("reply", fe.key, fe.id, fe.req, fe.cluster)
      PROVE  Inv'
  <2>1. SharedTypeOK' /\ Grows /\ DocsHeld' /\ RowsOK(table)'
    BY SMT, <1>2 DEF SharedTypeOK, TableOK, Grows, DocsHeld, IsDict
  <2>2. FeType' /\ FeOK' /\ NewOK' /\ SeenOK'
    <3>1. CASE fe' = Idle
      BY <3>1 DEF Idle, FeType, FeOK, NewOK, SeenOK
    <3>2. CASE fe' # Idle
      <4>1. fe' = Selected("reply", fe.key, fe.id, fe.req, fe.cluster)
        BY <1>2, <3>2
      <4>2. /\ fe.key \in Keys /\ fe.id \in DocIds /\ fe.req \in Reqs
            /\ fe.cluster \in Clusters
            /\ KeyOf(fe.req) = fe.key /\ fe.req \in held'[fe.id]
        BY <1>1, <1>2, <3>2
      <4> HIDE DEF Inv, TypeOK
      <4>3. FeType'
        BY <4>1, <4>2 DEF Selected, FeType
      <4>4. FeOK' /\ NewOK' /\ SeenOK'
        BY <4>1, <4>2 DEF Selected, FeOK, NewOK, SeenOK
      <4>5. QED BY <4>3, <4>4
    <3>3. QED BY <3>1, <3>2
  <2>3. QED BY <2>1, <2>2, FrontendInv
<1>3. CASE Touch
  BY <1>1, <1>2, <1>3, TouchKeeps DEF Touch
<1>4. CASE InsertRow
  BY <1>1, <1>2, <1>4, InsertKeeps DEF InsertRow
<1>5. CASE UpdateRow
  BY <1>1, <1>2, <1>5, UpdateKeeps DEF UpdateRow
<1>6. CASE FrontendRestart
  BY <1>2, <1>6, CleanupKeeps DEF FrontendRestart
<1>7. CASE ScaleFaas
  <2>1. fe.flavour \in Flavours /\ fe.card \in Nat /\ fe.key \notin DOMAIN table
    BY <1>7, FeLocals DEF ScaleFaas, NewOK
  <2>2. faas' \in [Clusters -> [Flavours -> Nat]]
    <3>1. faas \in [Clusters -> [Flavours -> Nat]] /\ fe.cluster \in Clusters
      BY <1>1, <1>7 DEF ScaleFaas, SharedTypeOK
    <3>2. \/ faas' = faas
          \/ faas' = [faas EXCEPT ![fe.cluster][fe.flavour] = fe.card + 1]
      BY <1>7 DEF ScaleFaas
    <3> HIDE DEF Inv, TypeOK
    <3>3. fe.card + 1 \in Nat
      BY SMT, <2>1
    <3>4. QED BY SMT, <2>1, <3>1, <3>2, <3>3
  <2>3. SharedTypeOK' /\ Grows /\ DocsHeld' /\ RowsOK(table)'
    BY SMT, <1>7, <2>2 DEF ScaleFaas, SharedTypeOK, Grows, DocsHeld, RowsOK, IsDict
  <2>4. FeType' /\ FeOK' /\ NewOK' /\ SeenOK'
    BY <1>1, <1>7, <2>1 DEF ScaleFaas, Selected, FeType, FeOK, NewOK, SeenOK
  <2>5. QED BY <2>3, <2>4, FrontendInv
<1>8. QED BY <1>3, <1>4, <1>5, <1>6, <1>7

----------------------------------------------------------------------------
\* A step of the optimizer, from its effects.
LEMMA OptimizerInv ==
    ASSUME Inv, fe' = fe, nextDoc' = nextDoc, Grows, Kept,
           SharedTypeOK', RowsOK(table)', DocsHeld',
           OptType', OptOK', IsDict(pending, Pairs, Nat)'
    PROVE  Inv'
<1>1. FeOK' /\ NewOK' /\ SeenOK'
  BY FeUndisturbed DEF TableOK, SharedTypeOK
<1>2. FeType'
  BY DEF Inv, TypeOK, FeType
<1>3. QED BY <1>1, <1>2 DEF Inv, TypeOK

\* A step of the optimizer that leaves the shared state alone.
LEMMA OptimizerLocal ==
    ASSUME Inv, fe' = fe, UNCHANGED shared,
           OptType', OptOK', IsDict(pending, Pairs, Nat)'
    PROVE  Inv'
BY SharedSame, OptimizerInv DEF TableOK, shared

\* The optimizer's reads, up to the plan.
LEMMA ReadsStep ==
    ASSUME Inv, fe' = fe,
           \/ ReadAssignments
           \/ \E k \in Keys : Validate(k)
           \/ Validated
           \/ \E k \in Keys : FindFeasible(k)
    PROVE  Inv'
<1> USE DEF Inv, TypeOK
<1>1. UNCHANGED shared
  BY DEF ReadAssignments, Validate, Validated, FindFeasible
<1>2. CASE ReadAssignments
  <2>1. PICK S \in SUBSET Keys : table \in [S -> Rows]
    BY DEF SharedTypeOK, IsDict
  <2>2. OptType' /\ OptOK'
    <3>1. opt' = Sleeping \/ opt' \in AtValidate(S)
      BY <1>2, <2>1 DEF ReadAssignments, AtValidate
    <3>2. QED BY <3>1, NotWriting DEF OptType
  <2>3. QED BY <1>1, <1>2, <2>2, OptimizerLocal DEF ReadAssignments, IsDict
<1>3. ASSUME NEW k \in Keys, Validate(k) PROVE Inv'
  <2>1. PICK S \in SUBSET Keys : opt \in AtValidate(S)
    <3>1. opt.pc = "validate" BY <1>3 DEF Validate
    <3>2. QED BY <3>1, OptLocals
  <2>2. opt' \in AtValidate(S)
    <3>1. CASE opt' = [opt EXCEPT !.todo = @ \ {k}, !.valid = @ \cup {k}]
      <4>1. k \in S BY <1>3, <2>1 DEF Validate, AtValidate
      <4>2. QED BY <2>1, <3>1, <4>1 DEF AtValidate
    <3>2. CASE opt' = [opt EXCEPT !.todo = @ \ {k}]
      BY <2>1, <3>2 DEF AtValidate
    <3>3. QED BY <1>3, <3>1, <3>2 DEF Validate
  <2>3. OptType' /\ OptOK'
    BY <2>2, NotWriting DEF OptType
  <2>4. QED BY <1>1, <1>3, <2>3, OptimizerLocal DEF Validate, IsDict
<1>4. CASE Validated
  <2>1. PICK S \in SUBSET Keys : opt \in AtValidate(S)
    BY <1>4, OptLocals DEF Validated
  <2>2. \/ opt' = Sleeping
        \/ opt' \in AtFeasible(S, {})
    BY <1>4, <2>1 DEF Validated, EmptyDict, AtValidate, AtFeasible
  <2>3. {} \in SUBSET Keys
    OBVIOUS
  <2>4. OptType' /\ OptOK'
    BY <2>2, <2>3, NotWriting DEF OptType
  <2>5. QED BY <1>1, <1>4, <2>4, OptimizerLocal DEF Validated, IsDict
<1>5. ASSUME NEW k \in Keys, FindFeasible(k) PROVE Inv'
  <2>1. PICK S \in SUBSET Keys, T \in SUBSET Keys : opt \in AtFeasible(S, T)
    <3>1. opt.pc = "feasible" BY <1>5 DEF FindFeasible
    <3>2. QED BY <3>1, OptLocals
  <2>2. \A r : Feasible(r) \subseteq Clusters
    BY DEF Feasible, SharedTypeOK
  <2>3. \A cs \in SUBSET Clusters :
          Put(opt.feasible, k, cs) \in [T \cup {k} -> SUBSET Clusters]
    BY <2>1 DEF Put, AtFeasible
  <2>4. PICK cs \in SUBSET Clusters :
          \/ opt' = Sleeping
          \/ opt' = [opt EXCEPT !.todo = @ \ {k}, !.feasible = Put(@, k, cs)]
    BY <1>5, <2>2 DEF FindFeasible
  <2>5. \/ opt' = Sleeping
        \/ opt' \in AtFeasible(S, T \cup {k})
    <3> HIDE DEF Inv, TypeOK
    <3>1. CASE opt' = [opt EXCEPT !.todo = @ \ {k}, !.feasible = Put(@, k, cs)]
      <4>1. Put(opt.feasible, k, cs) \in [T \cup {k} -> SUBSET Clusters]
        BY <2>3
      <4> DEFINE F == Put(opt.feasible, k, cs)
      <4>2. opt' = [opt EXCEPT !.todo = @ \ {k}, !.feasible = F]
        BY <2>1, <3>1 DEF AtFeasible
      <4> HIDE DEF F
      <4>3. F \in [T \cup {k} -> SUBSET Clusters]
        BY <4>1 DEF F
      <4>4. QED BY <2>1, <4>2, <4>3 DEF AtFeasible
    <3>2. QED BY <2>4, <3>1
  <2>6. T \cup {k} \in SUBSET Keys
    OBVIOUS
  <2>7. OptType' /\ OptOK'
    BY <2>5, <2>6, NotWriting DEF OptType
  <2>8. QED BY <1>1, <1>5, <2>7, OptimizerLocal DEF FindFeasible, IsDict
<1>6. QED BY <1>2, <1>3, <1>4, <1>5

\* The scale calls.
LEMMA ScaleStep ==
    ASSUME Inv, fe' = fe, NEW p \in Pairs, NEW result,
           ScaleUp(p, result) \/ ScaleDown(p, result)
    PROVE  Inv'
<1> USE DEF Inv, TypeOK
<1>1. PICK S \in SUBSET Keys, P \in SUBSET Pairs : opt \in AtScale(S, P)
  <2>1. opt.pc = "scale" BY DEF ScaleUp, ScaleDown
  <2>2. QED BY <2>1, OptLocals
<1>2. p \in P /\ opt.targets[p] \in Nat
  BY <1>1 DEF ScaleUp, ScaleDown, AtScale
<1>3. p[1] \in Clusters /\ p[2] \in Flavours
  BY DEF Pairs
<1>4. faas' \in [Clusters -> [Flavours -> Nat]]
  BY SMT, <1>2, <1>3 DEF ScaleUp, ScaleDown, CallScale, SharedTypeOK
<1>5. UNCHANGED <<table, docs, nextDoc, pool, today, held>>
  BY DEF ScaleUp, ScaleDown
<1>6. SharedTypeOK' /\ RowsOK(table)' /\ DocsHeld' /\ Grows /\ Kept
  <2>1. \A k \in DOMAIN table : table[k].seen \in Nat
    BY DEF SharedTypeOK, IsDict, Rows
  <2>2. QED
    BY SMT, <1>4, <1>5, <2>1 DEF SharedTypeOK, IsDict, RowsOK, DocsHeld, Grows, Kept
<1>7. opt' \in AtScale(S, P)
  <2>1. CASE ScaleUp(p, result)
    BY <1>1, <1>2, <2>1 DEF ScaleUp, AtScale
  <2>2. CASE ScaleDown(p, result)
    BY <1>1, <1>2, <2>2 DEF ScaleDown, AtScale
  <2>3. QED BY <2>1, <2>2
<1>8. OptType' /\ OptOK'
  BY <1>7, NotWriting DEF OptType
<1>9. IsDict(pending, Pairs, Nat)'
  <2>1. PICK D \in SUBSET Pairs : pending \in [D -> Nat]
    BY DEF IsDict
  <2>2. Put(pending, p, opt.targets[p]) \in [D \cup {p} -> Nat] /\ D \cup {p} \in SUBSET Pairs
    BY <1>2, <2>1 DEF Put
  <2>3. pending' = pending \/ pending' = Put(pending, p, opt.targets[p])
    BY DEF ScaleUp, ScaleDown
  <2>4. QED BY <2>1, <2>2, <2>3 DEF IsDict
<1>10. QED BY <1>5, <1>6, <1>8, <1>9, OptimizerInv

\* From the scaled pairs to the rows, and the end of a cycle.
LEMMA MoveStep ==
    ASSUME Inv, fe' = fe,
           \/ Scaled
           \/ \E p \in Pairs : ReadRows(p)
           \/ \E k \in Keys : MoveDevice(k)
           \/ RowsMoved
           \/ EndCycle
           \/ AbortCycle
    PROVE  Inv'
<1> USE DEF Inv, TypeOK
<1>1. ASSUME UNCHANGED <<shared, pending>>, OptType', OptOK' PROVE Inv'
  BY <1>1, OptimizerLocal DEF IsDict
<1>2. CASE Scaled
  <2>1. PICK S \in SUBSET Keys, P \in SUBSET Pairs : opt \in AtScale(S, P)
    BY <1>2, OptLocals DEF Scaled
  <2>2. opt' \in AtDb(S)
    BY <1>2, <2>1 DEF Scaled, AtScale, AtDb
  <2>3. QED BY <1>1, <1>2, <2>2, NotWriting DEF Scaled, OptType
<1>3. ASSUME NEW p \in Pairs, ReadRows(p) PROVE Inv'
  <2>1. PICK S \in SUBSET Keys : opt \in AtDb(S)
    BY <1>3, OptLocals DEF ReadRows
  <2>2. PICK T \in SUBSET Keys : table \in [T -> Rows]
    BY DEF SharedTypeOK, IsDict
  <2>3. p[1] \in Clusters
    BY DEF Pairs
  <2>4. opt' \in AtWrite(S, T)
    BY <1>3, <2>1, <2>2, <2>3 DEF ReadRows, AtDb, AtWrite
  <2>5. OptType'
    BY <2>4 DEF OptType
  <2>6. OptOK'
    BY <1>3 DEF ReadRows, OptOK, RowsOK, shared
  <2>7. QED BY <1>1, <1>3, <2>5, <2>6 DEF ReadRows
<1>4. ASSUME NEW k \in Keys, MoveDevice(k) PROVE Inv'
  <2>1. PICK S \in SUBSET Keys, T \in SUBSET Keys : opt \in AtWrite(S, T)
    <3>1. opt.pc = "write" BY <1>4 DEF MoveDevice
    <3>2. QED BY <3>1, OptLocals
  <2>2. k \in T /\ opt.rows[k] \in Rows /\ RowsOK(opt.rows) /\ DOMAIN opt.rows = T
    BY <1>4, <2>1 DEF MoveDevice, OptOK, AtWrite
  <2>3. /\ opt.rows[k].reqId \in DocIds /\ opt.rows[k].req \in Reqs
        /\ KeyOf(opt.rows[k].req) = k /\ opt.rows[k].req \in held[opt.rows[k].reqId]
        /\ opt.cluster \in Clusters
    BY <2>1, <2>2 DEF RowsOK, Rows, AtWrite
  <2>4. /\ update_device_assignment(k, opt.cluster, opt.rows[k].reqId, opt.rows[k].req)
        /\ UNCHANGED <<docs, nextDoc, pool, faas, today, held, pending>>
    BY <1>4 DEF MoveDevice
  <2>5. TableOK' /\ Kept
    BY <2>3, <2>4, UpdateKeeps
  <2>6. SharedTypeOK' /\ RowsOK(table)' /\ DocsHeld' /\ Grows
    BY SMT, <2>4, <2>5 DEF SharedTypeOK, TableOK, DocsHeld, Grows, IsDict
  <2>7. /\ opt' \in AtWrite(S, T)
        /\ opt'.rows = opt.rows
    BY <1>4, <2>1 DEF MoveDevice, AtWrite
  <2>8. OptType'
    BY <2>7 DEF OptType
  <2>9. OptOK'
    BY <2>2, <2>4, <2>7 DEF OptOK, RowsOK
  <2>10. QED BY <2>4, <2>5, <2>6, <2>8, <2>9, OptimizerInv DEF IsDict
<1>5. CASE RowsMoved
  <2>1. PICK S \in SUBSET Keys, T \in SUBSET Keys : opt \in AtWrite(S, T)
    BY <1>5, OptLocals DEF RowsMoved
  <2>2. opt' \in AtDb(S)
    BY <1>5, <2>1 DEF RowsMoved, AtWrite, AtDb
  <2>3. QED BY <1>1, <1>5, <2>2, NotWriting DEF RowsMoved, OptType
<1>6. CASE EndCycle
  BY <1>1, <1>6, NotWriting DEF EndCycle, OptType
<1>7. CASE AbortCycle
  BY <1>1, <1>7, NotWriting DEF AbortCycle, OptType
<1>8. QED BY <1>2, <1>3, <1>4, <1>5, <1>6, <1>7

\* The cleanups of the optimizer's start and restart, and of the load daemon.
LEMMA CleanupStep ==
    ASSUME Inv, fe' = fe, UNCHANGED <<docs, nextDoc, pool, faas, today, held>>,
           cleanup_old_records \/ UNCHANGED table,
           \/ opt' \in {Sleeping, [pc |-> "read"]}
           \/ UNCHANGED opt,
           pending' = pending \/ pending' = EmptyDict
    PROVE  Inv'
<1> USE DEF Inv, TypeOK
<1>1. TableOK' /\ Kept
  <2>1. CASE cleanup_old_records
    BY <2>1, CleanupKeeps
  <2>2. CASE UNCHANGED table
    BY <2>2, SharedSame DEF shared
  <2>3. QED BY <2>1, <2>2
<1>2. SharedTypeOK' /\ RowsOK(table)' /\ DocsHeld' /\ Grows
  BY SMT, <1>1 DEF SharedTypeOK, TableOK, DocsHeld, Grows, IsDict
<1>3. OptType' /\ OptOK'
  <2>1. CASE UNCHANGED opt
    BY <1>2, <2>1, OptUndisturbed DEF OptType, SharedTypeOK
  <2>2. CASE opt' \in {Sleeping, [pc |-> "read"]}
    BY <2>2, NotWriting DEF OptType
  <2>3. QED BY <2>1, <2>2
<1>4. IsDict(pending, Pairs, Nat)'
  <2>1. {} \in SUBSET Pairs /\ EmptyDict \in [{} -> Nat]
    BY DEF EmptyDict
  <2>2. QED BY <2>1 DEF IsDict
<1>5. QED BY <1>1, <1>2, <1>3, <1>4, OptimizerInv

\* Days pass and clusters go.
LEMMA EnvironmentStep ==
    ASSUME Inv, UNCHANGED <<fe, optVars>>, Environment
    PROVE  Inv'
<1> USE DEF Inv, TypeOK, optVars
<1>1. \A k \in DOMAIN table : table[k].seen \in Nat /\ table[k].reqId \in DocIds
  BY DEF SharedTypeOK, IsDict, Rows
<1>2. ASSUME SharedTypeOK', RowsOK(table)', DocsHeld', Grows, Kept, nextDoc' = nextDoc
      PROVE  Inv'
  <2>1. OptType' /\ IsDict(pending, Pairs, Nat)'
    BY DEF OptType, IsDict
  <2>2. OptOK'
    BY <1>2, OptUndisturbed DEF SharedTypeOK
  <2>3. QED BY <1>2, <2>1, <2>2, OptimizerInv
<1>3. CASE NextDay
  <2>1. today \in Nat /\ today' = today + 1 /\ UNCHANGED <<table, docs, nextDoc, pool, faas, held>>
    BY <1>3 DEF NextDay, SharedTypeOK
  <2>2. SharedTypeOK' /\ DocsHeld' /\ Grows /\ Kept
    <3>1. SharedTypeOK' /\ DocsHeld'
      BY SMT, <2>1 DEF SharedTypeOK, IsDict, DocsHeld
    <3> HIDE DEF Inv, TypeOK
    <3>2. Grows
      BY SMT, <2>1 DEF Grows
    <3>3. Kept
      BY SMT, <1>1, <2>1 DEF Kept
    <3>4. QED BY <3>1, <3>2, <3>3
  <2>3. RowsOK(table)'
    <3>1. \A k \in DOMAIN table : table[k].seen <= today + 1
      BY SMT, <1>1, <2>1 DEF RowsOK
    <3>2. QED BY <2>1, <3>1 DEF RowsOK
  <2>4. QED BY <1>2, <2>1, <2>2, <2>3
<1>4. ASSUME NEW c \in Clusters, RemoveCluster(c) PROVE Inv'
  <2>1. pool' \subseteq Clusters /\ faas' \in [Clusters -> [Flavours -> Nat]]
    BY <1>4 DEF RemoveCluster, SharedTypeOK
  <2>2. SharedTypeOK' /\ DocsHeld' /\ Grows /\ Kept /\ RowsOK(table)'
    <3>1. UNCHANGED <<table, docs, nextDoc, today, held>> /\ today \in Nat
      BY <1>4 DEF RemoveCluster, SharedTypeOK
    <3>2. SharedTypeOK'
      BY <2>1, <3>1 DEF SharedTypeOK, IsDict
    <3>3. DocsHeld' /\ RowsOK(table)'
      BY <3>1 DEF DocsHeld, RowsOK
    <3> HIDE DEF Inv, TypeOK
    <3>4. Grows /\ Kept
      BY SMT, <1>1, <3>1 DEF Grows, Kept
    <3>5. QED BY <3>2, <3>3, <3>4
  <2>3. QED BY <1>2, <1>4, <2>2 DEF RemoveCluster
<1>5. CASE DaemonCleanup
  BY <1>5, CleanupStep DEF DaemonCleanup
<1>6. QED BY <1>3, <1>4, <1>5 DEF Environment

----------------------------------------------------------------------------
LEMMA InitInv == Init => Inv
<1> SUFFICES ASSUME Init PROVE Inv
  OBVIOUS
<1> USE StateAssumption DEF Init, InitShared
<1>1. \A K, V : IsDict([x \in {} |-> {}], K, V)
  <2>1. TAKE K, V
  <2>2. {} \in SUBSET K /\ [x \in {} |-> {}] \in [{} -> V]
    OBVIOUS
  <2>3. QED BY <2>2 DEF IsDict
<1>2. SharedTypeOK
  BY SMT, <1>1 DEF SharedTypeOK
<1>3. TypeOK
  BY <1>1, <1>2 DEF TypeOK, FeType, OptType, EmptyDict
<1>4. QED
  BY <1>3 DEF Inv, RowsOK, DocsHeld, FeOK, NewOK, SeenOK, OptOK, Idle, Sleeping

----------------------------------------------------------------------------
(* What the optimizer has scaled goes on running. *)

\* The devices of a flavour that an allocation places on a cluster.
PlacedOn(alloc, p) == {k \in DOMAIN alloc : <<alloc[k], k[2]>> = p}

\* The role of a pair has a VM, or its cluster is gone.
Runs(p) == faas[p[1]][p[2]] >= 1 \/ p[1] \notin pool

\* The targets of a solution.
Covers(alloc, targets) ==
    /\ \A p \in DOMAIN targets : targets[p] >= Cardinality(PlacedOn(alloc, p))
    /\ \A p \in DOMAIN targets : p \in SolutionPairs(alloc) => targets[p] >= 1

Serving ==
    /\ opt.pc = "scale" =>
         /\ Covers(opt.alloc, opt.targets)
         /\ \A p \in opt.scaled : p \in SolutionPairs(opt.alloc) => Runs(p)
    /\ opt.pc \in {"db", "write"} => \A p \in opt.scaled : Runs(p)
    /\ opt.pc = "write" => \A k \in opt.todo : Runs(<<opt.cluster, k[2]>>)

\* What a step does not take away.
RunsOn == \A p \in Pairs : Runs(p) => Runs(p)'

\* A step that touches no role and no cluster, and one of the frontend.
LEMMA FrontendRunsOn ==
    ASSUME TypeOK, FrontendNext
    PROVE  RunsOn
<1>1. CASE UNCHANGED <<faas, pool>>
  BY <1>1 DEF RunsOn, Runs
<1>2. CASE ScaleFaas
  <2>1. /\ fe.cluster \in Clusters /\ fe.flavour \in Flavours /\ fe.card \in Nat
        /\ faas \in [Clusters -> [Flavours -> Nat]]
    BY <1>2, FeLocals DEF ScaleFaas, TypeOK, SharedTypeOK
  <2>2. CASE UNCHANGED faas
    BY <1>1, <1>2, <2>2 DEF ScaleFaas
  <2>3. CASE faas' = [faas EXCEPT ![fe.cluster][fe.flavour] = fe.card + 1]
    <3>1. \A p \in Pairs : faas'[p[1]][p[2]] \in {faas[p[1]][p[2]], fe.card + 1}
      BY <2>1, <2>3 DEF Pairs
    <3>2. pool' = pool
      BY <1>2 DEF ScaleFaas
    <3>3. QED
      BY SMT, <2>1, <3>1, <3>2 DEF RunsOn, Runs
  <2>4. QED
    BY <1>2, <2>2, <2>3 DEF ScaleFaas
<1>3. CASE ~ScaleFaas
  <2>1. UNCHANGED <<faas, pool>>
    BY <1>3 DEF FrontendNext, Serve, upload_application_requirements,
       update_application_requirements, delete_application_requirements,
       get_edge_cluster_frontends, UploadCheck, UploadCreate, Touch, SelectCluster,
       ReadCardinality, InsertRow, UpdateRow, Reply, FrontendRestart, shared
  <2>2. QED
    BY <1>1, <2>1
<1>4. QED
  BY <1>2, <1>3

\* Days, cleanups, and a cluster that goes.
LEMMA EnvironmentRunsOn ==
    ASSUME TypeOK, Environment
    PROVE  RunsOn
<1>1. CASE NextDay \/ DaemonCleanup
  BY <1>1 DEF NextDay, DaemonCleanup, RunsOn, Runs
<1>2. ASSUME NEW c \in Clusters, RemoveCluster(c) PROVE RunsOn
  <2>1. /\ pool' = pool \ {c} /\ faas \in [Clusters -> [Flavours -> Nat]]
        /\ faas' = [faas EXCEPT ![c] = [f \in Flavours |-> 0]]
    BY <1>2 DEF RemoveCluster, TypeOK, SharedTypeOK
  <2>2. \A p \in Pairs : p[1] = c \/ faas'[p[1]][p[2]] = faas[p[1]][p[2]]
    BY <2>1 DEF Pairs
  <2>3. QED
    BY <2>1, <2>2 DEF RunsOn, Runs
<1>3. QED
  BY <1>1, <1>2 DEF Environment

\* Whatever others do, what the cycle has scaled goes on running.
LEMMA ServingUndisturbed ==
    ASSUME TypeOK, Serving, RunsOn, opt' = opt
    PROVE  Serving'
<1>1. CASE opt.pc = "scale"
  <2>1. opt.scaled \subseteq Pairs
    BY <1>1, OptLocals DEF TypeOK, AtScale
  <2>2. QED
    BY <1>1, <2>1 DEF Serving, RunsOn
<1>2. CASE opt.pc = "db"
  <2>1. opt.scaled \subseteq Pairs
    BY <1>2, OptLocals DEF TypeOK, AtDb
  <2>2. QED
    BY <1>2, <2>1 DEF Serving, RunsOn
<1>3. CASE opt.pc = "write"
  <2>1. PICK S \in SUBSET Keys, R \in SUBSET Keys : opt \in AtWrite(S, R)
    BY <1>3, OptLocals DEF TypeOK
  <2>2. opt.scaled \subseteq Pairs /\ \A k \in opt.todo : <<opt.cluster, k[2]>> \in Pairs
    BY <2>1 DEF AtWrite, Keys, Pairs
  <2>3. QED
    BY <1>3, <2>2 DEF Serving, RunsOn
<1>4. CASE opt.pc \notin {"scale", "db", "write"}
  BY <1>4 DEF Serving
<1>5. QED
  BY <1>1, <1>2, <1>3, <1>4

\* A scale call: the pair it succeeds for runs, and no other is touched.
LEMMA ServingScale ==
    ASSUME TypeOK, Serving, NEW p \in Pairs, NEW result,
           ScaleUp(p, result) \/ ScaleDown(p, result)
    PROVE  Serving'
<1>1. PICK S \in SUBSET Keys, P \in SUBSET Pairs : opt \in AtScale(S, P)
  <2>1. opt.pc = "scale"
    BY DEF ScaleUp, ScaleDown
  <2>2. QED
    BY <2>1, OptLocals DEF TypeOK
<1>2. p \in P /\ opt.targets \in [P -> Nat] /\ opt.pc = "scale" /\ opt.scaled \subseteq P
  BY <1>1 DEF ScaleUp, ScaleDown, AtScale
<1>3. /\ opt'.pc = "scale" /\ opt'.alloc = opt.alloc /\ opt'.targets = opt.targets
      /\ opt'.scaled = IF result = "SUCCESS" THEN opt.scaled \cup {p} ELSE opt.scaled
  <2>1. CASE ScaleUp(p, result)
    BY <1>1, <2>1 DEF ScaleUp, AtScale
  <2>2. CASE ScaleDown(p, result)
    BY <1>1, <2>2 DEF ScaleDown, AtScale
  <2>3. QED
    BY <2>1, <2>2
<1>4. pool' = pool /\ CallScale(p, result) /\ faas \in [Clusters -> [Flavours -> Nat]]
  BY DEF ScaleUp, ScaleDown, TypeOK, SharedTypeOK
<1>5. \/ UNCHANGED faas /\ result # "SUCCESS"
      \/ faas' = [faas EXCEPT ![p[1]][p[2]] = opt.targets[p]]
  BY <1>4 DEF CallScale
<1>6. \A q \in Pairs : q # p => faas'[q[1]][q[2]] = faas[q[1]][q[2]]
  BY SMT, <1>4, <1>5 DEF Pairs
<1>7. \/ UNCHANGED faas /\ result # "SUCCESS"
      \/ faas'[p[1]][p[2]] = opt.targets[p]
  BY SMT, <1>4, <1>5 DEF Pairs
<1>8. Covers(opt.alloc, opt.targets)
  BY <1>2 DEF Serving
<1>9. ASSUME NEW q \in opt'.scaled, q \in SolutionPairs(opt.alloc) PROVE Runs(q)'
  <2>1. CASE q # p
    BY <1>2, <1>3, <1>4, <1>6, <1>9, <2>1 DEF Serving, Runs
  <2>2. CASE q = p /\ faas'[p[1]][p[2]] = opt.targets[p]
    BY <1>2, <1>8, <1>9, <2>2 DEF Covers, Runs
  <2>3. CASE q = p /\ UNCHANGED faas /\ result # "SUCCESS"
    BY <1>2, <1>3, <1>4, <1>9, <2>3 DEF Serving, Runs
  <2>4. QED
    BY <1>7, <2>1, <2>2, <2>3
<1>10. QED
  BY <1>3, <1>8, <1>9 DEF Serving

\* The other steps of the optimizer, but for the plan.
LEMMA ServingOptimizer ==
    ASSUME TypeOK, Serving, OptimizerNext, ~Plan
    PROVE  Serving'
<1>1. ASSUME opt'.pc \notin {"scale", "db", "write"} PROVE Serving'
  BY <1>1 DEF Serving
<1>2. CASE StartCycle \/ ReadAssignments \/ Validated \/ EndCycle \/ AbortCycle \/ OptimizerRestart
  BY SMT, <1>1, <1>2 DEF StartCycle, ReadAssignments, Validated, EndCycle, AbortCycle,
     OptimizerRestart, Sleeping
<1>3. ASSUME NEW k \in Keys, Validate(k) PROVE Serving'
  <2>1. PICK S \in SUBSET Keys : opt \in AtValidate(S)
    <3>1. opt.pc = "validate"
      BY <1>3 DEF Validate
    <3>2. QED
      BY <3>1, OptLocals DEF TypeOK
  <2>2. opt'.pc = "validate"
    BY <1>3, <2>1 DEF Validate, AtValidate
  <2>3. QED
    BY <1>1, <2>2
<1>4. ASSUME NEW k \in Keys, FindFeasible(k) PROVE Serving'
  <2>1. PICK S \in SUBSET Keys, T \in SUBSET Keys : opt \in AtFeasible(S, T)
    <3>1. opt.pc = "feasible"
      BY <1>4 DEF FindFeasible
    <3>2. QED
      BY <3>1, OptLocals DEF TypeOK
  <2>2. \/ opt' = Sleeping
        \/ \E cs : opt' = [opt EXCEPT !.todo = @ \ {k}, !.feasible = Put(@, k, cs)]
    BY <1>4 DEF FindFeasible
  <2>3. opt'.pc \in {"feasible", "sleep"}
    <3>1. CASE opt' = Sleeping
      BY <3>1 DEF Sleeping
    <3>2. ASSUME NEW cs, opt' = [opt EXCEPT !.todo = @ \ {k}, !.feasible = Put(@, k, cs)]
          PROVE  opt'.pc = "feasible"
      <4> DEFINE F == Put(opt.feasible, k, cs)
      <4>1. opt' = [opt EXCEPT !.todo = @ \ {k}, !.feasible = F]
        BY <2>1, <3>2 DEF AtFeasible
      <4> HIDE DEF F
      <4>2. QED
        BY SMT, <2>1, <4>1 DEF AtFeasible
    <3>3. QED
      BY <2>2, <3>1, <3>2
  <2>4. QED
    BY <1>1, <2>3
<1>5. CASE Scaled
  BY <1>5 DEF Scaled, Serving, Runs, shared
<1>6. ASSUME NEW p \in Pairs, ReadRows(p) PROVE Serving'
  <2>1. /\ opt.pc = "db" /\ p \in opt.scaled /\ UNCHANGED <<faas, pool>>
        /\ opt'.pc = "write" /\ opt'.scaled = opt.scaled \ {p} /\ opt'.cluster = p[1]
        /\ \A k \in opt'.todo : k[2] = p[2]
    BY <1>6 DEF ReadRows, shared
  <2>2. QED
    BY <2>1 DEF Serving, Runs
<1>7. ASSUME NEW k \in Keys, MoveDevice(k) PROVE Serving'
  <2>1. PICK S \in SUBSET Keys, R \in SUBSET Keys : opt \in AtWrite(S, R)
    <3>1. opt.pc = "write"
      BY <1>7 DEF MoveDevice
    <3>2. QED
      BY <3>1, OptLocals DEF TypeOK
  <2>2. /\ opt'.pc = "write" /\ opt'.scaled = opt.scaled /\ opt'.cluster = opt.cluster
        /\ opt'.todo \subseteq opt.todo /\ UNCHANGED <<faas, pool>> /\ opt.pc = "write"
    BY <1>7, <2>1 DEF MoveDevice, AtWrite
  <2>3. QED
    BY <2>2 DEF Serving, Runs
<1>8. CASE RowsMoved
  BY <1>8 DEF RowsMoved, Serving, Runs, shared
<1>9. QED
  BY <1>2, <1>3, <1>4, <1>5, <1>6, <1>7, <1>8, ServingScale DEF OptimizerNext

----------------------------------------------------------------------------
(* The plan of a cycle. *)

\* The targets of a plan are natural numbers.
LEMMA TargetsType ==
    ASSUME IsDict(pending, Pairs, Nat),
           NEW T \in SUBSET Keys, NEW feasible \in [T -> SUBSET Clusters],
           NEW a \in Allocations(feasible)
    PROVE  /\ \E S \in SUBSET Keys : a \in [S -> Clusters]
           /\ \E P \in SUBSET Pairs : cluster_flavour_targets(feasible, a) \in [P -> Nat]
<1> DEFINE placed == {k \in DOMAIN feasible : feasible[k] # {}}
           fresh == SolutionPairs(a) \cup AbsentPairs(feasible, a)
           P == fresh \cup DOMAIN pending
<1>1. a \in [placed -> Clusters] /\ placed \in SUBSET Keys
  BY DEF Allocations
<1>2. IsFiniteSet(Keys)
  BY FS_Product, StateAssumption DEF Keys
<1>3. \A c : n_vms(a, c) \in Nat
  <2>1. TAKE c
  <2>2. {k \in DOMAIN a : a[k] = c} \subseteq Keys
    BY <1>1
  <2>3. IsFiniteSet({k \in DOMAIN a : a[k] = c})
    BY <1>2, <2>2, FS_Subset
  <2>4. QED BY <2>3, FS_CardinalityType DEF n_vms
<1>4. SolutionPairs(a) \subseteq Pairs
  BY SMT, <1>1 DEF SolutionPairs, Keys, Pairs
<1>5. AbsentPairs(feasible, a) \subseteq Pairs
  BY SMT, StateAssumption DEF AbsentPairs, FeasibleClusters, Pairs
<1>6. DOMAIN pending \subseteq Pairs /\ \A p \in DOMAIN pending : pending[p] \in Nat
  BY DEF IsDict
<1>7. P \in SUBSET Pairs
  BY <1>4, <1>5, <1>6
<1>8. cluster_flavour_targets(feasible, a)
        = [p \in P |-> IF p \in SolutionPairs(a) THEN n_vms(a, p[1])
                       ELSE IF p \in fresh THEN 0 ELSE pending[p]]
  BY DEF cluster_flavour_targets
<1>9. \A p \in P : (IF p \in SolutionPairs(a) THEN n_vms(a, p[1])
                    ELSE IF p \in fresh THEN 0 ELSE pending[p]) \in Nat
  BY <1>3, <1>6
<1>10. cluster_flavour_targets(feasible, a) \in [P -> Nat]
  BY <1>8, <1>9
<1>11. QED BY <1>1, <1>7, <1>10

\* The targets of a plan cover its allocation.
LEMMA PlanCovers ==
    ASSUME IsDict(pending, Pairs, Nat),
           NEW T \in SUBSET Keys, NEW feasible \in [T -> SUBSET Clusters],
           NEW a \in Allocations(feasible)
    PROVE  Covers(a, cluster_flavour_targets(feasible, a))
<1> DEFINE targets == cluster_flavour_targets(feasible, a)
           On(c) == {k \in DOMAIN a : a[k] = c}
<1>1. PICK S \in SUBSET Keys : a \in [S -> Clusters]
  BY TargetsType
<1>2. PICK P \in SUBSET Pairs : targets \in [P -> Nat]
  BY TargetsType
<1>3. IsFiniteSet(Keys)
  BY FS_Product, StateAssumption DEF Keys
<1>4. \A c : IsFiniteSet(On(c)) /\ Cardinality(On(c)) \in Nat
  <2>1. TAKE c
  <2>2. On(c) \subseteq Keys
    BY <1>1
  <2>3. IsFiniteSet(On(c))
    BY <1>3, <2>2, FS_Subset
  <2>4. QED
    BY <2>3, FS_CardinalityType
<1>5. \A p \in P : p \in SolutionPairs(a) => targets[p] = Cardinality(On(p[1]))
  BY <1>2 DEF cluster_flavour_targets, n_vms
<1> HIDE DEF targets
<1>6. ASSUME NEW p \in P, p \in SolutionPairs(a)
      PROVE  targets[p] >= Cardinality(PlacedOn(a, p)) /\ targets[p] >= 1
  <2>1. PICK k \in DOMAIN a : p = <<a[k], k[2]>>
    BY <1>6 DEF SolutionPairs
  <2>2. PlacedOn(a, p) \subseteq On(p[1]) /\ k \in On(p[1])
    BY <2>1 DEF PlacedOn
  <2> HIDE DEF On
  <2>3. Cardinality(PlacedOn(a, p)) <= Cardinality(On(p[1]))
    BY <1>4, <2>2, FS_Subset
  <2>4. Cardinality(On(p[1])) # 0
    BY <1>4, <2>2, FS_EmptySet
  <2>5. QED
    BY SMT, <1>4, <1>5, <1>6, <2>3, <2>4
<1>7. ASSUME NEW p \in P, p \notin SolutionPairs(a)
      PROVE  targets[p] >= Cardinality(PlacedOn(a, p))
  <2>1. PlacedOn(a, p) = {}
    BY <1>7 DEF PlacedOn, SolutionPairs
  <2>2. Cardinality(PlacedOn(a, p)) = 0
    BY <2>1, FS_EmptySet
  <2>3. QED
    BY SMT, <1>2, <2>2
<1>8. Covers(a, targets)
  BY <1>2, <1>6, <1>7 DEF Covers
<1>9. QED
  BY <1>8 DEF targets

\* The plan.
LEMMA PlanStep ==
    ASSUME Inv, fe' = fe, Plan
    PROVE  Inv'
<1> USE DEF Inv, TypeOK
<1>1. UNCHANGED shared
  BY DEF Plan
<1>2. PICK S \in SUBSET Keys, T \in SUBSET Keys : opt \in AtFeasible(S, T)
  <2>1. opt.pc = "feasible" BY DEF Plan
  <2>2. QED BY <2>1, OptLocals
<1>3. CASE opt' = Sleeping /\ UNCHANGED pending
  BY <1>1, <1>3, OptimizerLocal, NotWriting DEF OptType, IsDict
<1>4. CASE ~(opt' = Sleeping /\ UNCHANGED pending)
  <2>1. PICK a \in Allocations(opt.feasible) :
          \E ups, downs \in SUBSET DOMAIN cluster_flavour_targets(opt.feasible, a) :
            opt' = [pc |-> "scale", alloc |-> a,
                    targets |-> cluster_flavour_targets(opt.feasible, a),
                    ups |-> ups, downs |-> downs, scaled |-> {}]
    BY <1>4 DEF Plan
  <2>2. pending' = EmptyDict
    BY <1>4 DEF Plan
  <2>3. IsDict(pending, Pairs, Nat)'
    <3>1. {} \in SUBSET Pairs /\ pending' \in [{} -> Nat]
      BY <2>2 DEF EmptyDict
    <3>2. QED BY <3>1 DEF IsDict
  <2>4. /\ \E A \in SUBSET Keys : a \in [A -> Clusters]
        /\ \E P \in SUBSET Pairs :
             cluster_flavour_targets(opt.feasible, a) \in [P -> Nat]
    BY <1>2, TargetsType DEF AtFeasible
  <2>5. PICK A \in SUBSET Keys : a \in [A -> Clusters]
    BY <2>4
  <2>6. PICK P \in SUBSET Pairs :
          cluster_flavour_targets(opt.feasible, a) \in [P -> Nat]
    BY <2>4
  <2>7. opt' \in AtScale(A, P)
    <3> HIDE DEF Inv, TypeOK
    <3> DEFINE t == cluster_flavour_targets(opt.feasible, a)
    <3>1. t \in [P -> Nat]
      BY <2>6
    <3>2. PICK ups \in SUBSET DOMAIN t, downs \in SUBSET DOMAIN t :
            opt' = [pc |-> "scale", alloc |-> a, targets |-> t,
                    ups |-> ups, downs |-> downs, scaled |-> {}]
      BY <2>1
    <3> HIDE DEF t
    <3>3. ups \in SUBSET P /\ downs \in SUBSET P /\ {} \in SUBSET P
      BY <3>1
    <3>4. QED BY <2>5, <3>1, <3>2, <3>3 DEF AtScale
  <2>8. OptType' /\ OptOK'
    BY <2>7, NotWriting DEF OptType
  <2>9. QED BY <1>1, <2>3, <2>8, OptimizerLocal
<1>5. QED BY <1>3, <1>4

\* The plan.
LEMMA ServingPlan ==
    ASSUME TypeOK, Serving, Plan
    PROVE  Serving'
<1>1. PICK S \in SUBSET Keys, T \in SUBSET Keys : opt \in AtFeasible(S, T)
  BY OptLocals DEF Plan, TypeOK
<1>2. CASE opt' = Sleeping
  BY <1>2 DEF Serving, Sleeping
<1>3. CASE opt' # Sleeping
  <2>1. PICK a \in Allocations(opt.feasible) :
          /\ opt'.pc = "scale" /\ opt'.alloc = a /\ opt'.scaled = {}
          /\ opt'.targets = cluster_flavour_targets(opt.feasible, a)
    BY SMT, <1>3 DEF Plan
  <2>2. Covers(opt'.alloc, opt'.targets)
    BY SMT, <1>1, <2>1, PlanCovers DEF AtFeasible, TypeOK
  <2>3. QED
    BY <2>1, <2>2 DEF Serving
<1>4. QED
  BY <1>2, <1>3

----------------------------------------------------------------------------
LEMMA StepInv == Inv /\ [Next]_vars => Inv'
<1> SUFFICES ASSUME Inv, [Next]_vars PROVE Inv'
  OBVIOUS
<1>1. CASE FrontendNext /\ UNCHANGED optVars
  <2>1. CASE Serve
    BY <1>1, <2>1, UploadStep, LookupStep, WriteStep DEF Serve
  <2>2. CASE FrontendNext /\ ~Serve
    <3>1. ASSUME NEW id \in DocIds, delete_application_requirements(id) PROVE Inv'
      <4>1. PICK r \in Reqs : TRUE
        BY <3>1 DEF delete_application_requirements, Inv, TypeOK, SharedTypeOK, IsDict
      <4>2. QED BY <1>1, <3>1, DocumentStep
    <3>2. ASSUME NEW id \in DocIds, NEW r \in Reqs, update_application_requirements(id, r)
          PROVE  Inv'
      BY <1>1, <3>2, DocumentStep
    <3>3. QED
      BY <1>1, <2>2, <3>1, <3>2, UploadStep, LookupStep, WriteStep DEF FrontendNext
  <2>3. QED BY <1>1, <2>1, <2>2
<1>2. CASE OptimizerNext /\ UNCHANGED fe
  <2>1. CASE StartCycle
    BY <1>2, <2>1, CleanupStep DEF StartCycle
  <2>2. CASE OptimizerRestart
    BY <1>2, <2>2, CleanupStep DEF OptimizerRestart
  <2>3. CASE OptimizerNext /\ ~StartCycle /\ ~OptimizerRestart
    BY <1>2, <2>3, ReadsStep, PlanStep, ScaleStep, MoveStep DEF OptimizerNext
  <2>4. QED BY <1>2, <2>1, <2>2, <2>3
<1>3. CASE Environment /\ UNCHANGED <<fe, optVars>>
  BY <1>3, EnvironmentStep
<1>4. CASE UNCHANGED vars
  <2>1. UNCHANGED shared /\ fe' = fe /\ opt' = opt /\ pending' = pending
    BY <1>4 DEF vars
  <2>2. UNCHANGED <<docs, nextDoc, pool, faas, today, held>> /\ UNCHANGED table
    BY <2>1 DEF shared
  <2>3. QED BY <2>1, <2>2, CleanupStep
<1>5. QED BY <1>1, <1>2, <1>3, <1>4 DEF Next

LEMMA Invariance == Spec => []Inv
BY InitInv, StepInv, PTL DEF Spec

\* Every reachable state is well typed: in particular ids of new documents stay
\* in range and every scale target is a natural number.
THEOREM SystemTypeOK == Spec => []TypeOK
BY Invariance, PTL DEF Inv

\* No interleaving of frontend, optimizer and cleanups stores the requirement of
\* one device, or of one flavour, in the row of another.
THEOREM SystemRowMatchesKey == Spec => []RowMatchesKey
<1>1. Inv => RowMatchesKey
  BY DEF Inv, RowsOK, RowMatchesKey
<1>2. QED BY <1>1, Invariance, PTL

\* The document id and the requirement of a row always belong together.
THEOREM SystemSnapshotIsHistorical == Spec => []SnapshotIsHistorical
<1>1. Inv => SnapshotIsHistorical
  BY DEF Inv, RowsOK, SnapshotIsHistorical
<1>2. QED BY <1>1, Invariance, PTL

\* The INSERT at the end of a first assignment cannot fail on the primary key.
THEOREM SystemInsertNeverConflicts == Spec => []InsertNeverConflicts
<1>1. Inv => InsertNeverConflicts
  BY DEF Inv, NewOK, InsertNeverConflicts
<1>2. QED BY <1>1, Invariance, PTL

\* The UPDATE of a row the frontend has found misses it only if it had expired.
THEOREM SystemMissOnlyIfExpired == Spec => []MissOnlyIfExpired
<1>1. Inv => MissOnlyIfExpired
  BY DEF Inv, SeenOK, MissOnlyIfExpired
<1>2. QED BY <1>1, Invariance, PTL

LEMMA AlwaysServing == Spec => []Serving
<1>1. Init => Serving
  BY SMT DEF Init, Serving, Sleeping
<1>2. TypeOK /\ Serving /\ [Next]_vars => Serving'
  <2> SUFFICES ASSUME TypeOK, Serving, [Next]_vars PROVE Serving'
    OBVIOUS
  <2>1. CASE FrontendNext /\ UNCHANGED optVars
    BY <2>1, FrontendRunsOn, ServingUndisturbed DEF optVars
  <2>2. CASE OptimizerNext
    BY <2>2, ServingOptimizer, ServingPlan
  <2>3. CASE Environment /\ UNCHANGED <<fe, optVars>>
    BY <2>3, EnvironmentRunsOn, ServingUndisturbed DEF optVars
  <2>4. CASE UNCHANGED vars
    <3>1. RunsOn /\ opt' = opt
      BY <2>4 DEF vars, shared, RunsOn, Runs
    <3>2. QED
      BY <3>1, ServingUndisturbed
  <2>5. QED
    BY <2>1, <2>2, <2>3, <2>4 DEF Next
<1>3. QED
  BY <1>1, <1>2, SystemTypeOK, PTL DEF Spec

\* The optimizer never asks for fewer VMs of a pair than its solution places
\* devices on it, whatever retries of scale-downs were pending.
THEOREM SystemTargetCoversAllocation == Spec => []TargetCoversAllocation
<1>1. Serving => TargetCoversAllocation
  BY DEF Serving, Covers, PlacedOn, TargetCoversAllocation
<1>2. QED
  BY <1>1, AlwaysServing, PTL

\* The optimizer moves a device only to a cluster with a VM of its flavour, or
\* to one that was just removed.
THEOREM SystemMovedToServingCluster == Spec => MovedToServingCluster
<1> DEFINE Moved(k) == opt.pc = "write" /\ opt' # opt /\ table'[k].cluster # table[k].cluster
           Well == \A k \in DOMAIN table \cap DOMAIN table' :
                     Moved(k) => \/ faas[table'[k].cluster][k[2]] >= 1
                                 \/ table'[k].cluster \notin pool
<1>1. Serving /\ [Next]_vars => [Well]_vars
  <2> SUFFICES ASSUME Serving, Next, opt.pc = "write", opt' # opt,
                      NEW k \in DOMAIN table \cap DOMAIN table',
                      table'[k].cluster # table[k].cluster
               PROVE  \/ faas[table'[k].cluster][k[2]] >= 1
                      \/ table'[k].cluster \notin pool
    BY DEF vars
  <2>1. OptimizerNext
    BY DEF Next, optVars
  <2>2. ASSUME NEW j \in Keys, MoveDevice(j) PROVE j \in opt.todo /\ k = j /\ table'[k].cluster = opt.cluster
    BY <2>2 DEF MoveDevice, update_device_assignment
  <2>3. CASE UNCHANGED table \/ cleanup_old_records
    BY <2>3 DEF cleanup_old_records
  <2>4. \/ \E j \in Keys : MoveDevice(j)
        \/ UNCHANGED table \/ cleanup_old_records
    BY <2>1 DEF OptimizerNext, StartCycle, ReadAssignments, Validate, Validated, FindFeasible,
       Plan, ScaleUp, ScaleDown, Scaled, ReadRows, RowsMoved, EndCycle, AbortCycle,
       OptimizerRestart, shared
  <2>5. QED
    BY <2>2, <2>3, <2>4 DEF Serving, Runs
<1>2. QED
  BY <1>1, AlwaysServing, PTL DEF Spec, MovedToServingCluster
----------------------------------------------------------------------------
(* Devices are placed by their own documents. *)

\* Where the next assignment comes from: the cluster of a request in service, the
\* clusters found feasible for a row, the allocation, the rows to be moved.
FePlaced ==
    fe.pc \in {"update", "read_card", "scale", "insert"} =>
        Assignments!Suits(fe.key, fe.cluster)

OptPlaced ==
    /\ opt.pc \in {"validate", "feasible"} =>
         \A k \in DOMAIN opt.rows : /\ KeyOf(opt.rows[k].req) = k
                                    /\ opt.rows[k].req \in held[opt.rows[k].reqId]
    /\ opt.pc = "feasible" =>
         \A k \in DOMAIN opt.feasible :
             \A c \in opt.feasible[k] : Assignments!Suits(k, c)
    /\ opt.pc \in {"scale", "db", "write"} =>
         \A k \in DOMAIN opt.alloc : Assignments!Suits(k, opt.alloc[k])
    /\ opt.pc = "write" => \A k \in opt.todo : Assignments!Suits(k, opt.cluster)

Placing == PlacedForOwnDocument /\ FePlaced /\ OptPlaced

\* A cluster that one version of a document allows suits the keys of all its
\* versions.
LEMMA SuitsByDocument ==
    ASSUME NEW id \in DocIds, NEW r \in held[id], NEW s \in held[id],
           NEW c \in Feasible(r)
    PROVE  Assignments!Suits(KeyOf(s), c)
BY DEF Feasible, Assignments!Suits, Assignments!KeyOf, Assignments!Meets, KeyOf

\* What suited a device goes on suiting it.
LEMMA SuitsOn ==
    ASSUME Grows
    PROVE  \A k, c : Assignments!Suits(k, c) => Assignments!Suits(k, c)'
<1> SUFFICES ASSUME NEW k, NEW c, Assignments!Suits(k, c)
             PROVE  Assignments!Suits(k, c)'
  OBVIOUS
<1>1. PICK id \in DocIds : \E r, s \in held[id] :
        Assignments!KeyOf(s) = k /\ Assignments!Meets(c, r)
  BY DEF Assignments!Suits
<1>2. held[id] \subseteq held'[id]
  BY DEF Grows
<1>3. QED
  BY <1>1, <1>2 DEF Assignments!Suits, Assignments!KeyOf, Assignments!Meets

\* No step makes a document forget, or the clock go back.
LEMMA NextGrows ==
    ASSUME Inv, [Next]_vars
    PROVE  Grows
<1>1. today \in Nat /\ held \in [DocIds -> SUBSET Reqs]
  BY DEF Inv, TypeOK, SharedTypeOK
<1>2. ASSUME UNCHANGED <<today, held>> PROVE Grows
  BY SMT, <1>1, <1>2 DEF Grows
<1>3. ASSUME NEW i, NEW r, today' = today, held' = [held EXCEPT ![i] = @ \cup {r}]
      PROVE  Grows
  BY SMT, <1>1, <1>3 DEF Grows
<1>4. CASE FrontendNext
  BY <1>2, <1>3, <1>4 DEF FrontendNext, Serve, upload_application_requirements,
     update_application_requirements, delete_application_requirements,
     get_edge_cluster_frontends, UploadCheck, UploadCreate, Touch, SelectCluster,
     ReadCardinality, ScaleFaas, InsertRow, UpdateRow, Reply, FrontendRestart, shared
<1>5. CASE OptimizerNext
  BY <1>2, <1>5 DEF OptimizerNext, StartCycle, ReadAssignments, Validate, Validated,
     FindFeasible, Plan, ScaleUp, ScaleDown, Scaled, ReadRows, MoveDevice, RowsMoved,
     EndCycle, AbortCycle, OptimizerRestart, shared
<1>6. CASE Environment
  <2>1. CASE NextDay
    BY SMT, <1>1, <2>1 DEF NextDay, Grows
  <2>2. CASE ~NextDay
    BY <1>2, <1>6, <2>2 DEF Environment, RemoveCluster, DaemonCleanup
  <2>3. QED
    BY <2>1, <2>2
<1>7. QED
  BY <1>2, <1>4, <1>5, <1>6 DEF Next, vars, shared

\* A row keeps its cluster, or gets one that suits its device.
LEMMA RowsPlaced ==
    ASSUME Grows, PlacedForOwnDocument,
           \A k \in DOMAIN table' :
               \/ k \in DOMAIN table /\ table'[k].cluster = table[k].cluster
               \/ Assignments!Suits(k, table'[k].cluster)
    PROVE  PlacedForOwnDocument'
<1> SUFFICES ASSUME NEW k \in DOMAIN table', NEW c, c = table'[k].cluster
             PROVE  Assignments!Suits(k, c)'
  BY DEF PlacedForOwnDocument
<1>1. Assignments!Suits(k, c)
  BY DEF PlacedForOwnDocument
<1>2. QED
  BY <1>1, SuitsOn

\* The writes of the table, one by one.
LEMMA CleanupPlaces ==
    ASSUME Grows, PlacedForOwnDocument, cleanup_old_records
    PROVE  PlacedForOwnDocument'
BY RowsPlaced DEF cleanup_old_records

LEMMA TouchPlaces ==
    ASSUME SharedTypeOK, Grows, PlacedForOwnDocument, NEW k, update_last_seen(k)
    PROVE  PlacedForOwnDocument'
<1>1. \A x \in DOMAIN table : table[x] \in Rows
  BY DEF SharedTypeOK, IsDict
<1>2. \A x \in DOMAIN table : [table[x] EXCEPT !.seen = today].cluster = table[x].cluster
  BY <1>1 DEF Rows
<1>3. QED
  BY <1>2, RowsPlaced DEF update_last_seen

LEMMA AssignmentPlaces ==
    ASSUME Grows, PlacedForOwnDocument, NEW k, NEW c, NEW id, NEW r,
           Assignments!Suits(k, c),
           \/ update_device_assignment(k, c, id, r)
           \/ insert_device_assignment(k, c, id, r)
    PROVE  PlacedForOwnDocument'
<1> DEFINE new == [cluster |-> c, reqId |-> id, req |-> r, seen |-> today]
<1>1. new.cluster = c
  OBVIOUS
<1> HIDE DEF new
<1>2. \A x \in DOMAIN table' : \/ x = k /\ table'[x] = new
                               \/ x \in DOMAIN table /\ table'[x] = table[x]
  BY DEF update_device_assignment, insert_device_assignment, new
<1>3. QED
  BY <1>1, <1>2, RowsPlaced

\* A request in service keeps its cluster.
LEMMA FePlacedOn ==
    ASSUME Grows, FePlaced, fe' = fe
    PROVE  FePlaced'
BY SuitsOn DEF FePlaced

\* The steps of the frontend.
LEMMA FrontendPlaces ==
    ASSUME Inv, Placing, Grows, FrontendNext
    PROVE  PlacedForOwnDocument' /\ FePlaced'
<1> USE DEF Inv, TypeOK, Placing
<1>1. ASSUME UNCHANGED table PROVE PlacedForOwnDocument'
  BY <1>1, RowsPlaced
<1>2. ASSUME fe'.pc \in {"idle", "upload_check", "upload_create", "select_new",
                         "select_changed", "touch", "reply"}
      PROVE  FePlaced'
  BY <1>2 DEF FePlaced
<1>3. ASSUME NEW r \in Reqs, upload_application_requirements(r)
      PROVE  PlacedForOwnDocument' /\ FePlaced'
  BY <1>1, <1>2, <1>3 DEF upload_application_requirements, shared
<1>4. ASSUME NEW id \in DocIds, NEW r \in Reqs, update_application_requirements(id, r)
      PROVE  PlacedForOwnDocument' /\ FePlaced'
  BY <1>1, <1>4, FePlacedOn DEF update_application_requirements
<1>5. ASSUME NEW id \in DocIds, delete_application_requirements(id)
      PROVE  PlacedForOwnDocument' /\ FePlaced'
  BY <1>1, <1>5, FePlacedOn DEF delete_application_requirements
<1>6. ASSUME NEW id \in DocIds, get_edge_cluster_frontends(id)
      PROVE  PlacedForOwnDocument' /\ FePlaced'
  BY <1>1, <1>2, <1>6 DEF get_edge_cluster_frontends, shared
<1>7. CASE UploadCheck \/ UploadCreate \/ Reply
  BY SMT, <1>1, <1>2, <1>7 DEF UploadCheck, UploadCreate, Reply, shared, Idle
<1>8. CASE SelectCluster
  <2>1. fe.id \in DocIds /\ fe.req \in held[fe.id] /\ KeyOf(fe.req) = fe.key
    BY <1>8, FeLocals DEF SelectCluster, FeOK
  <2>2. \A c \in Closest(fe.req) : Assignments!Suits(fe.key, c)
    BY <2>1, SuitsByDocument DEF Closest
  <2>3. \/ fe' = Idle
        \/ \E c \in Closest(fe.req) : fe'.key = fe.key /\ fe'.cluster = c
    BY SMT, <1>8 DEF SelectCluster, Selected
  <2>4. FePlaced'
    <3>1. CASE fe' = Idle
      BY <1>2, <3>1 DEF Idle
    <3>2. CASE \E c \in Closest(fe.req) : fe'.key = fe.key /\ fe'.cluster = c
      BY <2>2, <3>2, SuitsOn DEF FePlaced
    <3>3. QED
      BY <2>3, <3>1, <3>2
  <2>5. QED
    BY <1>1, <1>8, <2>4 DEF SelectCluster, shared
<1>9. CASE ReadCardinality \/ ScaleFaas
  <2>1. /\ fe.pc \in {"read_card", "scale"} /\ UNCHANGED table
        /\ fe'.key = fe.key /\ fe'.cluster = fe.cluster
    BY SMT, <1>9 DEF ReadCardinality, ScaleFaas, Selected, shared
  <2>2. QED
    BY <1>1, <2>1, SuitsOn DEF FePlaced
<1>10. CASE Touch
  <2>1. fe'.pc = "reply" /\ update_last_seen(fe.key)
    BY <1>10 DEF Touch, Selected
  <2>2. QED
    BY <1>2, <2>1, TouchPlaces
<1>11. CASE InsertRow \/ UpdateRow
  <2>1. /\ fe'.pc = "reply" /\ Assignments!Suits(fe.key, fe.cluster)
        /\ \/ update_device_assignment(fe.key, fe.cluster, fe.id, fe.req)
           \/ insert_device_assignment(fe.key, fe.cluster, fe.id, fe.req)
    BY SMT, <1>11 DEF InsertRow, UpdateRow, Selected, FePlaced
  <2>2. QED
    BY <1>2, <2>1, AssignmentPlaces
<1>12. CASE FrontendRestart
  BY <1>2, <1>12, CleanupPlaces DEF FrontendRestart, Idle
<1>13. QED
  BY <1>3, <1>4, <1>5, <1>6, <1>7, <1>8, <1>9, <1>10, <1>11, <1>12 DEF FrontendNext, Serve
\* The optimizer's cycle keeps what it has decided.
LEMMA OptPlacedOn ==
    ASSUME TypeOK, Grows, OptPlaced, opt' = opt
    PROVE  OptPlaced'
<1>1. ASSUME opt.pc \in {"validate", "feasible"}, NEW k \in DOMAIN opt.rows
      PROVE  opt.rows[k].reqId \in DocIds
  <2>1. \E S \in SUBSET Keys : opt.rows \in [S -> Rows]
    BY <1>1, OptLocals DEF TypeOK, AtValidate, AtFeasible
  <2>2. QED
    BY <1>1, <2>1 DEF Rows
<1>2. QED
  BY <1>1, SuitsOn DEF OptPlaced, Grows

\* Reading the rows, validating them and finding their clusters.
LEMMA FeasiblePlaces ==
    ASSUME Inv, Placing, Grows, UNCHANGED shared,
           \/ ReadAssignments
           \/ \E k \in Keys : Validate(k)
           \/ Validated
           \/ \E k \in Keys : FindFeasible(k)
    PROVE  OptPlaced'
<1> USE DEF Inv, TypeOK, Placing
<1>1. held' = held
  BY DEF shared
<1>2. CASE ReadAssignments
  <2>1. opt'.pc = "validate" /\ opt'.rows = table
    BY <1>2 DEF ReadAssignments
  <2>2. QED
    BY <1>1, <2>1 DEF OptPlaced, RowsOK
<1>3. ASSUME NEW k \in Keys, Validate(k) PROVE OptPlaced'
  <2>1. PICK S \in SUBSET Keys : opt \in AtValidate(S)
    <3>1. opt.pc = "validate" BY <1>3 DEF Validate
    <3>2. QED BY <3>1, OptLocals
  <2>2. opt.pc = "validate" /\ opt'.pc = "validate" /\ opt'.rows = opt.rows
    BY <1>3, <2>1 DEF Validate, AtValidate
  <2>3. QED
    BY <1>1, <2>2 DEF OptPlaced
<1>4. CASE Validated
  <2>1. opt.pc = "validate"
    BY <1>4 DEF Validated
  <2>2. \/ opt'.pc = "sleep"
        \/ opt'.pc = "feasible" /\ opt'.rows = opt.rows /\ opt'.feasible = EmptyDict
    BY SMT, <1>4 DEF Validated, Sleeping
  <2>3. DOMAIN EmptyDict = {}
    BY DEF EmptyDict
  <2>4. QED
    BY <1>1, <2>1, <2>2, <2>3 DEF OptPlaced
<1>5. ASSUME NEW k \in Keys, FindFeasible(k) PROVE OptPlaced'
  <2>1. opt.pc = "feasible" /\ k \in opt.todo
    BY <1>5 DEF FindFeasible
  <2>2. PICK S \in SUBSET Keys, T \in SUBSET Keys : opt \in AtFeasible(S, T)
    BY <2>1, OptLocals
  <2>3. /\ opt.rows \in [S -> Rows] /\ opt.todo \subseteq S
        /\ opt.feasible \in [T -> SUBSET Clusters]
    BY <2>2 DEF AtFeasible
  <2> DEFINE id == opt.rows[k].reqId
  <2>4. id \in DocIds /\ KeyOf(opt.rows[k].req) = k /\ opt.rows[k].req \in held[id]
    BY <2>1, <2>3 DEF OptPlaced, Rows
  <2>5. id \in DOMAIN docs => \A c \in Feasible(docs[id]) : Assignments!Suits(k, c)
    BY <2>4, SuitsByDocument DEF DocsHeld
  <2> HIDE DEF id
  <2> DEFINE lost == opt' = [opt EXCEPT !.todo = @ \ {k}, !.feasible = Put(@, k, {})]
             cs == IF id \in DOMAIN docs /\ ~lost THEN Feasible(docs[id]) ELSE {}
  <2>6. /\ \A c \in cs : Assignments!Suits(k, c)
        /\ \/ opt' = Sleeping
           \/ opt' = [opt EXCEPT !.todo = @ \ {k}, !.feasible = Put(@, k, cs)]
    BY <1>5, <2>5 DEF FindFeasible, id
  <2> HIDE DEF cs
  <2>7. CASE opt' = Sleeping
    BY SMT, <2>7 DEF Sleeping, OptPlaced
  <2>8. CASE opt' = [opt EXCEPT !.todo = @ \ {k}, !.feasible = Put(@, k, cs)]
    <3> DEFINE F == Put(opt.feasible, k, cs)
    <3>1. /\ opt'.pc = "feasible" /\ opt'.rows = opt.rows /\ opt'.feasible = F
      <4>1. opt' = [opt EXCEPT !.todo = @ \ {k}, !.feasible = F]
        BY <2>2, <2>8 DEF AtFeasible
      <4> HIDE DEF F
      <4>2. QED
        BY <2>2, <4>1 DEF AtFeasible
    <3>2. \A j \in DOMAIN F : \/ j = k /\ F[j] = cs
                              \/ j \in DOMAIN opt.feasible /\ F[j] = opt.feasible[j]
      BY DEF Put
    <3> HIDE DEF F
    <3>3. ASSUME NEW j \in DOMAIN F, NEW c \in F[j] PROVE Assignments!Suits(j, c)
      BY ZenonT(40), <2>1, <2>6, <3>2, <3>3 DEF OptPlaced
    <3>4. \A j \in DOMAIN opt'.feasible : \A c \in opt'.feasible[j] : Assignments!Suits(j, c)'
      BY <3>1, <3>3, SuitsOn
    <3>5. QED
      BY <1>1, <2>1, <3>1, <3>4 DEF OptPlaced
  <2>9. QED
    BY <2>6, <2>7, <2>8
<1>6. QED
  BY <1>2, <1>3, <1>4, <1>5

\* The plan chooses among the clusters found.
LEMMA PlanPlaces ==
    ASSUME Placing, Grows, Plan
    PROVE  OptPlaced'
<1>1. CASE opt' = Sleeping
  BY SMT, <1>1 DEF Sleeping, OptPlaced
<1>2. CASE opt' # Sleeping
  <2>1. PICK a \in Allocations(opt.feasible) : opt'.pc = "scale" /\ opt'.alloc = a
    BY SMT, <1>2 DEF Plan
  <2>2. \A k \in DOMAIN a : k \in DOMAIN opt.feasible /\ a[k] \in opt.feasible[k]
    BY DEF Allocations
  <2>3. \A k \in DOMAIN a : Assignments!Suits(k, a[k])
    BY <2>2 DEF Plan, Placing, OptPlaced
  <2>4. QED
    BY <2>1, <2>3, SuitsOn DEF OptPlaced
<1>3. QED
  BY <1>1, <1>2

\* The steps that only carry the allocation on, and the end of a cycle.
LEMMA CarriesPlaced ==
    ASSUME Grows, OptPlaced,
           \/ opt'.pc \in {"sleep", "read"}
           \/ /\ opt.pc \in {"scale", "db", "write"} /\ opt'.pc \in {"scale", "db"}
              /\ opt'.alloc = opt.alloc
           \/ /\ opt.pc = "write" /\ opt'.pc = "write" /\ opt'.alloc = opt.alloc
              /\ opt'.cluster = opt.cluster /\ opt'.todo \subseteq opt.todo
    PROVE  OptPlaced'
BY SuitsOn DEF OptPlaced

\* The steps of the optimizer.
LEMMA OptimizerPlaces ==
    ASSUME Inv, Placing, Grows, OptimizerNext
    PROVE  PlacedForOwnDocument' /\ OptPlaced'
<1> USE DEF Inv, TypeOK, Placing
<1>1. ASSUME UNCHANGED table PROVE PlacedForOwnDocument'
  BY <1>1, RowsPlaced
<1>2. CASE StartCycle \/ OptimizerRestart
  <2>1. opt'.pc \in {"sleep", "read"} /\ (cleanup_old_records \/ UNCHANGED table)
    BY SMT, <1>2 DEF StartCycle, OptimizerRestart, Sleeping
  <2>2. QED
    BY <1>1, <2>1, CarriesPlaced, CleanupPlaces
<1>3. CASE \/ ReadAssignments \/ Validated
           \/ \E k \in Keys : Validate(k) \/ FindFeasible(k)
  <2>1. UNCHANGED shared
    BY <1>3 DEF ReadAssignments, Validated, Validate, FindFeasible
  <2>2. QED
    BY <1>1, <1>3, <2>1, FeasiblePlaces DEF shared
<1>4. CASE Plan
  BY <1>1, <1>4, PlanPlaces DEF Plan, shared
<1>5. ASSUME NEW p \in Pairs, NEW result, ScaleUp(p, result) \/ ScaleDown(p, result)
      PROVE  PlacedForOwnDocument' /\ OptPlaced'
  <2>1. opt.pc = "scale" /\ UNCHANGED table
    BY <1>5 DEF ScaleUp, ScaleDown
  <2>2. PICK S \in SUBSET Keys, P \in SUBSET Pairs : opt \in AtScale(S, P)
    BY <2>1, OptLocals
  <2>3. opt'.pc = "scale" /\ opt'.alloc = opt.alloc
    <3>1. CASE ScaleUp(p, result)
      BY <2>2, <3>1 DEF ScaleUp, AtScale
    <3>2. CASE ScaleDown(p, result)
      BY <2>2, <3>2 DEF ScaleDown, AtScale
    <3>3. QED
      BY <1>5, <3>1, <3>2
  <2>4. QED
    BY <1>1, <2>1, <2>3, CarriesPlaced
<1>6. CASE Scaled \/ RowsMoved
  <2>1. /\ opt.pc \in {"scale", "write"} /\ opt'.pc = "db" /\ opt'.alloc = opt.alloc
        /\ UNCHANGED table
    BY SMT, <1>6 DEF Scaled, RowsMoved, shared
  <2>2. QED
    BY <1>1, <2>1, CarriesPlaced
<1>7. ASSUME NEW p \in Pairs, ReadRows(p) PROVE PlacedForOwnDocument' /\ OptPlaced'
  <2>1. /\ opt.pc = "db" /\ opt'.pc = "write" /\ opt'.alloc = opt.alloc /\ UNCHANGED table
        /\ opt'.cluster = p[1]
        /\ \A k \in opt'.todo : k \in DOMAIN opt.alloc /\ opt.alloc[k] = p[1]
    BY SMT, <1>7 DEF ReadRows, shared
  <2>2. QED
    BY <1>1, <2>1, SuitsOn DEF OptPlaced
<1>8. ASSUME NEW k \in Keys, MoveDevice(k) PROVE PlacedForOwnDocument' /\ OptPlaced'
  <2>1. /\ opt.pc = "write" /\ k \in opt.todo
        /\ update_device_assignment(k, opt.cluster, opt.rows[k].reqId, opt.rows[k].req)
    BY <1>8 DEF MoveDevice
  <2>2. PICK S \in SUBSET Keys, T \in SUBSET Keys : opt \in AtWrite(S, T)
    BY <2>1, OptLocals
  <2>3. /\ opt'.pc = "write" /\ opt'.alloc = opt.alloc /\ opt'.cluster = opt.cluster
        /\ opt'.todo \subseteq opt.todo
    BY <1>8, <2>2 DEF MoveDevice, AtWrite
  <2>4. Assignments!Suits(k, opt.cluster)
    BY <2>1 DEF OptPlaced
  <2>5. QED
    BY <2>1, <2>3, <2>4, CarriesPlaced, AssignmentPlaces
<1>9. CASE EndCycle \/ AbortCycle
  <2>1. opt'.pc = "sleep" /\ UNCHANGED table
    BY SMT, <1>9 DEF EndCycle, AbortCycle, Sleeping, shared
  <2>2. QED
    BY <1>1, <2>1, CarriesPlaced
<1>10. QED
  BY <1>2, <1>3, <1>4, <1>5, <1>6, <1>7, <1>8, <1>9 DEF OptimizerNext
\* Days, cleanups and clusters that go move nobody.
LEMMA EnvironmentPlaces ==
    ASSUME Placing, Grows, Environment
    PROVE  PlacedForOwnDocument'
<1>1. cleanup_old_records \/ UNCHANGED table
  BY DEF Environment, NextDay, RemoveCluster, DaemonCleanup
<1>2. QED
  BY <1>1, RowsPlaced, CleanupPlaces DEF Placing

LEMMA AlwaysPlacing == Spec => []Placing
<1>1. Init => Placing
  <2> SUFFICES ASSUME Init PROVE Placing
    OBVIOUS
  <2>1. DOMAIN table = {} /\ fe.pc = "idle" /\ opt.pc = "sleep"
    BY SMT DEF Init, InitShared, Idle, Sleeping
  <2>2. QED
    BY <2>1 DEF Placing, PlacedForOwnDocument, FePlaced, OptPlaced
<1>2. Inv /\ Placing /\ [Next]_vars => Placing'
  <2> SUFFICES ASSUME Inv, Placing, [Next]_vars PROVE Placing'
    OBVIOUS
  <2>1. Grows
    BY NextGrows
  <2>2. CASE FrontendNext /\ UNCHANGED optVars
    BY <2>1, <2>2, FrontendPlaces, OptPlacedOn DEF Placing, Inv, optVars
  <2>3. CASE OptimizerNext /\ UNCHANGED fe
    BY <2>1, <2>3, OptimizerPlaces, FePlacedOn DEF Placing
  <2>4. CASE Environment /\ UNCHANGED <<fe, optVars>>
    BY <2>1, <2>4, EnvironmentPlaces, FePlacedOn, OptPlacedOn DEF Placing, Inv, optVars
  <2>5. CASE UNCHANGED vars
    <3>1. UNCHANGED table /\ fe' = fe /\ opt' = opt
      BY <2>5 DEF vars, shared
    <3>2. QED
      BY <2>1, <3>1, RowsPlaced, FePlacedOn, OptPlacedOn DEF Placing, Inv
  <2>6. QED
    BY <2>2, <2>3, <2>4, <2>5 DEF Next
<1>3. QED
  BY <1>1, <1>2, Invariance, PTL DEF Spec

\* A device is only ever assigned to a cluster that one of its own documents has
\* allowed, by the frontend or by an optimizer that decided on stale rows.
THEOREM SystemPlacedForOwnDocument == Spec => []PlacedForOwnDocument
BY AlwaysPlacing, PTL DEF Placing

----------------------------------------------------------------------------
(* The system implements the contract of the table. *)

\* A step that the contract does not see.
LEMMA ContractStutter ==
    ASSUME UNCHANGED <<table, held, today>>
    PROVE  [Assignments!Next]_(Assignments!vars)
BY DEF Assignments!vars

\* cleanup_old_records is a purge.
LEMMA CleanupIsPurge ==
    ASSUME SharedTypeOK, cleanup_old_records, UNCHANGED <<held, today>>
    PROVE  [Assignments!Next]_(Assignments!vars)
<1>1. today \in Nat /\ DB_CLEANUP_DAYS \in Nat
  BY StateAssumption DEF SharedTypeOK
<1>2. \A k \in DOMAIN table : table[k].seen \in Nat
  BY DEF SharedTypeOK, IsDict, Rows
<1>3. \A k \in DOMAIN table : ~Expired(table[k]) <=> today <= table[k].seen + DB_CLEANUP_DAYS
  BY SMT, <1>1, <1>2 DEF Expired
<1>4. {k \in DOMAIN table : ~Expired(table[k])}
        = {k \in DOMAIN table : today <= table[k].seen + DB_CLEANUP_DAYS}
  BY <1>3
<1>5. Assignments!Purge
  BY <1>4 DEF cleanup_old_records, Assignments!Purge
<1>6. QED
  BY <1>5 DEF Assignments!Next

\* update_last_seen renews a row, or finds none.
LEMMA TouchRenews ==
    ASSUME SharedTypeOK, NEW k, update_last_seen(k), UNCHANGED <<held, today>>
    PROVE  [Assignments!Next]_(Assignments!vars)
<1>1. PICK D \in SUBSET Keys : table \in [D -> Rows]
  BY DEF SharedTypeOK, IsDict
<1>2. CASE k \in D
  <2>1. table' = [table EXCEPT ![k].seen = today]
    BY <1>1, <1>2 DEF update_last_seen
  <2>2. Assignments!Renew(k)
    BY <2>1 DEF Assignments!Renew
  <2>3. QED
    BY <1>1, <1>2, <2>2 DEF Assignments!Next
<1>3. CASE k \notin D
  <2>1. table' = table
    BY <1>1, <1>3 DEF update_last_seen
  <2>2. QED
    BY <2>1, ContractStutter
<1>4. QED
  BY <1>2, <1>3

\* update_device_assignment replaces a row, or finds none.
LEMMA UpdateAssigns ==
    ASSUME SharedTypeOK, NEW c \in Clusters, NEW id \in DocIds, NEW r \in Reqs,
           r \in held[id], Assignments!Suits(KeyOf(r), c),
           update_device_assignment(KeyOf(r), c, id, r), UNCHANGED <<held, today>>
    PROVE  [Assignments!Next]_(Assignments!vars)
<1>1. PICK D \in SUBSET Keys : table \in [D -> Rows]
  BY DEF SharedTypeOK, IsDict
<1>2. CASE KeyOf(r) \in D
  <2>1. DOMAIN table = DOMAIN table \cup {KeyOf(r)} /\ KeyOf(r) = Assignments!KeyOf(r)
    BY <1>1, <1>2 DEF KeyOf, Assignments!KeyOf
  <2>2. Assignments!Assign(c, id, r)
    BY <2>1 DEF update_device_assignment, Assignments!Assign
  <2>3. QED
    BY <2>2 DEF Assignments!Next
<1>3. CASE KeyOf(r) \notin D
  <2>1. table' = table
    BY <1>1, <1>3 DEF update_device_assignment
  <2>2. QED
    BY <2>1, ContractStutter
<1>4. QED
  BY <1>2, <1>3

\* insert_device_assignment writes a new row.
LEMMA InsertAssigns ==
    ASSUME NEW c \in Clusters, NEW id \in DocIds, NEW r \in Reqs,
           r \in held[id], Assignments!Suits(KeyOf(r), c),
           insert_device_assignment(KeyOf(r), c, id, r), UNCHANGED <<held, today>>
    PROVE  [Assignments!Next]_(Assignments!vars)
<1>1. KeyOf(r) = Assignments!KeyOf(r)
  BY DEF KeyOf, Assignments!KeyOf
<1>2. Assignments!Assign(c, id, r)
  BY <1>1 DEF insert_device_assignment, Assignments!Assign
<1>3. QED
  BY <1>2 DEF Assignments!Next

\* The frontend's steps.
LEMMA FrontendKeepsContract ==
    ASSUME Inv, Placing, FrontendNext
    PROVE  [Assignments!Next]_(Assignments!vars)
<1> USE DEF Inv, TypeOK
<1>1. CASE UploadCreate
  <2>1. fe.req \in Reqs /\ nextDoc <= MaxDocs /\ nextDoc \in 1..(MaxDocs + 1)
    BY <1>1, FeLocals DEF UploadCreate, FeOK, SharedTypeOK
  <2>2. nextDoc \in DocIds
    <3>1. MaxDocs \in Nat
      BY StateAssumption
    <3> HIDE DEF Inv, TypeOK
    <3>2. QED
      BY SMT, <2>1, <3>1 DEF DocIds
  <2>3. Assignments!Record(nextDoc, fe.req)
    BY <1>1 DEF UploadCreate, Assignments!Record
  <2>4. QED
    BY <2>1, <2>2, <2>3 DEF Assignments!Next
<1>2. ASSUME NEW id \in DocIds, NEW r \in Reqs, update_application_requirements(id, r)
      PROVE  [Assignments!Next]_(Assignments!vars)
  <2>1. Assignments!Record(id, r)
    BY <1>2 DEF update_application_requirements, Assignments!Record
  <2>2. QED
    BY <2>1 DEF Assignments!Next
<1>3. CASE FrontendRestart
  BY <1>3, CleanupIsPurge DEF FrontendRestart
<1>4. CASE Touch
  BY <1>4, TouchRenews DEF Touch
<1>5. ASSUME fe.pc \in {"insert", "update"}
      PROVE  /\ fe.cluster \in Clusters /\ fe.id \in DocIds /\ fe.req \in Reqs
             /\ fe.req \in held[fe.id] /\ KeyOf(fe.req) = fe.key
             /\ Assignments!Suits(fe.key, fe.cluster)
  BY <1>5, FeLocals DEF FeOK, Placing, FePlaced
<1>6. CASE InsertRow
  BY <1>5, <1>6, InsertAssigns DEF InsertRow
<1>7. CASE UpdateRow
  BY <1>5, <1>7, UpdateAssigns DEF UpdateRow
<1>8. CASE UNCHANGED <<table, held, today>>
  BY <1>8, ContractStutter
<1>9. QED
  BY <1>1, <1>2, <1>3, <1>4, <1>6, <1>7, <1>8 DEF FrontendNext, Serve,
     upload_application_requirements, delete_application_requirements,
     get_edge_cluster_frontends, UploadCheck, SelectCluster, ReadCardinality, ScaleFaas,
     Reply, shared

\* The optimizer's.
LEMMA OptimizerKeepsContract ==
    ASSUME Inv, Placing, OptimizerNext
    PROVE  [Assignments!Next]_(Assignments!vars)
<1> USE DEF Inv, TypeOK
<1>1. ASSUME NEW k \in Keys, MoveDevice(k) PROVE [Assignments!Next]_(Assignments!vars)
  <2>1. /\ opt.pc = "write" /\ k \in opt.todo /\ UNCHANGED <<held, today>>
        /\ update_device_assignment(k, opt.cluster, opt.rows[k].reqId, opt.rows[k].req)
    BY <1>1 DEF MoveDevice
  <2>2. PICK S \in SUBSET Keys, T \in SUBSET Keys : opt \in AtWrite(S, T)
    BY <2>1, OptLocals
  <2>3. k \in T /\ opt.rows[k] \in Rows /\ DOMAIN opt.rows = T /\ opt.cluster \in Clusters
    BY <2>1, <2>2 DEF AtWrite
  <2>4. /\ opt.rows[k].reqId \in DocIds /\ opt.rows[k].req \in Reqs
        /\ KeyOf(opt.rows[k].req) = k /\ opt.rows[k].req \in held[opt.rows[k].reqId]
    BY <2>1, <2>3 DEF OptOK, RowsOK, Rows
  <2>5. Assignments!Suits(k, opt.cluster)
    BY <2>1 DEF Placing, OptPlaced
  <2>6. QED
    BY <2>1, <2>3, <2>4, <2>5, UpdateAssigns
<1>2. CASE UNCHANGED <<held, today>> /\ cleanup_old_records
  BY <1>2, CleanupIsPurge
<1>3. CASE UNCHANGED <<table, held, today>>
  BY <1>3, ContractStutter
<1>4. QED
  BY <1>1, <1>2, <1>3 DEF OptimizerNext, StartCycle, ReadAssignments, Validate, Validated,
     FindFeasible, Plan, ScaleUp, ScaleDown, Scaled, ReadRows, RowsMoved, EndCycle,
     AbortCycle, OptimizerRestart, shared

\* The frontend, the optimizer and the cleanups together implement the contract
\* of the assignment table, for any interleaving of their steps and any faults.
THEOREM SystemKeepsContract == Spec => KeepsContract
<1>1. Init => Assignments!Init
  BY DEF Init, InitShared, Assignments!Init
<1>2. Inv /\ Placing /\ [Next]_vars => [Assignments!Next]_(Assignments!vars)
  <2> SUFFICES ASSUME Inv, Placing, [Next]_vars
               PROVE  [Assignments!Next]_(Assignments!vars)
    OBVIOUS
  <2>1. CASE FrontendNext
    BY <2>1, FrontendKeepsContract
  <2>2. CASE OptimizerNext
    BY <2>2, OptimizerKeepsContract
  <2>3. CASE Environment
    <3>1. CASE NextDay
      BY <3>1 DEF NextDay, Assignments!NextDate, Assignments!Next
    <3>2. CASE DaemonCleanup
      BY <3>2, CleanupIsPurge DEF DaemonCleanup, Inv, TypeOK
    <3>3. CASE \E c \in Clusters : RemoveCluster(c)
      BY <3>3, ContractStutter DEF RemoveCluster
    <3>4. QED
      BY <2>3, <3>1, <3>2, <3>3 DEF Environment
  <2>4. CASE UNCHANGED vars
    BY <2>4, ContractStutter DEF vars, shared
  <2>5. QED
    BY <2>1, <2>2, <2>3, <2>4 DEF Next
<1>3. QED
  BY <1>1, <1>2, Invariance, AlwaysPlacing, PTL DEF Spec, KeepsContract, Assignments!Spec
=============================================================================
