------------------------------ MODULE Frontend ------------------------------
(***************************************************************************)
(* cognit-frontend: one uvicorn process.  The handlers are `async def` but *)
(* never await, so the process serves one request at a time; what          *)
(* interleaves with a request are the other processes.  `fe` is the        *)
(* request in service: its pc and the locals the rest of the handler needs.*)
(* An answer (a value or an HTTP error) returns to "idle".                 *)
(***************************************************************************)
EXTENDS CognitState

VARIABLE fe

Idle == [pc |-> "idle"]

Selected(pc, k, id, r, c) ==
    [pc |-> pc, key |-> k, id |-> id, req |-> r, cluster |-> c]

FeType ==
    \/ fe = Idle
    \/ fe \in [pc : {"upload_check"}, id : DocIds, req : Reqs]
    \/ fe \in [pc : {"upload_create"}, req : Reqs]
    \/ fe \in [pc : {"select_new"}, key : Keys, id : DocIds, req : Reqs]
    \/ fe \in [pc : {"select_changed"}, key : Keys, id : DocIds, req : Reqs, seen : Nat]
    \/ fe \in [pc : {"touch", "update"}, key : Keys, id : DocIds, req : Reqs,
               cluster : Clusters, seen : Nat]
    \/ fe \in [pc : {"read_card", "insert", "reply"}, key : Keys, id : DocIds,
               req : Reqs, cluster : Clusters]
    \/ fe \in [pc : {"scale"}, key : Keys, id : DocIds, req : Reqs,
               cluster : Clusters, flavour : Flavours, card : Nat]

----------------------------------------------------------------------------
(* POST /v1/app_requirements *)

upload_application_requirements(r) ==
    /\ fe = Idle
    /\ nextDoc <= MaxDocs
    /\ LET k == <<r.dev, r.flavour>> IN
         fe' = IF k \in DOMAIN table
               THEN [pc |-> "upload_check", id |-> table[k].reqId, req |-> r]
               ELSE [pc |-> "upload_create", req |-> r]
    /\ UNCHANGED shared

\* The cached document: gone (404), the same requirements (its id), or other
\* requirements (a new document).
UploadCheck ==
    /\ fe.pc = "upload_check"
    /\ fe' = IF fe.id \in DOMAIN docs /\ docs[fe.id] # fe.req
             THEN [pc |-> "upload_create", req |-> fe.req]
             ELSE Idle
    /\ UNCHANGED shared

UploadCreate ==
    /\ fe.pc = "upload_create"
    /\ docs' = [i \in DOMAIN docs \cup {nextDoc} |->
                  IF i = nextDoc THEN fe.req ELSE docs[i]]
    /\ held' = [held EXCEPT ![nextDoc] = @ \cup {fe.req}]
    /\ nextDoc' = nextDoc + 1
    /\ fe' = Idle
    /\ UNCHANGED <<table, pool, faas, today>>

(* PUT and DELETE /v1/app_requirements/{id}: documents are only written by
   this process, so the lookup and the write are one step. *)

update_application_requirements(id, r) ==
    /\ fe = Idle
    /\ id \in DOMAIN docs
    /\ Cardinality(held[id] \cup {r}) <= MaxVersions
    /\ docs' = [docs EXCEPT ![id] = r]
    /\ held' = [held EXCEPT ![id] = @ \cup {r}]
    /\ UNCHANGED <<table, nextDoc, pool, faas, today, fe>>

delete_application_requirements(id) ==
    /\ fe = Idle
    /\ id \in DOMAIN docs
    /\ docs' = [i \in DOMAIN docs \ {id} |-> docs[i]]
    /\ UNCHANGED <<table, nextDoc, pool, faas, today, held, fe>>

----------------------------------------------------------------------------
(* GET /v1/app_requirements/{id}/ec_fe *)

\* Mutant: requirements without a device id are not turned away.
EcFeAnyDevice(id) ==
    /\ fe = Idle
    /\ id \in DOMAIN docs
    /\ LET r == docs[id]
           k == <<r.dev, r.flavour>>
       IN fe' = IF k \notin DOMAIN table
                THEN [pc |-> "select_new", key |-> k, id |-> id, req |-> r]
                ELSE [pc |-> "touch", key |-> k, id |-> id, req |-> r,
                      cluster |-> table[k].cluster, seen |-> table[k].seen]
    /\ UNCHANGED shared

\* Mutant: a row with other requirements counts as no row.
EcFeChangedIsNew(id) ==
    /\ fe = Idle
    /\ id \in DOMAIN docs
    /\ docs[id].dev # NoDevice
    /\ LET r == docs[id]
           k == <<r.dev, r.flavour>>
       IN fe' = IF k \notin DOMAIN table \/ table[k].req # r
                THEN [pc |-> "select_new", key |-> k, id |-> id, req |-> r]
                ELSE [pc |-> "touch", key |-> k, id |-> id, req |-> r,
                      cluster |-> table[k].cluster, seen |-> table[k].seen]
    /\ UNCHANGED shared

\* Mutant: every row that does not match is updated, also one that is not there.
EcFeNewIsChanged(id) ==
    /\ fe = Idle
    /\ id \in DOMAIN docs
    /\ docs[id].dev # NoDevice
    /\ LET r == docs[id]
           k == <<r.dev, r.flavour>>
       IN fe' = IF k \in DOMAIN table /\ table[k].req = r
                THEN [pc |-> "touch", key |-> k, id |-> id, req |-> r,
                      cluster |-> table[k].cluster, seen |-> table[k].seen]
                ELSE [pc |-> "select_changed", key |-> k, id |-> id, req |-> r,
                      seen |-> today]
    /\ UNCHANGED shared

\* Mutant: the cache hit is decided by the document id alone.
EcFeSameDocument(id) ==
    /\ fe = Idle
    /\ id \in DOMAIN docs
    /\ docs[id].dev # NoDevice
    /\ LET r == docs[id]
           k == <<r.dev, r.flavour>>
       IN fe' = IF k \notin DOMAIN table
                THEN [pc |-> "select_new", key |-> k, id |-> id, req |-> r]
                ELSE IF table[k].reqId = id
                THEN [pc |-> "touch", key |-> k, id |-> id, req |-> r,
                      cluster |-> table[k].cluster, seen |-> table[k].seen]
                ELSE [pc |-> "select_changed", key |-> k, id |-> id, req |-> r,
                      seen |-> table[k].seen]
    /\ UNCHANGED shared

\* The document and the cached row.  Without a device ID the handler lists
\* all matching clusters and touches nothing: no action models it.
get_edge_cluster_frontends(id) ==
    /\ fe = Idle
    /\ id \in DOMAIN docs
    /\ docs[id].dev # NoDevice
    /\ LET r == docs[id]
           k == <<r.dev, r.flavour>>
       IN fe' = IF k \notin DOMAIN table
                THEN [pc |-> "select_new", key |-> k, id |-> id, req |-> r]
                ELSE IF table[k].req = r
                THEN [pc |-> "touch", key |-> k, id |-> id, req |-> r,
                      cluster |-> table[k].cluster, seen |-> table[k].seen]
                ELSE [pc |-> "select_changed", key |-> k, id |-> id, req |-> r,
                      seen |-> table[k].seen]
    /\ UNCHANGED shared

Touch ==
    /\ fe.pc = "touch"
    /\ update_last_seen(fe.key)
    /\ fe' = Selected("reply", fe.key, fe.id, fe.req, fe.cluster)
    /\ UNCHANGED <<docs, nextDoc, pool, faas, today, held>>

\* No geolocation raises (500), no matching cluster is a 404.
SelectCluster ==
    /\ fe.pc \in {"select_new", "select_changed"}
    /\ IF fe.req.want \in NoGeo \/ Feasible(fe.req) = {}
       THEN fe' = Idle
       ELSE \E c \in Closest(fe.req) :
              fe' = IF fe.pc = "select_new"
                    THEN Selected("read_card", fe.key, fe.id, fe.req, c)
                    ELSE [pc |-> "update", key |-> fe.key, id |-> fe.id,
                          req |-> fe.req, cluster |-> c, seen |-> fe.seen]
    /\ UNCHANGED shared

\* oneflow_scaler.scale_for_new_device, first half: the service is the first
\* whose name contains the cluster's name, whatever its flavour.  A failed
\* lookup is only logged and the insert follows.
ReadCardinality ==
    /\ fe.pc = "read_card"
    /\ \/ /\ fe.cluster \in pool
          /\ \E f \in FlavoursOf[fe.cluster] :
               fe' = [pc |-> "scale", key |-> fe.key, id |-> fe.id, req |-> fe.req,
                      cluster |-> fe.cluster, flavour |-> f,
                      card |-> faas[fe.cluster][f]]
       \/ /\ fe.cluster \notin pool \/ "error" \in Faults
          /\ fe' = Selected("insert", fe.key, fe.id, fe.req, fe.cluster)
    /\ UNCHANGED shared

\* Second half: `oneflow scale` to the cardinality read before, plus one; it
\* may be refused, and the wait for RUNNING may time out: only logged.
ScaleFaas ==
    /\ fe.pc = "scale"
    /\ \/ /\ fe.cluster \in pool
          /\ fe.card < MaxVMs
          /\ faas' = [faas EXCEPT ![fe.cluster][fe.flavour] = fe.card + 1]
       \/ /\ fe.cluster \notin pool \/ fe.card = MaxVMs \/ "error" \in Faults
          /\ UNCHANGED faas
    /\ fe' = Selected("insert", fe.key, fe.id, fe.req, fe.cluster)
    /\ UNCHANGED <<table, docs, nextDoc, pool, today, held>>

InsertRow ==
    /\ fe.pc = "insert"
    /\ insert_device_assignment(fe.key, fe.cluster, fe.id, fe.req)
    /\ fe' = Selected("reply", fe.key, fe.id, fe.req, fe.cluster)
    /\ UNCHANGED <<docs, nextDoc, pool, faas, today, held>>

UpdateRow ==
    /\ fe.pc = "update"
    /\ update_device_assignment(fe.key, fe.cluster, fe.id, fe.req)
    /\ fe' = Selected("reply", fe.key, fe.id, fe.req, fe.cluster)
    /\ UNCHANGED <<docs, nextDoc, pool, faas, today, held>>

\* one.cluster_get: the cluster, or 404 when it was removed meanwhile.
Reply ==
    /\ fe.pc = "reply"
    /\ fe' = Idle
    /\ UNCHANGED shared

\* A crash loses the request; the restarted process cleans the table up.
FrontendRestart ==
    /\ "crash" \in Faults
    /\ fe' = Idle
    /\ cleanup_old_records
    /\ UNCHANGED <<docs, nextDoc, pool, faas, today, held>>

\* The rest of a request in service.
Serve ==
    \/ UploadCheck
    \/ UploadCreate
    \/ Touch
    \/ SelectCluster
    \/ ReadCardinality
    \/ ScaleFaas
    \/ InsertRow
    \/ UpdateRow
    \/ Reply

FrontendNext ==
    \/ \E r \in Reqs : upload_application_requirements(r)
    \/ \E id \in DocIds, r \in Reqs : update_application_requirements(id, r)
    \/ \E id \in DocIds : delete_application_requirements(id)
    \/ \E id \in DocIds : get_edge_cluster_frontends(id)
    \/ Serve
    \/ FrontendRestart
=============================================================================
