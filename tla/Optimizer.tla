----------------------------- MODULE Optimizer -----------------------------
(***************************************************************************)
(* cognit-optimizer: the cycle of run_optimization_with_db_updates, one    *)
(* action per access to state shared with other processes.  `opt` is the   *)
(* cycle in progress: its pc and the locals the rest of it needs.          *)
(* `pending` is the module global _pending_scaledowns, which outlives a    *)
(* cycle but not the process.                                              *)
(***************************************************************************)
EXTENDS CognitState, Functions

VARIABLES opt, pending

optVars == <<opt, pending>>

Sleeping == [pc |-> "sleep"]
EmptyDict == [x \in {} |-> {}]
Put(dict, k, v) == [x \in DOMAIN dict \cup {k} |-> IF x = k THEN v ELSE dict[x]]

\* The VMs OpenNebula counts on a cluster: those of every flavour and the rest.
capacity(c) == BaseVMs + SumFunction(faas[c])

----------------------------------------------------------------------------
\* db_adapter.cleanup_old_records swallows its errors: the cycle goes on.
StartCycle ==
    /\ opt = Sleeping
    /\ opt' = [pc |-> "read"]
    /\ cleanup_old_records \/ ("error" \in Faults /\ UNCHANGED table)
    /\ UNCHANGED <<docs, nextDoc, pool, faas, today, held, pending>>

ReadAssignments ==
    /\ opt.pc = "read"
    /\ opt' = [pc |-> "validate", rows |-> table, todo |-> DOMAIN table, valid |-> {}]
    /\ UNCHANGED <<shared, pending>>

\* get_app_requirement: {} for a missing document and for any other error.
Validate(k) ==
    /\ opt.pc = "validate"
    /\ k \in opt.todo
    /\ \/ /\ opt.rows[k].reqId \in DOMAIN docs
          /\ opt' = [opt EXCEPT !.todo = @ \ {k}, !.valid = @ \cup {k}]
       \/ /\ opt.rows[k].reqId \notin DOMAIN docs \/ "error" \in Faults
          /\ opt' = [opt EXCEPT !.todo = @ \ {k}]
    /\ UNCHANGED <<shared, pending>>

\* Nothing valid: the cycle returns before it looks at the pending retries.
Validated ==
    /\ opt.pc = "validate"
    /\ opt.todo = {}
    /\ opt' = IF opt.valid = {} THEN Sleeping
              ELSE [pc |-> "feasible", rows |-> opt.rows, todo |-> opt.valid,
                    feasible |-> EmptyDict]
    /\ UNCHANGED <<shared, pending>>

\* get_feasible_clusters_for_device reads the document again, with the same {}
\* for an error, and takes the flavour from it.  No geolocation raises: the whole
\* cycle is given up.
FindFeasible(k) ==
    /\ opt.pc = "feasible"
    /\ k \in opt.todo
    /\ LET id == opt.rows[k].reqId
           found(cs) == [opt EXCEPT !.todo = @ \ {k}, !.feasible = Put(@, k, cs)]
       IN \/ /\ id \notin DOMAIN docs \/ "error" \in Faults
             /\ opt' = found({})
          \/ /\ id \in DOMAIN docs
             /\ opt' = IF docs[id].want \in NoGeo THEN Sleeping
                       ELSE found(Feasible(docs[id]))
    /\ UNCHANGED <<shared, pending>>

----------------------------------------------------------------------------
(* device_alloc: every solution the MILP admits *)

\* Mutant: a device may go wherever some device may go.
AllocationsAnywhere(feasible) ==
    LET placed == {k \in DOMAIN feasible : feasible[k] # {}}
    IN {a \in [placed -> UNION {feasible[k] : k \in placed}] :
          \A c \in Clusters : Cardinality({k \in placed : a[k] = c}) <= MaxCapacity[c]}

Allocations(feasible) ==
    LET placed == {k \in DOMAIN feasible : feasible[k] # {}}
    IN {a \in [placed -> Clusters] :
          /\ \A k \in placed : a[k] \in feasible[k]
          /\ \A c \in Clusters :
               Cardinality({k \in placed : a[k] = c}) <= MaxCapacity[c]}

n_vms(alloc, c) == Cardinality({k \in DOMAIN alloc : alloc[k] = c})

FeasibleClusters(feasible) == UNION {feasible[k] : k \in DOMAIN feasible}

(* scale_clusters_and_update_db, up to the first scale call *)

SolutionPairs(alloc) == {<<alloc[k], k[2]>> : k \in DOMAIN alloc}

AbsentPairs(feasible, alloc) ==
    {<<c, FirstFlavour[c]>> :
       c \in {d \in FeasibleClusters(feasible) : \A k \in DOMAIN alloc : alloc[k] # d}}

\* Mutant: a pending retry overrides the fresh decision.
PendingFirst(feasible, alloc) ==
    LET fresh == SolutionPairs(alloc) \cup AbsentPairs(feasible, alloc)
    IN [p \in fresh \cup DOMAIN pending |->
          IF p \in DOMAIN pending THEN pending[p]
          ELSE IF p \in SolutionPairs(alloc) THEN n_vms(alloc, p[1])
          ELSE 0]

\* Fresh decisions take priority over the pending retries.
cluster_flavour_targets(feasible, alloc) ==
    LET fresh == SolutionPairs(alloc) \cup AbsentPairs(feasible, alloc)
    IN [p \in fresh \cup DOMAIN pending |->
          IF p \in SolutionPairs(alloc) THEN n_vms(alloc, p[1])
          ELSE IF p \in fresh THEN 0
          ELSE pending[p]]

\* get_cluster_pool, the solver and the split into ups and downs.  A feasible
\* cluster that has left the pool is a KeyError in the solver's model; no
\* solution, or one without devices, ends the cycle too.
Plan ==
    /\ opt.pc = "feasible"
    /\ opt.todo = {}
    /\ \/ /\ \/ ~(FeasibleClusters(opt.feasible) \subseteq pool)
             \/ Allocations(opt.feasible) = {}
             \/ FeasibleClusters(opt.feasible) = {}
          /\ opt' = Sleeping
          /\ UNCHANGED pending
       \/ /\ FeasibleClusters(opt.feasible) \subseteq pool
          /\ FeasibleClusters(opt.feasible) # {}
          /\ \E a \in Allocations(opt.feasible) :
               LET targets == cluster_flavour_targets(opt.feasible, a)
                   current(p) == IF p[1] \in pool THEN capacity(p[1]) ELSE 0
               IN opt' = [pc |-> "scale", alloc |-> a, targets |-> targets,
                          ups |-> {p \in DOMAIN targets : targets[p] > current(p)},
                          downs |-> {p \in DOMAIN targets : targets[p] < current(p)},
                          scaled |-> {}]
          /\ pending' = EmptyDict
    /\ UNCHANGED shared

----------------------------------------------------------------------------
(* The two phases of scale calls *)

\* scale_cluster: SUCCESS applies the target; a TIMEOUT (a 504, or no answer) or
\* another error may have applied it; the call for a removed cluster is not made.
CallScale(p, result) ==
    \/ /\ p[1] \in pool
       /\ \/ result = "SUCCESS"
          \/ result = "TIMEOUT" /\ "timeout" \in Faults
          \/ result = "FAILED" /\ "error" \in Faults
       /\ faas' = [faas EXCEPT ![p[1]][p[2]] = opt.targets[p]]
    \/ /\ \/ result = "TIMEOUT" /\ p[1] \in pool /\ "timeout" \in Faults
          \/ result = "FAILED" /\ (p[1] \notin pool \/ "error" \in Faults)
       /\ UNCHANGED faas

ScaleUp(p, result) ==
    /\ opt.pc = "scale"
    /\ p \in opt.ups
    /\ CallScale(p, result)
    /\ opt' = [opt EXCEPT !.ups = @ \ {p},
                          !.scaled = IF result = "SUCCESS" THEN @ \cup {p} ELSE @]
    /\ UNCHANGED <<table, docs, nextDoc, pool, today, held, pending>>

\* Only after every scale-up has returned.
ScaleDown(p, result) ==
    /\ opt.pc = "scale"
    /\ opt.ups = {}
    /\ p \in opt.downs
    /\ CallScale(p, result)
    /\ opt' = [opt EXCEPT !.downs = @ \ {p},
                          !.scaled = IF result = "SUCCESS" THEN @ \cup {p} ELSE @]
    /\ pending' = IF result = "TIMEOUT" THEN Put(pending, p, opt.targets[p])
                  ELSE pending
    /\ UNCHANGED <<table, docs, nextDoc, pool, today, held>>

\* Mutant: devices are moved whatever the scale calls returned.
ScaledOrNot ==
    /\ opt.pc = "scale"
    /\ opt.ups = {}
    /\ opt.downs = {}
    /\ opt' = [pc |-> "db", alloc |-> opt.alloc, scaled |-> SolutionPairs(opt.alloc)]
    /\ UNCHANGED <<shared, pending>>

Scaled ==
    /\ opt.pc = "scale"
    /\ opt.ups = {}
    /\ opt.downs = {}
    /\ opt' = [pc |-> "db", alloc |-> opt.alloc,
               scaled |-> opt.scaled \cap SolutionPairs(opt.alloc)]
    /\ UNCHANGED <<shared, pending>>

----------------------------------------------------------------------------
(* db_adapter.update_device_cluster_assignments, once per scaled pair *)

\* All rows are read first, and the rows to move found in that copy.
ReadRows(p) ==
    /\ opt.pc = "db"
    /\ p \in opt.scaled
    /\ opt' = [pc |-> "write", alloc |-> opt.alloc, scaled |-> opt.scaled \ {p},
               cluster |-> p[1], rows |-> table,
               todo |-> {k \in DOMAIN table \cap DOMAIN opt.alloc :
                           /\ opt.alloc[k] = p[1]
                           /\ k[2] = p[2]
                           /\ table[k].cluster # p[1]}]
    /\ UNCHANGED <<shared, pending>>

\* Mutant: the write takes the requirement from the document as it is now.
MoveWithDocument(k) ==
    /\ opt.pc = "write"
    /\ k \in opt.todo
    /\ LET id == opt.rows[k].reqId IN
         update_device_assignment(k, opt.cluster, id,
             IF id \in DOMAIN docs THEN docs[id] ELSE opt.rows[k].req)
    /\ opt' = [opt EXCEPT !.todo = @ \ {k}]
    /\ UNCHANGED <<docs, nextDoc, pool, faas, today, held, pending>>

\* The write takes the requirement from the copy.
MoveDevice(k) ==
    /\ opt.pc = "write"
    /\ k \in opt.todo
    /\ update_device_assignment(k, opt.cluster, opt.rows[k].reqId, opt.rows[k].req)
    /\ opt' = [opt EXCEPT !.todo = @ \ {k}]
    /\ UNCHANGED <<docs, nextDoc, pool, faas, today, held, pending>>

RowsMoved ==
    /\ opt.pc = "write"
    /\ opt.todo = {}
    /\ opt' = [pc |-> "db", alloc |-> opt.alloc, scaled |-> opt.scaled]
    /\ UNCHANGED <<shared, pending>>

EndCycle ==
    /\ opt.pc = "db"
    /\ opt.scaled = {}
    /\ opt' = Sleeping
    /\ UNCHANGED <<shared, pending>>

\* An exception anywhere (database locked, XML-RPC down) ends the cycle.
AbortCycle ==
    /\ "error" \in Faults
    /\ opt.pc \in {"read", "feasible", "db", "write"}
    /\ opt' = Sleeping
    /\ UNCHANGED <<shared, pending>>

\* The restarted process opens the database, which cleans it up.
OptimizerRestart ==
    /\ "crash" \in Faults
    /\ opt' = Sleeping
    /\ pending' = EmptyDict
    /\ cleanup_old_records
    /\ UNCHANGED <<docs, nextDoc, pool, faas, today, held>>

OptimizerNext ==
    \/ StartCycle
    \/ ReadAssignments
    \/ \E k \in Keys : Validate(k)
    \/ Validated
    \/ \E k \in Keys : FindFeasible(k)
    \/ Plan
    \/ \E p \in Pairs, result \in {"SUCCESS", "TIMEOUT", "FAILED"} :
         ScaleUp(p, result) \/ ScaleDown(p, result)
    \/ Scaled
    \/ \E p \in Pairs : ReadRows(p)
    \/ \E k \in Keys : MoveDevice(k)
    \/ RowsMoved
    \/ EndCycle
    \/ AbortCycle
    \/ OptimizerRestart

\* The locals of the cycle, by pc.
AtValidate(S) == [pc : {"validate"}, rows : [S -> Rows], todo : SUBSET S, valid : SUBSET S]
AtFeasible(S, T) ==
    [pc : {"feasible"}, rows : [S -> Rows], todo : SUBSET S, feasible : [T -> SUBSET Clusters]]
AtScale(S, P) ==
    [pc : {"scale"}, alloc : [S -> Clusters], targets : [P -> Nat],
     ups : SUBSET P, downs : SUBSET P, scaled : SUBSET P]
AtDb(S) == [pc : {"db"}, alloc : [S -> Clusters], scaled : SUBSET Pairs]
AtWrite(S, T) ==
    [pc : {"write"}, alloc : [S -> Clusters], scaled : SUBSET Pairs,
     cluster : Clusters, rows : [T -> Rows], todo : SUBSET T]

OptType ==
    \/ opt \in {Sleeping, [pc |-> "read"]}
    \/ \E S \in SUBSET Keys : opt \in AtValidate(S)
    \/ \E S, T \in SUBSET Keys : opt \in AtFeasible(S, T)
    \/ \E S \in SUBSET Keys, P \in SUBSET Pairs : opt \in AtScale(S, P)
    \/ \E S \in SUBSET Keys : opt \in AtDb(S)
    \/ \E S, T \in SUBSET Keys : opt \in AtWrite(S, T)
============================================================================
