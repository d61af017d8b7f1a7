---------------------------- MODULE EstimatedLoad ----------------------------
(***************************************************************************)
(* The cycle of the load daemon: it collects the metrics of every OneFlow  *)
(* service, then takes the services one by one, reads the devices with the *)
(* service's flavour, computes their estimated load and updates them one   *)
(* UPDATE at a time, while the frontend inserts rows and any of the three  *)
(* processes deletes expired ones.  Loads are percentages, rounded down.   *)
(* The rest of a row, and when it expires, is in module CognitState.       *)
(***************************************************************************)
EXTENDS Naturals, FiniteSets, Functions

CONSTANTS
    Devices,
    Flavours,
    Services,
    FlavourOf,  \* the flavour a service's name ends with
    Queues,     \* values of queue_total
    CPUs,       \* values of sum_cpu_faas_role, in percent of one CPU
    VMs         \* values of faas_vm_count

ASSUME LoadAssumption ==
    /\ IsFiniteSet(Devices)
    /\ FlavourOf \in [Services -> Flavours]
    /\ Queues \subseteq Nat /\ CPUs \subseteq Nat /\ VMs \subseteq Nat

Keys == Devices \X Flavours
Metrics == [queue : Queues, cpu : CPUs, vms : VMs]
Percent == 0..100

VARIABLES
    load,      \* estimated_load of the rows of the table
    metrics,   \* the collected metrics of the services still to be handled
    updating,  \* the devices still to be updated for the current service
    value,     \* the load they get
    service,   \* the service being handled
    written    \* history: the rows that got a load since their insertion

vars == <<load, metrics, updating, value, service, written>>

Without(S) == [k \in DOMAIN load \ S |-> load[k]]

Init ==
    /\ load = <<>>
    /\ metrics = <<>>
    /\ updating = {}
    /\ value = 100
    /\ service \in Services
    /\ written = {}

\* The frontend's INSERT leaves estimated_load to its default, 1.0.
InsertDefault(k) ==
    /\ k \in Keys \ DOMAIN load
    /\ load' = [j \in DOMAIN load \cup {k} |-> IF j = k THEN 100 ELSE load[j]]
    /\ UNCHANGED <<metrics, updating, value, service, written>>

\* Some process deletes rows that have expired: at the start of a cycle or not.
DeleteExpired(S) ==
    /\ S # {}
    /\ S \subseteq DOMAIN load
    /\ load' = Without(S)
    /\ written' = written \ S
    /\ UNCHANGED <<metrics, updating, value, service>>

\* A failure to collect, or no services, ends the cycle: a step that changes nothing.
CollectMetrics ==
    /\ metrics = <<>>
    /\ updating = {}
    /\ metrics' \in [Services -> Metrics]
    /\ UNCHANGED <<load, updating, value, service, written>>

get_device_ids_by_flavour(f) == {k[1] : k \in {j \in DOMAIN load : j[2] = f}}

\* Mutant: no cap.
LoadUncapped(cpu, count) == IF count = 0 THEN 100 ELSE cpu \div count

calculate_estimated_load_for_service(cpu, count) ==
    IF count = 0 THEN 100
    ELSE LET l == cpu \div count IN IF l > 100 THEN 100 ELSE l

\* Mutant: a service without devices ends the cycle.
ServiceOrReturn(s) ==
    /\ updating = {}
    /\ s \in DOMAIN metrics
    /\ LET ids == get_device_ids_by_flavour(FlavourOf[s])
           m == metrics[s]
       IN  /\ metrics' = IF ids = {} THEN <<>>
                         ELSE Restrict(metrics, DOMAIN metrics \ {s})
           /\ updating' = ids
           /\ value' = IF m.queue > 0 THEN 100 ELSE
                calculate_estimated_load_for_service(m.cpu,
                    IF m.vms > 0 THEN m.vms ELSE Cardinality(ids))
    /\ service' = s
    /\ UNCHANGED <<load, written>>

\* The next service: its devices and the load they get.
NextService(s) ==
    /\ updating = {}
    /\ s \in DOMAIN metrics
    /\ LET ids == get_device_ids_by_flavour(FlavourOf[s])
           m == metrics[s]
       IN  /\ updating' = ids
           /\ value' = IF m.queue > 0 THEN 100 ELSE
                calculate_estimated_load_for_service(m.cpu,
                    IF m.vms > 0 THEN m.vms ELSE Cardinality(ids))
    /\ metrics' = Restrict(metrics, DOMAIN metrics \ {s})
    /\ service' = s
    /\ UNCHANGED <<load, written>>

\* UPDATE ... WHERE device_id = ?: every row of the device, of any flavour.
update_estimated_load(d) ==
    /\ d \in updating
    /\ updating' = updating \ {d}
    /\ load' = [k \in DOMAIN load |-> IF k[1] = d THEN value ELSE load[k]]
    /\ written' = written \cup {k \in DOMAIN load : k[1] = d}
    /\ UNCHANGED <<metrics, value, service>>

\* The UPDATE fails, as when the database is locked: logged, on to the next.
UpdateFails(d) ==
    /\ d \in updating
    /\ updating' = updating \ {d}
    /\ UNCHANGED <<load, metrics, value, service, written>>

\* The read of a service's devices is not guarded: an exception ends the process,
\* as a kill does anywhere in a cycle, and the rest of the cycle is lost.  The
\* unit is restarted on failure.
Restart ==
    /\ metrics # <<>> \/ updating # {}
    /\ metrics' = <<>>
    /\ updating' = {}
    /\ UNCHANGED <<load, value, service, written>>

Next ==
    \/ \E k \in Keys : InsertDefault(k)
    \/ \E S \in SUBSET DOMAIN load : DeleteExpired(S)
    \/ CollectMetrics
    \/ \E s \in Services : NextService(s)
    \/ \E d \in Devices : update_estimated_load(d) \/ UpdateFails(d)
    \/ Restart

Spec == Init /\ [][Next]_vars

\* The daemon loops for ever; an UPDATE that is tried again and again succeeds,
\* and what ends the process is repaired some day.
FairSpec ==
    /\ Spec
    /\ WF_vars(CollectMetrics)
    /\ \A s \in Services : WF_vars(NextService(s))
    /\ \A d \in Devices : SF_vars(update_estimated_load(d))
    /\ <>[][~Restart]_vars

----------------------------------------------------------------------------
\* Rows, metrics and devices are of this system, and a load lies between 0 and 1,
\* as calculate_estimated_load_for_service documents.
TypeOK ==
    /\ DOMAIN load \subseteq Keys
    /\ \A k \in DOMAIN load : load[k] \in Percent
    /\ DOMAIN metrics \subseteq Services
    /\ \A s \in DOMAIN metrics : metrics[s] \in Metrics
    /\ updating \subseteq Devices
    /\ value \in Percent
    /\ service \in Services
    /\ written \subseteq DOMAIN load

\* A row whose flavour some service serves does not keep the default load for
\* ever: a later cycle reaches it, whatever other services have no devices,
\* however rows come and go, and wherever cycles broke off before.
RowGetsLoad ==
    \A k \in Keys :
        (\E s \in Services : FlavourOf[s] = k[2])
            => (k \in DOMAIN load ~> (k \notin DOMAIN load \/ k \in written))
==============================================================================
