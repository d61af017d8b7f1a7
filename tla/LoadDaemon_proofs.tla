------------------------- MODULE LoadDaemon_proofs -------------------------
(***************************************************************************)
(* The load daemon.  The time series it stores never runs ahead of the     *)
(* clock and only grows forward, for every set of services, interval, gap  *)
(* and sleep that GridAssumption admits (module StorageGrid); and the      *)
(* loads it writes into the table lie between 0 and 1, whatever the same   *)
(* services report and however many devices there are (module              *)
(* EstimatedLoad).                                                         *)
(***************************************************************************)
EXTENDS StorageGrid, FiniteSetTheorems, TLAPS

CONSTANTS Devices, Flavours, FlavourOf, Queues, CPUs, VMs

VARIABLES load, metrics, updating, value, service, written

Load == INSTANCE EstimatedLoad

----------------------------------------------------------------------------
(* The time series *)

\* Asleep, the daemon wakes no earlier than the next point of the grid.
Asleep(s) ==
    IF last[s] = None THEN newest[s] < wake ELSE last[s] + Interval <= wake

\* Awake, a service still to be stored is due for its next point.
Due(s) ==
    IF last[s] = None THEN newest[s] < now ELSE last[s] + Interval <= now

GridInv ==
    /\ TypeOK
    /\ NeverAhead
    /\ phase = "sleep" => todo = {}
    /\ \A s \in Services :
          /\ last[s] # None => last[s] = newest[s]
          /\ phase = "sleep" => Asleep(s)
          /\ s \in todo => Due(s)

\* The next timestamp of a service that is due is a new point, not in the
\* future.
LEMMA NextIsNew ==
    ASSUME GridInv, NEW s \in todo
    PROVE  /\ NextStorageTimestamp(s) \in Nat
           /\ NextStorageTimestamp(s) <= now
           /\ NextStorageTimestamp(s) > newest[s]
BY GridAssumption DEF GridInv, TypeOK, Due, NextStorageTimestamp, None

LEMMA InitGridInv == Init => GridInv
BY GridAssumption DEF Init, GridInv, TypeOK, NeverAhead, Asleep, None

LEMMA StepGridInv == GridInv /\ [Next]_vars => GridInv'
<1> SUFFICES ASSUME GridInv, [Next]_vars PROVE GridInv'
  OBVIOUS
<1> USE GridAssumption DEF None
<1>1. CASE BeginCycle
  BY <1>1 DEF BeginCycle, GridInv, TypeOK, NeverAhead, Asleep, Due
<1>2. ASSUME NEW s \in Services, StoreService(s) PROVE GridInv'
  <2> DEFINE ts == NextStorageTimestamp(s)
  <2>1. s \in todo /\ ts \in Nat /\ ts <= now /\ ts > newest[s] /\ phase = "cycle"
    BY <1>2, NextIsNew DEF StoreService, GridInv, TypeOK
  <2>2. /\ \/ newest' = [newest EXCEPT ![s] = ts] /\ last' = [last EXCEPT ![s] = ts]
           \/ UNCHANGED <<newest, last>>
        /\ \/ forecast' = [forecast EXCEPT ![s] = ts]
           \/ UNCHANGED forecast
        /\ todo' = todo \ {s} /\ UNCHANGED <<now, phase, wake>>
    BY <1>2 DEF StoreService
  <2> HIDE DEF ts
  <2>3. TypeOK' /\ NeverAhead'
    BY <2>1, <2>2 DEF GridInv, TypeOK, NeverAhead
  <2>4. \A r \in Services : last'[r] # None => last'[r] = newest'[r]
    BY <2>1, <2>2 DEF GridInv, TypeOK
  <2>5. \A r \in todo' : Due(r)'
    BY <2>1, <2>2 DEF GridInv, TypeOK, Due
  <2>. QED BY <2>1, <2>2, <2>3, <2>4, <2>5 DEF GridInv
<1>3. CASE EndCycle
  BY <1>3 DEF EndCycle, GridInv, TypeOK, NeverAhead, Asleep
<1>4. CASE Restart
  BY <1>4 DEF Restart, GridInv, TypeOK, NeverAhead, Asleep
<1>5. CASE Pass
  BY <1>5 DEF Pass, GridInv, TypeOK, NeverAhead, Asleep, Due
<1>6. CASE UNCHANGED vars
  BY <1>6 DEF vars, GridInv, TypeOK, NeverAhead, Asleep, Due
<1>. QED BY <1>1, <1>2, <1>3, <1>4, <1>5, <1>6 DEF Next

LEMMA GridInvariant == Spec => []GridInv
BY InitGridInv, StepGridInv, PTL DEF Spec

\* The storing loop stays well typed: only services that are due are left to do
\* in a cycle, and the timestamps it computes stay natural numbers.
THEOREM GridTypeOK == Spec => []TypeOK
<1>1. GridInv => TypeOK
  BY DEF GridInv
<1>. QED BY <1>1, GridInvariant, PTL

\* Rows and forecasts are never stamped in the future, although every
\* timestamp but the first is computed without looking at the clock.
THEOREM GridNeverAhead == Spec => []NeverAhead
<1>1. GridInv => NeverAhead
  BY DEF GridInv
<1>. QED BY <1>1, GridInvariant, PTL

\* Every row is later than all the rows before it, across restarts.
THEOREM GridIncreases == Spec => StrictlyIncreasing
<1> DEFINE Later == \A s \in Services : newest'[s] # newest[s] => newest'[s] > newest[s]
<1>1. GridInv /\ [Next]_vars => [Later]_vars
  <2> SUFFICES ASSUME GridInv, Next PROVE Later
    BY DEF vars
  <2>1. ASSUME NEW s \in Services, StoreService(s) PROVE Later
    BY <2>1, NextIsNew DEF StoreService, GridInv, TypeOK
  <2>2. CASE BeginCycle \/ EndCycle \/ Restart \/ Pass
    BY <2>2 DEF BeginCycle, EndCycle, Restart, Pass
  <2>. QED BY <2>1, <2>2 DEF Next
<1>. QED BY <1>1, GridInvariant, PTL DEF Spec, StrictlyIncreasing

----------------------------------------------------------------------------
(* The loads *)

\* calculate_estimated_load_for_service returns a number between 0 and 1, also
\* for a count of zero and for more CPU than one per device.
LEMMA LoadInRange ==
    ASSUME NEW cpu \in Nat, NEW count \in Nat
    PROVE  Load!calculate_estimated_load_for_service(cpu, count) \in Load!Percent
<1>1. count # 0 => cpu \div count \in Nat
  OBVIOUS
<1>2. QED
  BY <1>1 DEF Load!calculate_estimated_load_for_service, Load!Percent

\* The instance counts as this module does.
LEMMA SameCount ==
    \A S : (Load!IsFiniteSet(S) <=> IsFiniteSet(S)) /\ Load!Cardinality(S) = Cardinality(S)
BY Zenon DEF Load!IsFiniteSet, IsFiniteSet, Load!Cardinality, Cardinality

\* The devices of a flavour are devices, and can be counted.
LEMMA DevicesOfFlavour ==
    ASSUME Load!LoadAssumption, Load!TypeOK, NEW f
    PROVE  /\ Load!get_device_ids_by_flavour(f) \subseteq Devices
           /\ Cardinality(Load!get_device_ids_by_flavour(f)) \in Nat
<1>1. \A k \in DOMAIN load : k[1] \in Devices
  BY DEF Load!TypeOK, Load!Keys
<1>2. Load!get_device_ids_by_flavour(f) \subseteq Devices
  BY <1>1, Zenon DEF Load!get_device_ids_by_flavour
<1>3. IsFiniteSet(Load!get_device_ids_by_flavour(f))
  BY <1>2, FS_Subset, SameCount DEF Load!LoadAssumption
<1>4. QED
  BY <1>2, <1>3, FS_CardinalityType

\* The next service's load is one of the daemon's loads.
LEMMA NextServiceTyped ==
    ASSUME Load!LoadAssumption, Load!TypeOK, NEW s \in Services, Load!NextService(s)
    PROVE  Load!TypeOK'
<1> DEFINE ids == Load!get_device_ids_by_flavour(FlavourOf[s])
           m == metrics[s]
           count == IF m.vms > 0 THEN m.vms ELSE Cardinality(ids)
           l == Load!calculate_estimated_load_for_service(m.cpu, count)
<1>1. m \in Load!Metrics
  BY DEF Load!NextService, Load!TypeOK
<1>2. m.cpu \in Nat /\ m.vms \in Nat
  BY Zenon, <1>1 DEF Load!Metrics, Load!LoadAssumption
<1>3. ids \subseteq Devices /\ count \in Nat
  BY <1>2, DevicesOfFlavour
<1>4. l \in Load!Percent
  <2> HIDE DEF count
  <2>1. QED
    BY <1>2, <1>3, LoadInRange
<1>5. updating' = ids /\ value' = IF m.queue > 0 THEN 100 ELSE l
  BY Zenon, SameCount DEF Load!NextService
<1>6. value' \in Load!Percent
  <2> HIDE DEF l
  <2>1. QED
    BY <1>4, <1>5 DEF Load!Percent
<1>7. /\ DOMAIN metrics' \subseteq Services
      /\ \A r \in DOMAIN metrics' : metrics'[r] \in Load!Metrics
  BY Zenon DEF Load!NextService, Load!TypeOK, Load!Restrict, Load!Metrics
<1>8. QED
  BY Zenon, <1>3, <1>5, <1>6, <1>7 DEF Load!NextService, Load!TypeOK, Load!Percent, Load!Metrics, Load!Keys

LEMMA LoadStep ==
    ASSUME Load!LoadAssumption, Load!TypeOK, [Load!Next]_(Load!vars)
    PROVE  Load!TypeOK'
<1> USE DEF Load!TypeOK, Load!Percent, Load!Metrics, Load!Keys
<1>1. ASSUME NEW k \in Load!Keys, Load!InsertDefault(k) PROVE Load!TypeOK'
  BY <1>1 DEF Load!InsertDefault
<1>2. ASSUME NEW S \in SUBSET DOMAIN load, Load!DeleteExpired(S) PROVE Load!TypeOK'
  BY <1>2 DEF Load!DeleteExpired, Load!Without
<1>3. CASE Load!CollectMetrics
  BY <1>3 DEF Load!CollectMetrics
<1>4. ASSUME NEW s \in Services, Load!NextService(s) PROVE Load!TypeOK'
  BY <1>4, NextServiceTyped
<1>5. ASSUME NEW d \in Devices, Load!update_estimated_load(d) PROVE Load!TypeOK'
  BY <1>5 DEF Load!update_estimated_load
<1>6. ASSUME NEW d \in Devices, Load!UpdateFails(d) PROVE Load!TypeOK'
  BY <1>6 DEF Load!UpdateFails
<1>7. CASE Load!Restart
  BY <1>7 DEF Load!Restart
<1>8. CASE UNCHANGED Load!vars
  BY <1>8 DEF Load!vars
<1>9. QED
  BY <1>1, <1>2, <1>3, <1>4, <1>5, <1>6, <1>7, <1>8 DEF Load!Next

\* Every load in the table lies between 0 and 1 (estimated_load_daemon.py), and
\* only rows of the table count as written, wherever cycles break off.
THEOREM LoadTypeOK ==
    ASSUME Load!LoadAssumption
    PROVE  Load!Spec => []Load!TypeOK
<1>1. Load!Init => Load!TypeOK
  BY DEF Load!Init, Load!TypeOK, Load!Percent
<1>2. Load!TypeOK /\ [Load!Next]_(Load!vars) => Load!TypeOK'
  BY LoadStep
<1>3. QED
  BY <1>1, <1>2, PTL DEF Load!Spec
=============================================================================
