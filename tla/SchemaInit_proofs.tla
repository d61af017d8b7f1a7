-------------------------- MODULE SchemaInit_proofs --------------------------
(***************************************************************************)
(* For any number of frontends, optimizers and daemons: the states of a    *)
(* start are the expected ones, and a settled table stays settled.         *)
(***************************************************************************)
EXTENDS SchemaInit, TLAPS

Steps == {"start", "pragma", "drop", "create", "cleanup", "running", "failed"}

\* After the step the table is settled and has kept its assignments.
StaysSettled == Settled' /\ (filled = "yes" => filled' = "yes")

\* Moving one process changes no other and keeps the types.
LEMMA GotoFacts ==
    ASSUME TypeOK, NEW p \in Procs, NEW l \in Steps, Goto(p, l)
    PROVE  /\ pc' \in [Procs -> Steps]
           /\ waits' \in [Procs -> SUBSET Procs]
           /\ pc'[p] = l
           /\ \A q \in Procs \ {p} : pc'[q] = pc[q]
<1>1. pc \in [Procs -> Steps] /\ waits \in [Procs -> SUBSET Procs]
  BY DEF TypeOK, Steps
<1>2. Starting \ {p} \in SUBSET Procs
  BY DEF Starting
<1>. QED
  BY <1>1, <1>2 DEF Goto

\* Every statement of a start, and every restart, keeps the types, and no step
\* from a settled state unsettles the table.
LEMMA StepFacts ==
    ASSUME TypeOK, [Next]_vars
    PROVE  TypeOK' /\ (Settled => StaysSettled)
<1>. USE DEF Steps, StaysSettled
<1>1. CASE UNCHANGED vars
  BY <1>1 DEF vars, TypeOK, Settled
<1>2. ASSUME NEW p \in Procs, SelectTable(p) \/ PragmaTableInfo(p)
      PROVE  TypeOK' /\ (Settled => StaysSettled)
  <2>1. PICK l \in Steps : Goto(p, l) /\ (l = "drop" => schema # "composite")
    BY <1>2 DEF SelectTable, PragmaTableInfo
  <2>2. UNCHANGED <<schema, filled, restarts>>
    BY <1>2 DEF SelectTable, PragmaTableInfo
  <2>. QED
    BY <2>1, <2>2, GotoFacts DEF TypeOK, Settled
<1>3. ASSUME NEW p \in Procs, DropTable(p)
      PROVE  TypeOK' /\ (Settled => StaysSettled)
  <2>1. PICK l \in Steps : Goto(p, l)
    BY <1>3 DEF DropTable
  <2>2. ~Settled
    BY <1>3 DEF DropTable, Settled
  <2>3. /\ schema' = "none"
        /\ filled' = "no"
        /\ UNCHANGED restarts
    BY <1>3 DEF DropTable
  <2>. QED
    BY <2>1, <2>2, <2>3, GotoFacts DEF TypeOK
<1>4. ASSUME NEW p \in Procs, CreateTable(p) \/ CreateIfNotExists(p) \/ CleanupTable(p)
      PROVE  TypeOK' /\ (Settled => StaysSettled)
  <2>1. PICK l \in Steps \ {"drop"} : Goto(p, l)
    BY <1>4 DEF CreateTable, CreateIfNotExists, CleanupTable
  <2>2. /\ schema' \in {schema, "old", "composite"}
        /\ schema # "none" => schema' = schema
        /\ UNCHANGED <<filled, restarts>>
    BY <1>4 DEF CreateTable, CreateIfNotExists, CleanupTable
  <2>. QED
    BY <2>1, <2>2, GotoFacts DEF TypeOK, Settled
<1>5. ASSUME NEW p \in Procs, InsertAssignment(p)
      PROVE  TypeOK' /\ (Settled => StaysSettled)
  BY <1>5 DEF InsertAssignment, TypeOK, Settled
<1>6. ASSUME NEW p \in Procs, StartProcess(p) \/ RestartProcess(p)
      PROVE  TypeOK' /\ (Settled => StaysSettled)
  <2>1. Goto(p, "start") /\ UNCHANGED <<schema, filled>>
    BY <1>6 DEF StartProcess, RestartProcess
  <2>2. restarts' \in 0..MaxRestarts
    BY <1>6, ProcessAssumption DEF StartProcess, RestartProcess, TypeOK
  <2>. QED
    BY <2>1, <2>2, GotoFacts DEF TypeOK, Settled
<1>. QED
  BY <1>1, <1>2, <1>3, <1>4, <1>5, <1>6 DEF Next, Step

\* Whatever starts and restarts do, the table, the processes and the starts are in
\* one of the listed states, and a missing table holds no assignments.
THEOREM SchemaTypeOK == Spec => []TypeOK
<1>1. Init => TypeOK
  BY ProcessAssumption DEF Init, TypeOK
<1>2. TypeOK /\ [Next]_vars => TypeOK'
  BY StepFacts
<1>. QED
  BY <1>1, <1>2, PTL DEF Spec

\* For every number of frontends, optimizers and daemons, no start or restart
\* takes the composite table, or the assignments in it, away once nobody is about
\* to drop it.
THEOREM SchemaSettledStays == Spec => SettledStays
<1>1. TypeOK /\ [Next]_vars => [Settled => StaysSettled]_vars
  BY StepFacts
<1>. QED
  BY <1>1, SchemaTypeOK, PTL DEF Spec, SettledStays, StaysSettled
==============================================================================
