-------------------------- MODULE DaemonControl_proofs --------------------------
(***************************************************************************)
(* The control script keeps hold of its daemon, for any set of pids and    *)
(* whatever SIGINT does to the daemon.                                     *)
(***************************************************************************)
EXTENDS DaemonControl, FiniteSetTheorems, TLAPS

\* The daemons nobody has told to stop.
Unstopped == alive \ signalled

\* The lines that are only reached when there is none, and those at which there
\* may be one.
Quiet == {"touch", "spawn", "rmlock", "rmpid"}
Resting == {"idle", "setup", "stop"}

\* The inductive invariant.  NoOrphan speaks of the pid file between two
\* commands only; while one runs, the daemon is the one the pid file names, the
\* one in LASTPID, or there is none.  The lock has to be there with the pid file,
\* since setup looks at the pid only if there is a lock.
Inv ==
  /\ script.at \in Quiet \cup Resting \cup {"write"}
  /\ script = [cmd |-> script.cmd, at |-> script.at]
  /\ alive \subseteq Pids /\ signalled \subseteq alive
  /\ pidfile \in Pids \cup {NoPid}
  /\ script.at \in Quiet => Unstopped = {}
  /\ script.at \in Resting => Unstopped \subseteq {pidfile}
  /\ script.at \in Resting /\ pidfile # NoPid => lock = "yes"
  /\ script.at \in {"spawn", "write"} => lock = "yes"
  /\ script.at = "write" => last \in Pids /\ Unstopped \subseteq {last}
  /\ script.at = "rmlock" => pidfile # NoPid

LEMMA InvInit == Init => Inv
BY DEF Init, Inv, Idle, Quiet, Resting, Unstopped

\* A process that ends leaves the others as they are.
LEMMA InvDie ==
  ASSUME Inv, NEW p, Die(p)
  PROVE  Inv'
<1>1. Unstopped' \subseteq Unstopped
  BY DEF Die, Unstopped
<1>2. QED
  BY <1>1 DEF Die, Inv, files

LEMMA InvStep == Inv /\ [Next]_vars => Inv'
<1> SUFFICES ASSUME Inv, [Next]_vars PROVE Inv'
  OBVIOUS
<1> USE ControlAssumption
<1>1. ASSUME NEW cmd \in {"start", "stop", "restart"}, Command(cmd) PROVE Inv'
  BY <1>1 DEF Command, Inv, At, Quiet, Resting, Unstopped, procs, files
<1>2. CASE setup
  <2>1. CASE lock = "yes" /\ pidfile # NoPid /\ Ps(pidfile)
    BY <1>2, <2>1 DEF setup, Inv, At, Finish, Idle, Quiet, Resting, Unstopped, procs
  <2>2. CASE ~(lock = "yes" /\ pidfile # NoPid /\ Ps(pidfile))
    <3>1. Unstopped = {}
      BY <1>2, <2>2 DEF setup, At, Inv, Resting, Unstopped, Ps
    <3>2. QED
      BY <1>2, <2>2, <3>1 DEF setup, Inv, At, Goto, Quiet, Resting, Unstopped, procs
  <2>3. QED
    BY <2>1, <2>2
<1>3. CASE TouchLock
  BY <1>3 DEF TouchLock, Inv, At, Goto, Quiet, Resting, Unstopped, procs
<1>4. CASE Spawn
  BY <1>4 DEF Spawn, Inv, At, Goto, Quiet, Resting, Unstopped, files
<1>5. CASE WritePid
  BY <1>5 DEF WritePid, Inv, At, Finish, Idle, Quiet, Resting, Unstopped, procs
<1>6. CASE StopKill
  <2>1. Unstopped' = {}
    BY <1>6 DEF StopKill, At, Inv, Resting, Unstopped
  <2>2. QED
    BY <1>6, <2>1 DEF StopKill, Inv, At, Goto, Finish, Idle, Quiet, Resting, files
<1>7. CASE RemoveLock
  BY <1>7 DEF RemoveLock, Inv, At, Goto, Quiet, Resting, Unstopped, procs
<1>8. CASE RemovePid
  BY <1>8 DEF RemovePid, Inv, At, Goto, Finish, Idle, Quiet, Resting, Unstopped, procs
<1>9. ASSUME NEW p \in Pids, ExitOnInt(p) \/ Crash(p) PROVE Inv'
  BY <1>9, InvDie DEF ExitOnInt, Crash
<1>10. ASSUME NEW p \in Pids, ReusePid(p) PROVE Inv'
  BY <1>10 DEF ReusePid, Inv, Unstopped, files
<1>11. CASE UNCHANGED vars
  BY <1>11 DEF vars, Inv, Unstopped
<1>12. QED
  BY <1>1, <1>2, <1>3, <1>4, <1>5, <1>6, <1>7, <1>8, <1>9, <1>10, <1>11
  DEF Next, ScriptStep

LEMMA AlwaysInv == Spec => []Inv
BY InvInit, InvStep, PTL DEF Spec

\* Whatever commands, crashes and reused pids came before, the pid file names the
\* daemon that is running, unless it was told to stop (bin/cognit-*-server).
THEOREM ControlNoOrphan == Spec => []NoOrphan
<1>1. Inv => NoOrphan
  BY DEF Inv, NoOrphan, At, Resting, Unstopped
<1>2. QED
  BY <1>1, AlwaysInv, PTL

\* start and restart never leave two daemons that were not told to stop.
THEOREM ControlOneUnstopped == Spec => []OneUnstopped
<1>1. ASSUME Inv PROVE OneUnstopped
  <2>1. PICK x : Unstopped \subseteq {x}
    BY <1>1 DEF Inv
  <2>2. Unstopped = {} \/ Unstopped = {x}
    BY <2>1
  <2>3. Cardinality(Unstopped) \in {0, 1}
    BY <2>2, FS_EmptySet, FS_Singleton
  <2>4. QED
    BY <2>3 DEF OneUnstopped, Unstopped
<1>2. QED
  BY <1>1, AlwaysInv, PTL

=================================================================================
