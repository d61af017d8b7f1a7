---------------------------- MODULE DaemonControl ----------------------------
(***************************************************************************)
(* The control scripts cognit-frontend-server, cognit-optimizer-server and *)
(* cognit-devices-estimated-load-server: start, stop and restart of a      *)
(* daemon through a lock file and a pid file.  The three scripts differ in *)
(* names only; line numbers are those of cognit-optimizer-server.  The     *)
(* daemon may end, and its pid may go to another program, between any two  *)
(* commands of the script.  One script runs at a time.                     *)
(***************************************************************************)
EXTENDS FiniteSets, Naturals

CONSTANTS
    Pids,
    NoPid,
    OnInt   \* what SIGINT does to the daemon: "exits" or "ignored"

ASSUME ControlAssumption == NoPid \notin Pids /\ OnInt \in {"exits", "ignored"}

VARIABLES
    alive,      \* pids of this daemon's processes
    signalled,  \* those of them that SIGINT was sent to
    foreign,    \* pids of other programs
    lock,       \* "yes" when the lock file exists
    pidfile,    \* what the pid file holds, NoPid when there is none
    script,     \* [cmd, at]: the command given and the next line of the script
    last        \* LASTPID

vars == <<alive, signalled, foreign, lock, pidfile, script, last>>
files == <<lock, pidfile>>
procs == <<alive, signalled, foreign>>

Idle == [cmd |-> "none", at |-> "idle"]

At(l) == script.at = l
Goto(l) == script' = [script EXCEPT !.at = l]
Finish == script' = Idle

Init ==
    /\ alive = {} /\ signalled = {} /\ foreign = {}
    /\ lock = "no" /\ pidfile = NoPid
    /\ script = Idle /\ last = NoPid

\* ps <pid> finds whatever process has the pid.
Ps(p) == p \in alive \cup foreign

Command(cmd) ==
    /\ At("idle")
    /\ script' = [cmd |-> cmd, at |-> IF cmd = "start" THEN "setup" ELSE "stop"]
    /\ UNCHANGED <<procs, files, last>>

\* Mutant: any lock is taken for a stale one.
SetupStale ==
    /\ At("setup")
    /\ lock' = "no"
    /\ Goto("touch")
    /\ UNCHANGED <<procs, pidfile, last>>

setup ==
    /\ At("setup")
    /\ IF lock = "yes" /\ pidfile # NoPid /\ Ps(pidfile)
         THEN Finish /\ UNCHANGED lock
         ELSE Goto("touch") /\ lock' = "no"
    /\ UNCHANGED <<procs, pidfile, last>>

TouchLock ==
    /\ At("touch")
    /\ lock' = "yes"
    /\ Goto("spawn")
    /\ UNCHANGED <<procs, pidfile, last>>

\* python3 ... & ; the kernel gives it a pid that is free.
Spawn ==
    /\ At("spawn")
    /\ \E p \in Pids \ (alive \cup foreign) :
         /\ alive' = alive \cup {p}
         /\ last' = p
    /\ Goto("write")
    /\ UNCHANGED <<signalled, foreign, files>>

\* Mutant: the pid is not recorded when there is a pid file already.
KeepPid ==
    /\ At("write")
    /\ pidfile' = IF pidfile = NoPid THEN last ELSE pidfile
    /\ Finish
    /\ UNCHANGED <<procs, lock, last>>

\* The script then sleeps a second and reports whether the process is still there.
WritePid ==
    /\ At("write")
    /\ pidfile' = last
    /\ Finish
    /\ UNCHANGED <<procs, lock, last>>

\* Without a pid file the script exits, a restart included.  SIGINT goes to
\* whichever process has the pid, and may or may not end another program.
StopKill ==
    /\ At("stop")
    /\ IF pidfile = NoPid THEN Finish ELSE Goto("rmlock")
    /\ signalled' = signalled \cup ({pidfile} \cap alive)
    /\ foreign' \in {foreign, foreign \ {pidfile}}
    /\ UNCHANGED <<alive, files, last>>

RemoveLock ==
    /\ At("rmlock")
    /\ lock' = "no"
    /\ Goto("rmpid")
    /\ UNCHANGED <<procs, pidfile, last>>

\* A restart goes on with setup, without waiting for the old process.
RemovePid ==
    /\ At("rmpid")
    /\ pidfile' = NoPid
    /\ IF script.cmd = "restart" THEN Goto("setup") ELSE Finish
    /\ UNCHANGED <<procs, lock, last>>

Die(p) ==
    /\ alive' = alive \ {p}
    /\ signalled' = signalled \ {p}
    /\ UNCHANGED <<foreign, files, script, last>>

\* A background command of a shell without job control starts with SIGINT
\* ignored.  Python then installs no KeyboardInterrupt handler, so the optimizer
\* and the load daemon ignore it; the frontend's uvicorn installs its own.
ExitOnInt(p) ==
    /\ p \in signalled
    /\ OnInt = "exits"
    /\ Die(p)

Crash(p) == p \in alive /\ Die(p)

\* Pids of other programs come and go.
ReusePid(p) ==
    /\ p \notin alive
    /\ foreign' = IF p \in foreign THEN foreign \ {p} ELSE foreign \cup {p}
    /\ UNCHANGED <<alive, signalled, files, script, last>>

ScriptStep ==
    \/ setup
    \/ TouchLock
    \/ Spawn
    \/ WritePid
    \/ StopKill
    \/ RemoveLock
    \/ RemovePid

Next ==
    \/ \E cmd \in {"start", "stop", "restart"} : Command(cmd)
    \/ ScriptStep
    \/ \E p \in Pids : ExitOnInt(p) \/ Crash(p) \/ ReusePid(p)

Spec == Init /\ [][Next]_vars

----------------------------------------------------------------------------
\* Between two commands, a daemon that was not told to stop is the one the pid
\* file names, so the script can still find it: whatever crashes, restarts and
\* reused pids came before.
NoOrphan ==
    At("idle") => \A p \in alive \ signalled : pidfile = p

\* At no time are there two daemons neither of which was told to stop.
OneUnstopped == Cardinality(alive \ signalled) <= 1
==============================================================================
