------------------------------- MODULE Daemon -------------------------------
(***************************************************************************)
(* ops.daemon: command-line processes that start, stop and look up the     *)
(* proxy daemon at the same time, the daemons they spawn, the pidfile they *)
(* track the daemon through, and the lock that only start takes.           *)
(*                                                                         *)
(* Each file operation and each signal is one step.  A command may be      *)
(* interrupted at any step and a daemon may die at any time.  A dead child *)
(* stays a zombie, which signal 0 still finds, until its parent reaps it   *)
(* or ends: `acr code` lives on as long as the agent it launched.  Pids    *)
(* are not reused.                                                         *)
(***************************************************************************)
EXTENDS Naturals, FiniteSets

CONSTANTS
  Clients,   \* command-line processes
  Pids,      \* daemon processes that can be spawned: bounds the exploration
  NoPid,
  NoClient

ASSUME NobodyAssumption == NoPid \notin Pids /\ NoClient \notin Clients

VARIABLES
  at,        \* at[c]: the next step of the client's command
  command,   \* command[c]: the command it runs
  held,      \* held[c]: the pid it read, or that of the child it spawned
  result,    \* result[c]: how its last command ended
  lock,      \* who holds the start lock
  pidfile,   \* the pid in the pidfile
  proc,      \* proc[p]: the daemon process
  parent,    \* parent[p]: the client that spawned it, while that lives
  orphans    \* history: daemons that no pidfile named any more

client == <<at, command, held, result>>
daemon == <<proc, parent>>
vars == <<at, command, held, result, lock, pidfile, proc, parent, orphans>>

Commands == {"start", "stop", "status"}
Steps == {"idle", "session", "lock", "read", "probe", "unlink_stale", "spawn", "write",
          "health", "reap", "unlink_failed", "signal", "await_exit", "unlink_stopped"}
Results == {"none", "started", "failed", "stopped", "running", "not_running"}
States == {"unused", "starting", "serving", "ending", "killed", "zombie", "dead"}

TypeOK ==
  /\ at \in [Clients -> Steps]
  /\ command \in [Clients -> Commands]
  /\ held \in [Clients -> Pids \cup {NoPid}]
  /\ result \in [Clients -> Results]
  /\ lock \in Clients \cup {NoClient}
  /\ pidfile \in Pids \cup {NoPid}
  /\ proc \in [Pids -> States]
  /\ parent \in [Pids -> Clients \cup {NoClient}]
  /\ orphans \subseteq Pids

Init ==
  /\ at = [c \in Clients |-> "idle"]
  /\ command = [c \in Clients |-> "status"]
  /\ held = [c \in Clients |-> NoPid]
  /\ result = [c \in Clients |-> "none"]
  /\ lock = NoClient
  /\ pidfile = NoPid
  /\ proc = [p \in Pids |-> "unused"]
  /\ parent = [p \in Pids |-> NoClient]
  /\ orphans = {}

-----------------------------------------------------------------------------

\* A daemon that nobody has told to end.
Live(p) == proc[p] \in {"starting", "serving"}

\* is_running: signal 0 finds the process, a zombie too.
IsRunning(p) == proc[p] \notin {"unused", "dead"}

Goto(c, step) == at' = [at EXCEPT ![c] = step]

\* Mutation: the lock is inherited by the daemon that was spawned under it.
EndsLocked(c, how) ==
  /\ result' = [result EXCEPT ![c] = how]
  /\ Goto(c, IF how = "started" THEN "session" ELSE "idle")
  /\ UNCHANGED lock

\* The command returns; the client process ends, or runs the agent it was
\* started for.  An ended process leaves its lock and its children behind.
Ends(c, how) ==
  /\ result' = [result EXCEPT ![c] = how]
  /\ Goto(c, IF how = "started" THEN "session" ELSE "idle")
  /\ lock' = IF lock = c THEN NoClient ELSE lock

\* Children of a client that ends are adopted, and reaped if dead.
Disown(c, processes) ==
  [p \in Pids |-> IF parent[p] = c /\ processes[p] = "zombie" THEN "dead" ELSE processes[p]]

Orphaned(c) ==
  /\ proc' = Disown(c, proc)
  /\ parent' = [p \in Pids |-> IF parent[p] = c THEN NoClient ELSE parent[p]]

\* Removing the pidfile, whatever pid it names by now.
Unlink(c) ==
  /\ pidfile' = NoPid
  /\ orphans' = orphans \cup {p \in Pids : p = pidfile /\ p # held[c] /\ Live(p)}

\* os.kill with SIGTERM: a process that has exited is left alone.
Terminated(p) == [proc EXCEPT ![p] = IF Live(p) THEN "ending" ELSE @]

-----------------------------------------------------------------------------
(* Commands.  start takes the lock first; the others do not. *)

Starting == {c \in Clients : at[c] \notin {"idle", "session"} /\ command[c] = "start"}

\* A new command-line process; start only while there is a pid to spawn with.
Invoke(c, cmd) ==
  /\ at[c] = "idle"
  /\ cmd = "start" => Cardinality({p \in Pids : proc[p] = "unused"}) > Cardinality(Starting)
  /\ command' = [command EXCEPT ![c] = cmd]
  /\ held' = [held EXCEPT ![c] = NoPid]
  /\ result' = [result EXCEPT ![c] = "none"]
  /\ Goto(c, IF cmd = "start" THEN "lock" ELSE "read")
  /\ UNCHANGED <<lock, pidfile, daemon, orphans>>

\* Mutation: start does not wait for the lock.
AcquireUnlocked(c) ==
  /\ at[c] = "lock"
  /\ lock' = c
  /\ Goto(c, "read")
  /\ UNCHANGED <<command, held, result, pidfile, daemon, orphans>>

Acquire(c) ==
  /\ at[c] = "lock" /\ lock = NoClient
  /\ lock' = c
  /\ Goto(c, "read")
  /\ UNCHANGED <<command, held, result, pidfile, daemon, orphans>>

\* read_pid: no pidfile means no daemon.
ReadPid(c) ==
  /\ at[c] = "read"
  /\ held' = [held EXCEPT ![c] = pidfile]
  /\ \/ /\ pidfile # NoPid
        /\ Goto(c, "probe")
        /\ UNCHANGED <<result, lock, daemon>>
     \/ /\ pidfile = NoPid /\ command[c] = "start"
        /\ Goto(c, "spawn")
        /\ UNCHANGED <<result, lock, daemon>>
     \/ /\ pidfile = NoPid /\ command[c] # "start"
        /\ Ends(c, "not_running")
        /\ Orphaned(c)
  /\ UNCHANGED <<command, pidfile, orphans>>

\* is_running on the pid that was read.
Probe(c) ==
  /\ at[c] = "probe"
  /\ \/ /\ ~IsRunning(held[c])
        /\ Goto(c, "unlink_stale")
        /\ UNCHANGED <<result, lock, daemon>>
     \/ /\ IsRunning(held[c]) /\ command[c] = "stop"
        /\ Goto(c, "signal")
        /\ UNCHANGED <<result, lock, daemon>>
     \/ /\ IsRunning(held[c]) /\ command[c] = "start"
        /\ Ends(c, "started")
        /\ UNCHANGED daemon
     \/ /\ IsRunning(held[c]) /\ command[c] = "status"
        /\ Ends(c, "running")
        /\ Orphaned(c)
  /\ UNCHANGED <<command, held, pidfile, orphans>>

UnlinkStale(c) ==
  /\ at[c] = "unlink_stale"
  /\ Unlink(c)
  /\ \/ /\ command[c] = "start"
        /\ Goto(c, "spawn")
        /\ UNCHANGED <<result, lock, daemon>>
     \/ /\ command[c] # "start"
        /\ Ends(c, "not_running")
        /\ Orphaned(c)
  /\ UNCHANGED <<command, held>>

-----------------------------------------------------------------------------
(* start, under the lock. *)

Spawn(c, p) ==
  /\ at[c] = "spawn" /\ proc[p] = "unused"
  /\ proc' = [proc EXCEPT ![p] = "starting"]
  /\ parent' = [parent EXCEPT ![p] = c]
  /\ held' = [held EXCEPT ![c] = p]
  /\ Goto(c, "write")
  /\ UNCHANGED <<command, result, lock, pidfile, orphans>>

\* Mutation: the starting process writes its own pid.
WritePidOwn(c) ==
  /\ at[c] = "write"
  /\ pidfile' = c
  /\ Goto(c, "health")
  /\ UNCHANGED <<command, held, result, lock, daemon, orphans>>

WritePid(c) ==
  /\ at[c] = "write"
  /\ pidfile' = held[c]
  /\ Goto(c, "health")
  /\ UNCHANGED <<command, held, result, lock, daemon, orphans>>

\* /health answered, whichever process serves the port.
Healthy(c) ==
  /\ at[c] = "health" /\ \E p \in Pids : proc[p] = "serving"
  /\ Ends(c, "started")
  /\ UNCHANGED <<command, held, pidfile, daemon, orphans>>

\* The deadline passed: the child is told to end.
Unhealthy(c) ==
  /\ at[c] = "health"
  /\ proc' = Terminated(held[c])
  /\ Goto(c, "reap")
  /\ UNCHANGED <<command, held, result, lock, pidfile, parent, orphans>>

\* Mutation: the child's exit is not waited for.
ReapAtOnce(c) ==
  /\ at[c] = "reap"
  /\ Goto(c, "unlink_failed")
  /\ UNCHANGED <<command, held, result, lock, pidfile, daemon, orphans>>

\* child.wait(), which has no timeout.
Reap(c) ==
  /\ at[c] = "reap" /\ proc[held[c]] = "zombie"
  /\ proc' = [proc EXCEPT ![held[c]] = "dead"]
  /\ Goto(c, "unlink_failed")
  /\ UNCHANGED <<command, held, result, lock, pidfile, parent, orphans>>

UnlinkFailed(c) ==
  /\ at[c] = "unlink_failed"
  /\ Unlink(c)
  /\ Ends(c, "failed")
  /\ Orphaned(c)
  /\ UNCHANGED <<command, held>>

-----------------------------------------------------------------------------
(* stop, without the lock. *)

Signal(c) ==
  /\ at[c] = "signal"
  /\ proc' = Terminated(held[c])
  /\ Goto(c, "await_exit")
  /\ UNCHANGED <<command, held, result, lock, pidfile, parent, orphans>>

SeeExit(c) ==
  /\ at[c] = "await_exit" /\ ~IsRunning(held[c])
  /\ Goto(c, "unlink_stopped")
  /\ UNCHANGED <<command, held, result, lock, pidfile, daemon, orphans>>

\* Mutation: SIGTERM is taken to be enough.
EscalateNot(c) ==
  /\ at[c] = "await_exit" /\ IsRunning(held[c])
  /\ Goto(c, "unlink_stopped")
  /\ UNCHANGED <<command, held, result, lock, pidfile, daemon, orphans>>

\* The process outlived the timeout: SIGKILL.
Escalate(c) ==
  /\ at[c] = "await_exit" /\ IsRunning(held[c])
  /\ proc' = [proc EXCEPT ![held[c]] = IF @ = "zombie" THEN @ ELSE "killed"]
  /\ Goto(c, "unlink_stopped")
  /\ UNCHANGED <<command, held, result, lock, pidfile, parent, orphans>>

UnlinkStopped(c) ==
  /\ at[c] = "unlink_stopped"
  /\ Unlink(c)
  /\ Ends(c, "stopped")
  /\ Orphaned(c)
  /\ UNCHANGED <<command, held>>

-----------------------------------------------------------------------------
(* The environment. *)

\* The client is killed, or interrupted from its terminal.
Interrupt(c) ==
  /\ at[c] # "idle"
  /\ Goto(c, "idle")
  /\ lock' = IF lock = c THEN NoClient ELSE lock
  /\ Orphaned(c)
  /\ orphans' = orphans \cup {p \in Pids : at[c] = "write" /\ p = held[c] /\ Live(p)}
  /\ UNCHANGED <<command, held, result, pidfile>>

\* uvicorn binds the port if no other process holds it.
Bind(p) ==
  /\ proc[p] = "starting" /\ \A q \in Pids : proc[q] # "serving"
  /\ proc' = [proc EXCEPT ![p] = "serving"]
  /\ UNCHANGED <<client, lock, pidfile, parent, orphans>>

\* The process ends: told to, killed, unable to bind or of its own accord.
Exit(p) ==
  /\ proc[p] \in {"starting", "serving", "ending", "killed"}
  /\ proc' = [proc EXCEPT ![p] = IF parent[p] = NoClient THEN "dead" ELSE "zombie"]
  /\ UNCHANGED <<client, lock, pidfile, parent, orphans>>

Step(c) ==
  \/ ReadPid(c) \/ Probe(c) \/ UnlinkStale(c)
  \/ (\E p \in Pids : Spawn(c, p)) \/ WritePid(c)
  \/ Healthy(c) \/ Unhealthy(c) \/ Reap(c) \/ UnlinkFailed(c)
  \/ Signal(c) \/ SeeExit(c) \/ Escalate(c) \/ UnlinkStopped(c)

Next ==
  \/ \E c \in Clients, cmd \in Commands : Invoke(c, cmd)
  \/ \E c \in Clients : Acquire(c) \/ Step(c) \/ Interrupt(c)
  \/ \E p \in Pids : Bind(p) \/ Exit(p)

Spec == Init /\ [][Next]_vars

\* Commands run on, the kernel hands the lock to its waiters in turn, and a
\* process that was killed does end.  One that was told to end may never do so:
\* it finishes the requests it has open first.
FairSpec ==
  /\ Spec
  /\ \A c \in Clients : WF_vars(Step(c)) /\ SF_vars(Acquire(c))
  /\ \A p \in Pids : WF_vars(proc[p] = "killed" /\ Exit(p))

-----------------------------------------------------------------------------
(* What must hold. *)

\* A live daemon is the one the pidfile names, or the child of the start in
\* progress: there are never two, and the next stop finds it.  It can be lost
\* in two ways only, which `orphans` records: stop and status, which take no
\* lock, remove the pidfile of a daemon started since they read it, and a start
\* is interrupted between spawning its child and writing its pid.
DaemonsAreTracked ==
  \A p \in Pids : Live(p) =>
    \/ pidfile = p
    \/ \E c \in Clients : lock = c /\ at[c] = "write" /\ held[c] = p
    \/ p \in orphans

\* When stop reports that it stopped the daemon, that process is over, or was
\* killed, and no pidfile names it.
StoppedMeansStopped ==
  \A c \in Clients : result[c] = "stopped" /\ at[c] = "idle" =>
    ~Live(held[c]) /\ proc[held[c]] # "ending" /\ pidfile # held[c]

\* A start that failed leaves nothing behind: its child was reaped, and the
\* pidfile does not name it.
FailedStartLeavesNothing ==
  \A c \in Clients : result[c] = "failed" =>
    proc[held[c]] = "dead" /\ pidfile # held[c]

\* A start that failed waits for a child that was told to end, and with it every
\* start that waits for the lock: child.wait() has no timeout.
WaitsForChild(c) ==
  \E d \in Clients :
    /\ at[d] = "reap" /\ proc[held[d]] = "ending"
    /\ c = d \/ at[c] = "lock"

\* Every command returns, though a daemon may outlive SIGTERM for ever: stop and
\* status always do, and a start does unless, from some time on, it waits for
\* such a child of its own or for the lock of a start that does.  Nothing else
\* keeps the lock: no command that ended, was interrupted or lives on as a
\* session, and no child that a concurrent stop has killed.
EveryCommandReturns ==
  \A c \in Clients :
    (at[c] \notin {"idle", "session"}) ~> (at[c] \in {"idle", "session"} \/ []WaitsForChild(c))

-----------------------------------------------------------------------------
(* The inductive invariant behind the three above. *)

\* The steps that only start takes, all under the lock, and those of stop.
StartSteps == {"spawn", "write", "health", "reap", "unlink_failed"}
StopSteps == {"signal", "await_exit", "unlink_stopped"}
Shared == {"read", "probe", "unlink_stale"}

\* Which command a step belongs to, and who has the lock.
LockHeld ==
  \A c \in Clients :
    /\ at[c] \in StartSteps => command[c] = "start" /\ lock = c
    /\ at[c] \in Shared /\ command[c] = "start" => lock = c
    /\ at[c] \in StopSteps => command[c] = "stop"
    /\ at[c] = "lock" => command[c] = "start"

\* A pid that somebody has is that of a process that was spawned.
PidsSpawned ==
  /\ pidfile # NoPid => proc[pidfile] # "unused"
  /\ \A c \in Clients : held[c] # NoPid => proc[held[c]] # "unused"

\* What a client knows of the pid it has, and that it has one where it needs it.
HeldPids ==
  \A c \in Clients :
    /\ at[c] \in StopSteps \cup {"probe", "unlink_stale", "write", "health", "reap", "unlink_failed"}
         => held[c] # NoPid
    /\ at[c] \in {"unlink_stale", "unlink_failed"} => proc[held[c]] = "dead"
    /\ at[c] = "unlink_stopped" => proc[held[c]] \in {"killed", "zombie", "dead"}

\* From reading the pidfile to writing it, there is none; a child whose pid is not
\* written is known to nobody else.
NothingWritten ==
  \A c \in Clients :
    /\ at[c] \in {"spawn", "write"} => pidfile = NoPid
    /\ at[c] = "write" => \A d \in Clients \ {c} : held[d] # held[c]

\* A command that failed or stopped the daemon had a pid, and is over.
Outcomes ==
  \A c \in Clients : result[c] \in {"stopped", "failed"} => at[c] = "idle" /\ held[c] # NoPid

IInv ==
  /\ TypeOK
  /\ LockHeld /\ PidsSpawned /\ HeldPids /\ NothingWritten /\ Outcomes
  /\ DaemonsAreTracked /\ StoppedMeansStopped /\ FailedStartLeavesNothing
=============================================================================
