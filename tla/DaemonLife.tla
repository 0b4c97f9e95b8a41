----------------------------- MODULE DaemonLife -----------------------------
(***************************************************************************)
(* The life of factoryd processes on one machine: the pidfile              *)
(* (daemon/src/pidfile.ts), the start with its rollback and the stop in    *)
(* reverse order (daemon/src/index.ts), the signal handlers                *)
(* (apps/factoryd/src/main.ts), the supervisor of the serve loop           *)
(* (daemon/src/supervisor.ts) and `factory daemon start | stop | restart`  *)
(* (cli/src/commands/daemon.ts).                                           *)
(*                                                                         *)
(* A process is named by its pid; a slot that is "off" may be spawned      *)
(* again, which is a reused pid.  Every system call on the pidfile is a    *)
(* step of its own: the calls of one process are synchronous, but other    *)
(* processes run between them.  All daemons are configured with one port,  *)
(* which the operating system gives to one process at a time.              *)
(***************************************************************************)
EXTENDS Naturals, Sequences, SequencesExt

CONSTANTS Daemon,       \* process ids
          Cli,          \* operators that run `factory daemon`
          Concurrency,  \* directives that one serve loop runs at a time
          MaxRestarts,  \* crashes in a row after which the supervisor gives up
          MaxSpawns,    \* bound: daemon processes ever started
          MaxStray      \* bound: runs of crashed loops that still settle

None == "none"          \* no file, no owner, no process

ASSUME DaemonAssumption ==
    /\ None \notin Daemon
    /\ Concurrency \in Nat \ {0}
    /\ MaxRestarts \in Nat \ {0}
    /\ MaxSpawns \in Nat
    /\ MaxStray \in Nat

VARIABLES
    owner,      \* whose inode the pidfile's path names, None when absent
    written,    \* that inode holds its creator's pid (it is created empty)
    port,       \* the process that listens on the IPC port
    pc,         \* where a daemon process is
    attempt,    \* round of acquirePidFile's loop
    subsystems, \* started subsystems, in order
    streaming,  \* a browser's event stream is open
    supervisor, \* the brain's supervisor: state of its loop
    halted,     \* its stop() was called
    crashes,    \* its consecutiveCrashes
    runs,       \* directive runs of its serve loop
    stray,      \* aborted runs of crashed serve loops that still settle
    cli,        \* where an operator's command is
    target,     \* the pid it read
    spawns,
    raced       \* a start overlapped another one, or a check-then-unlink

lock == <<owner, written>>
process == <<pc, attempt, subsystems, streaming>>
brain == <<supervisor, halted, crashes, runs, stray>>
operator == <<cli, target>>
history == <<spawns, raced>>
vars == <<lock, port, process, brain, operator, history>>

Acquiring == {"look", "reap", "create", "write"}
Booting == {"open", "channels", "bind", "workers", "events"}
Stopping == {"rollback", "stop", "close", "unlink"}

Subsystem == {"channels", "ipc", "outbound", "brain", "events"}

TypeOK ==
    /\ owner \in Daemon \cup {None}
    /\ written \in BOOLEAN
    /\ port \in Daemon \cup {None}
    /\ pc \in [Daemon -> {"off", "ready"} \cup Acquiring \cup Booting \cup Stopping]
    /\ attempt \in [Daemon -> {0, 1}]
    /\ subsystems \in [Daemon -> Seq(Subsystem)]
    /\ streaming \in [Daemon -> BOOLEAN]
    /\ supervisor \in [Daemon -> {"none", "running", "backoff", "ended", "gave up", "died"}]
    /\ halted \in [Daemon -> BOOLEAN]
    /\ crashes \in [Daemon -> 0..MaxRestarts]
    /\ runs \in [Daemon -> 0..Concurrency]
    /\ stray \in [Daemon -> 0..MaxStray]
    /\ cli \in [Cli -> {"idle", "appears", "kill", "gone", "reap", "unlink"}]
    /\ target \in [Cli -> Daemon \cup {None}]
    /\ spawns \in 0..MaxSpawns
    /\ raced \in BOOLEAN

---------------------------------------------------------------------------
(* The pidfile *)

\* readPidFromFile: an absent, empty or unreadable file names nobody.
PidInFile == IF written THEN owner ELSE None

\* processAlive, a probe with signal 0.
Alive(p) == p # None /\ pc[p] # "off"

\* The effects of a process's end, however it ends: the operating system
\* takes back the port; the pidfile stays as it is.
Exit(p) ==
    /\ pc' = [pc EXCEPT ![p] = "off"]
    /\ attempt' = [attempt EXCEPT ![p] = 0]
    /\ subsystems' = [subsystems EXCEPT ![p] = <<>>]
    /\ streaming' = [streaming EXCEPT ![p] = FALSE]
    /\ port' = IF port = p THEN None ELSE port
    /\ supervisor' = [supervisor EXCEPT ![p] = "none"]
    /\ halted' = [halted EXCEPT ![p] = FALSE]
    /\ crashes' = [crashes EXCEPT ![p] = 0]
    /\ runs' = [runs EXCEPT ![p] = 0]
    /\ stray' = [stray EXCEPT ![p] = 0]

Goto(p, to) == pc' = [pc EXCEPT ![p] = to]

\* Another daemon is between its first look at the file and its write of
\* it, an operator's command has looked at the file and is about to unlink
\* it, or it still waits for the end of an earlier process with this pid.
Overlap(p) ==
    \/ \E q \in Daemon \ {p} : pc[q] \in Acquiring
    \/ \E c \in Cli : cli[c] = "unlink" \/ target[c] = p

Spawn(p) ==
    /\ pc[p] = "off"
    /\ spawns < MaxSpawns
    /\ spawns' = spawns + 1
    /\ raced' = (raced \/ Overlap(p))
    /\ Goto(p, "look")

\* runForeground, started by hand or by a process manager.
Launch(p) ==
    /\ Spawn(p)
    /\ UNCHANGED <<lock, port, attempt, subsystems, streaming, brain, operator>>

\* acquirePidFile: a live owner other than this process refuses the start.
Locked(p) == PidInFile # p /\ Alive(PidInFile)

\* A bug: The start waits for a live owner to go away.
LookWaits(p) ==
    /\ pc[p] = "look"
    /\ ~Locked(p)
    /\ Goto(p, IF owner = None THEN "create" ELSE "reap")
    /\ UNCHANGED <<port, attempt, subsystems, streaming, brain>>
    /\ UNCHANGED <<lock, operator, history>>

Look(p) ==
    /\ pc[p] = "look"
    /\ \/ Locked(p) /\ Exit(p)
       \/ /\ ~Locked(p)
          /\ Goto(p, IF owner = None THEN "create" ELSE "reap")
          /\ UNCHANGED <<port, attempt, subsystems, streaming, brain>>
    /\ UNCHANGED <<lock, operator, history>>

Reap(p) ==
    /\ pc[p] = "reap"
    /\ owner' = None
    /\ written' = FALSE
    /\ Goto(p, "create")
    /\ UNCHANGED <<port, attempt, subsystems, streaming, brain, operator, history>>

\* open with `wx`; EEXIST goes round the loop once.
Create(p) ==
    /\ pc[p] = "create"
    /\ \/ /\ owner = None
          /\ owner' = p
          /\ written' = FALSE
          /\ Goto(p, "write")
          /\ UNCHANGED <<port, attempt, subsystems, streaming, brain>>
       \/ /\ owner # None
          /\ attempt[p] = 0
          /\ attempt' = [attempt EXCEPT ![p] = 1]
          /\ Goto(p, "look")
          /\ UNCHANGED <<lock, port, subsystems, streaming, brain>>
       \/ /\ owner # None
          /\ attempt[p] = 1
          /\ Exit(p)
          /\ UNCHANGED lock
    /\ UNCHANGED <<operator, history>>

\* The write goes to the inode that the open created, whoever has unlinked
\* it since.
Write(p) ==
    /\ pc[p] = "write"
    /\ written' = (written \/ owner = p)
    /\ Goto(p, "open")
    /\ UNCHANGED <<owner, port, attempt, subsystems, streaming, brain, operator, history>>

---------------------------------------------------------------------------
(* startDaemon *)

Push(p, name) == subsystems' = [subsystems EXCEPT ![p] = Append(@, name)]

\* An exception in the start: what has been started is stopped again.
Fail(p) ==
    /\ Goto(p, "rollback")
    /\ UNCHANGED <<lock, port, attempt, subsystems, streaming, brain, operator, history>>

\* openDatabase, runMigrations, reconcileOrphanedDirectives,
\* recoverFromHumanWaits: a locked or corrupt database throws.
OpenDatabase(p) ==
    /\ pc[p] = "open"
    /\ \/ Fail(p)
       \/ /\ Goto(p, "channels")
          /\ UNCHANGED <<lock, port, attempt, subsystems, streaming, brain, operator, history>>

\* registry.start() captures the failures of its plugins.
StartChannels(p) ==
    /\ pc[p] = "channels"
    /\ Push(p, "channels")
    /\ Goto(p, "bind")
    /\ UNCHANGED <<lock, port, attempt, streaming, brain, operator, history>>

StartIpc(p) ==
    /\ pc[p] = "bind"
    /\ \/ port # None /\ Fail(p)
       \/ /\ port = None
          /\ port' = p
          /\ Push(p, "ipc")
          /\ Goto(p, "workers")
          /\ UNCHANGED <<lock, attempt, streaming, brain, operator, history>>

\* startOutboundWorker and startBrainSupervisor return at once; the
\* supervisor's loop has begun its first task.
StartWorkers(p) ==
    /\ pc[p] = "workers"
    /\ subsystems' = [subsystems EXCEPT ![p] = @ \o <<"outbound", "brain">>]
    /\ supervisor' = [supervisor EXCEPT ![p] = "running"]
    /\ Goto(p, "events")
    /\ UNCHANGED <<lock, port, attempt, streaming, halted, crashes, runs, stray, operator, history>>

\* A source that does not start is logged and left out.
StartEvents(p) ==
    /\ pc[p] = "events"
    /\ \/ Push(p, "events")
       \/ UNCHANGED subsystems
    /\ Goto(p, "ready")
    /\ UNCHANGED <<lock, port, attempt, streaming, brain, operator, history>>

\* A browser opens the event stream of a directive that has not ended, or
\* goes away.
Stream(p) ==
    /\ IF streaming[p] THEN TRUE ELSE port = p
    /\ streaming' = [streaming EXCEPT ![p] = ~@]
    /\ UNCHANGED <<lock, port, pc, attempt, subsystems, brain, operator, history>>

---------------------------------------------------------------------------
(* The supervisor of the serve loop *)

BeginRun(p) ==
    /\ supervisor[p] = "running"
    /\ ~halted[p]
    /\ runs[p] < Concurrency
    /\ runs' = [runs EXCEPT ![p] = @ + 1]
    /\ UNCHANGED <<lock, port, process, supervisor, halted, crashes, stray, operator, history>>

EndRun(p) ==
    /\ \/ /\ runs[p] > 0
          /\ runs' = [runs EXCEPT ![p] = @ - 1]
          /\ UNCHANGED stray
       \/ /\ stray[p] > 0
          /\ stray' = [stray EXCEPT ![p] = @ - 1]
          /\ UNCHANGED runs
    /\ UNCHANGED <<lock, port, process, supervisor, halted, crashes, operator, history>>

\* A run that was healthy for a minute forgives the earlier crashes.
Tally(p, healthy) == IF healthy THEN 1 ELSE crashes[p] + 1

\* What the supervisor does about a rejected task.
AfterCrash(p, tally) == IF tally >= MaxRestarts THEN "gave up" ELSE "backoff"

\* The task rejects: its runs are aborted and left to settle, and the map
\* that counted them goes with the loop: nobody awaits them.  A loop that
\* dies after stop() was called is not counted.
CrashLoop(p) ==
    /\ supervisor[p] = "running"
    /\ stray[p] + runs[p] <= MaxStray
    /\ stray' = [stray EXCEPT ![p] = @ + runs[p]]
    /\ runs' = [runs EXCEPT ![p] = 0]
    /\ \/ /\ halted[p]
          /\ supervisor' = [supervisor EXCEPT ![p] = "died"]
          /\ UNCHANGED crashes
       \/ /\ ~halted[p]
          /\ \E healthy \in BOOLEAN :
                /\ crashes' = [crashes EXCEPT ![p] = Tally(p, healthy)]
                /\ supervisor' = [supervisor EXCEPT ![p] = AfterCrash(p, Tally(p, healthy))]
    /\ UNCHANGED <<lock, port, process, halted, operator, history>>

\* A bug: The loop is restarted without a look at `stopped`.
WakeUpAlways(p) ==
    /\ supervisor[p] = "backoff"
    /\ supervisor' = [supervisor EXCEPT ![p] = "running"]
    /\ UNCHANGED <<lock, port, process, halted, crashes, runs, stray, operator, history>>

\* The end of the back-off, or of the wait when stop() resolves stopped$.
WakeUp(p) ==
    /\ supervisor[p] = "backoff"
    /\ supervisor' = [supervisor EXCEPT ![p] = IF halted[p] THEN "ended" ELSE "running"]
    /\ UNCHANGED <<lock, port, process, halted, crashes, runs, stray, operator, history>>

\* The aborted serve loop has drained its runs and resolves.
LoopEnds(p) ==
    /\ supervisor[p] = "running"
    /\ halted[p]
    /\ runs[p] = 0
    /\ supervisor' = [supervisor EXCEPT ![p] = "ended"]
    /\ UNCHANGED <<lock, port, process, halted, crashes, runs, stray, operator, history>>

---------------------------------------------------------------------------
(* stop() and the rollback: subsystems in reverse, database, pidfile *)

\* shutdown() of factoryd: a signal or an unhandled error, once.
Shutdown(p) ==
    /\ pc[p] = "ready"
    /\ Goto(p, "stop")
    /\ UNCHANGED <<lock, port, attempt, subsystems, streaming, brain, operator, history>>

\* A bug: The subsystems are stopped in the order of their start.
TopFirst(p) == 1

\* The place of the subsystem whose stop() is awaited.
Top(p) == Len(subsystems[p])
Awaited(p) == subsystems[p][Top(p)]

\* The supervisor's stop(): the abort, then a wait for its loop.
Halt(p) ==
    /\ pc[p] \in {"rollback", "stop"}
    /\ subsystems[p] # <<>>
    /\ Awaited(p) = "brain"
    /\ ~halted[p]
    /\ halted' = [halted EXCEPT ![p] = TRUE]
    /\ UNCHANGED <<lock, port, process, supervisor, crashes, runs, stray, operator, history>>

\* A bug: The supervisor's stop() does not await its loop.
StoppedAtOnce(p, name) == name = "ipc" => ~streaming[p]

\* What a stop() waits for: the supervisor's loop, open event streams.
Stopped(p, name) ==
    CASE name = "brain" -> halted[p] /\ supervisor[p] \in {"ended", "gave up", "died"}
      [] name = "ipc" -> ~streaming[p]
      [] OTHER -> TRUE

StopSubsystem(p) ==
    /\ pc[p] \in {"rollback", "stop"}
    /\ subsystems[p] # <<>>
    /\ Stopped(p, Awaited(p))
    /\ subsystems' = [subsystems EXCEPT ![p] = RemoveAt(@, Top(p))]
    /\ port' = IF Awaited(p) = "ipc" THEN None ELSE port
    /\ UNCHANGED <<lock, pc, attempt, streaming, brain, operator, history>>

\* closeDatabase
Close(p) ==
    /\ pc[p] \in {"rollback", "stop"}
    /\ subsystems[p] = <<>>
    /\ Goto(p, "close")
    /\ UNCHANGED <<lock, port, attempt, subsystems, streaming, brain, operator, history>>

\* release(): only a file with this pid is unlinked.
Release(p) ==
    /\ pc[p] = "close"
    /\ \/ /\ PidInFile = p
          /\ Goto(p, "unlink")
          /\ UNCHANGED <<port, attempt, subsystems, streaming, brain>>
       \/ PidInFile # p /\ Exit(p)
    /\ UNCHANGED <<lock, operator, history>>

Unlink(p) ==
    /\ pc[p] = "unlink"
    /\ owner' = None
    /\ written' = FALSE
    /\ Exit(p)
    /\ UNCHANGED <<operator, history>>

\* The force timer of shutdown(); a start that fails has none.
ForceExit(p) ==
    /\ pc[p] = "stop"
    /\ Exit(p)
    /\ UNCHANGED <<lock, operator, history>>

\* SIGKILL, TerminateProcess, a power cut; before the start has returned
\* any signal.
Kill(p) ==
    /\ pc[p] # "off"
    /\ Exit(p)
    /\ UNCHANGED <<lock, operator, history>>

---------------------------------------------------------------------------
(* factory daemon start | stop | restart *)

To(c, where, pid) ==
    /\ cli' = [cli EXCEPT ![c] = where]
    /\ target' = [target EXCEPT ![c] = pid]

CliStart(c) ==
    /\ cli[c] = "idle"
    /\ ~Alive(PidInFile)
    /\ \E p \in Daemon : Spawn(p)
    /\ To(c, "appears", None)
    /\ UNCHANGED <<lock, port, attempt, subsystems, streaming, brain>>

\* waitPidAppears: a live pid, or five seconds.
CliAppears(c) ==
    /\ cli[c] = "appears"
    /\ To(c, "idle", None)
    /\ UNCHANGED <<lock, port, process, brain, history>>

CliStop(c) ==
    /\ cli[c] = "idle"
    /\ Alive(PidInFile)
    /\ To(c, "kill", PidInFile)
    /\ UNCHANGED <<lock, port, process, brain, history>>

\* SIGTERM: graceful for a daemon whose start has returned, ignored by one
\* that already stops, the end of any other process.
Sigterm(c) ==
    /\ cli[c] = "kill"
    /\ LET p == target[c] IN
       \/ /\ pc[p] = "off"
          /\ To(c, "idle", None)
          /\ UNCHANGED <<port, process, brain>>
       \/ /\ pc[p] # "off"
          /\ To(c, "gone", p)
          /\ CASE pc[p] = "ready" ->
                     Goto(p, "stop") /\ UNCHANGED <<port, attempt, subsystems, streaming, brain>>
               [] pc[p] \in Stopping \ {"rollback"} -> UNCHANGED <<port, process, brain>>
               [] OTHER -> Exit(p)
    /\ UNCHANGED <<lock, history>>

\* waitPidGone: an absent or unreadable file counts, or ten seconds.
CliGone(c) ==
    /\ cli[c] = "gone"
    /\ \/ ~Alive(PidInFile) /\ To(c, "reap", target[c])
       \/ To(c, "idle", None)
    /\ UNCHANGED <<lock, port, process, brain, history>>

\* A bug: reapStalePidFile without the same-pid predicate.
StillTargetUnchecked(c) == TRUE

\* reapStalePidFile: the same-pid predicate, then the unlink.
StillTarget(c) == PidInFile = target[c]

CliReap(c) ==
    /\ cli[c] = "reap"
    /\ IF StillTarget(c) THEN To(c, "unlink", target[c]) ELSE To(c, "idle", None)
    /\ raced' = (raced \/ (StillTarget(c) /\ \E p \in Daemon : pc[p] \in Acquiring))
    /\ UNCHANGED <<lock, port, process, brain, spawns>>

CliUnlink(c) ==
    /\ cli[c] = "unlink"
    /\ owner' = None
    /\ written' = FALSE
    /\ To(c, "idle", None)
    /\ UNCHANGED <<port, process, brain, history>>

---------------------------------------------------------------------------
\* An earlier process may have crashed and left its file, empty or not.
Init ==
    /\ \/ owner = None /\ written = FALSE
       \/ owner \in Daemon /\ written \in BOOLEAN
    /\ port = None
    /\ pc = [p \in Daemon |-> "off"]
    /\ attempt = [p \in Daemon |-> 0]
    /\ subsystems = [p \in Daemon |-> <<>>]
    /\ streaming = [p \in Daemon |-> FALSE]
    /\ supervisor = [p \in Daemon |-> "none"]
    /\ halted = [p \in Daemon |-> FALSE]
    /\ crashes = [p \in Daemon |-> 0]
    /\ runs = [p \in Daemon |-> 0]
    /\ stray = [p \in Daemon |-> 0]
    /\ cli = [c \in Cli |-> "idle"]
    /\ target = [c \in Cli |-> None]
    /\ spawns = 0
    /\ raced = FALSE

Start(p) == Look(p) \/ Reap(p) \/ Create(p) \/ Write(p) \/ OpenDatabase(p)
            \/ StartChannels(p) \/ StartIpc(p) \/ StartWorkers(p) \/ StartEvents(p)

Supervise(p) == BeginRun(p) \/ EndRun(p) \/ CrashLoop(p) \/ WakeUp(p) \/ LoopEnds(p)

Stop(p) == Halt(p) \/ StopSubsystem(p) \/ Close(p) \/ Release(p) \/ Unlink(p)

Command(c) == CliStart(c) \/ CliAppears(c) \/ CliStop(c) \/ Sigterm(c)
              \/ CliGone(c) \/ CliReap(c) \/ CliUnlink(c)

Next ==
    \/ \E p \in Daemon : Launch(p) \/ Start(p) \/ Stream(p) \/ Supervise(p)
                         \/ Shutdown(p) \/ Stop(p) \/ ForceExit(p) \/ Kill(p)
    \/ \E c \in Cli : Command(c)

Spec == Init /\ [][Next]_vars

\* A process runs on: its synchronous code, and the promises that it
\* awaits while it starts and stops, but for the two that Stopped names.
FairSpec ==
    /\ Spec
    /\ \A p \in Daemon :
          /\ WF_vars(Start(p))
          /\ WF_vars(Stop(p))

---------------------------------------------------------------------------
(* Properties *)

\* At most one process on the machine claims directives and delivers
\* messages.  The pidfile does not see to it when two starts overlap; the
\* port does, because the workers are started after the bind and stopped
\* before the port is given back.
OneBrain ==
    \A p, q \in Daemon :
        Range(subsystems[p]) \cap Range(subsystems[q]) \cap {"ipc", "outbound", "brain"} # {} => p = q

\* When no start overlaps another one or a check-then-unlink, the pidfile
\* names every daemon that has acquired it and has not ended, so `factory
\* daemon stop` reaches it and a second start is refused.
Acquired(p) == pc[p] \notin {"off"} \cup Acquiring

PidFileNamesDaemon == ~raced => \A p \in Daemon : Acquired(p) => PidInFile = p

\* The database is closed only when the serve loop has ended, however the
\* supervisor came to its end, and only under runs that a crash of a loop
\* has orphaned: those of a loop that ends in order are awaited.
DrainedBeforeClose ==
    \A p \in Daemon : pc[p] \in {"close", "unlink"} =>
        /\ supervisor[p] \notin {"running", "backoff"} /\ runs[p] = 0
        /\ stray[p] > 0 => crashes[p] > 0 \/ supervisor[p] = "died"

\* The supervisor starts no loop after its stop() was called, not even when
\* the back-off ends at that moment.
NoLoopAfterStop ==
    [][\A p \in Daemon : halted[p] /\ supervisor'[p] = "running" => supervisor[p] = "running"]_vars

\* A start ends: in a daemon or in a process that has gone.
StartSettles == \A p \in Daemon : pc[p] = "look" ~> pc[p] \in {"ready", "off"}
=============================================================================
