--------------------------- MODULE DirectiveServe ---------------------------
(***************************************************************************)
(* The life of a directive: the `directives` and `directive_signals` rows  *)
(* of the SQLite bus, the daemon's serve loop that claims and re-enters    *)
(* them (brain/src/serve.ts), the inline pipeline that runs one            *)
(* (brain/src/loop.ts), and everything that writes the same row while the  *)
(* pipeline runs: the cancel, retry and mark-blocked operations, the task  *)
(* pool's parking, the pool-resume watcher, the clean stop, the crash and  *)
(* the reconcile of the next start.                                        *)
(*                                                                         *)
(* One action is one stretch of JavaScript between two awaits, so every    *)
(* interleaving of the daemon's event loop (and of a CLI process that runs *)
(* the pipeline itself) is a behaviour.  What the model leaves to choice:  *)
(* which phase outcome the LLM, the tests or a disk error produce, which   *)
(* parked directives a raised cap gives headroom, which orphans are past   *)
(* the ten-minute activity floor.  Build directives are on one project.    *)
(***************************************************************************)
EXTENDS Naturals, FiniteSets

CONSTANTS Build,        \* directives with intent `build` (they have a project)
          Chat,         \* directives of any other intent
          Assisted,     \* Build directives with autonomy `assisted`
          Autonomous,   \* Build directives with autonomy `autonomous`
          Inline,       \* Build directives a CLI process runs itself
          Concurrency,  \* directives the serve loop runs at once
          MaxSignals,   \* bound: unconsumed retry signals of one directive
          MaxBoots      \* bound: starts of the daemon

Directive == Build \cup Chat

ASSUME DirectiveAssumption ==
    /\ IsFiniteSet(Directive)
    /\ Build \cap Chat = {}
    /\ Assisted \subseteq Build
    /\ Autonomous \subseteq Build \ Assisted
    /\ Inline \subseteq Build

ASSUME BoundAssumption ==
    /\ Concurrency \in Nat \ {0}
    /\ MaxSignals \in Nat
    /\ MaxBoots \in Nat

VARIABLES
    status,     \* directives.status; "absent" before the insert
    reason,     \* directives.blocked_reason, by what wrote it
    birth,      \* rank of created_at
    born,       \* how many rows were inserted
    signals,    \* unconsumed task_retry rows
    failedRow,  \* a failed tasks_inflight row exists
    retrying,   \* a retry request is past its checks, not yet committed
    run,        \* phase of the pipeline, per executor and directive
    bad,        \* that pipeline's local hadFailures
    abort,      \* the per-directive AbortController fired
    serve,      \* the daemon: "up", "draining" (parent signal fired), "down"
    boots,      \* starts so far
    watch,      \* pool-resume watches the project's project.json
    changed     \* a change event is waiting out its debounce

rows == <<status, reason, birth, born, signals, failedRow>>
runs == <<run, bad, abort>>
daemon == <<serve, boots, watch, changed>>
vars == <<rows, retrying, runs, daemon>>

-----------------------------------------------------------------------------
(* Values.                                                                 *)

Terminal == {"blocked", "complete", "failed"}
Status == {"absent", "pending", "claimed", "running"} \cup Terminal

\* "pool" and "wall" are JSON texts; "cancelled" and "text" are plain prose.
Reason == {"null", "pool", "wall", "cancelled", "text"}
Prose == {"cancelled", "text"}

\* serve: the daemon's loop.  cli: `factory build --inline`, `factory resume`.
Exec == {"serve", "cli"}

(* "import" is the gap before runInline's first statement; "ask1" and      *)
(* "ask2" wait at a checkpoint, "escalated" for an operator; in "closing"  *)
(* the terminal status is written and the build log not yet.               *)
Phase == {"none", "import", "architect", "ask1", "planning", "ask2", "work",
          "escalated", "final", "closing"}
Waiting == {"ask1", "ask2", "escalated"}

TypeOK ==
    /\ status \in [Directive -> Status]
    /\ reason \in [Directive -> Reason]
    /\ birth \in [Directive -> Nat]
    /\ born \in Nat
    /\ signals \in [Directive -> 0..MaxSignals]
    /\ failedRow \in [Directive -> BOOLEAN]
    /\ retrying \in [Directive -> BOOLEAN]
    /\ run \in [Exec -> [Directive -> Phase]]
    /\ bad \in [Exec -> [Directive -> BOOLEAN]]
    /\ abort \in [Directive -> BOOLEAN]
    /\ serve \in {"up", "draining", "down"}
    /\ boots \in 0..MaxBoots
    /\ watch \in BOOLEAN
    /\ changed \in BOOLEAN
    \* the bound on signals is kept when a retry begins, for its commit
    /\ \A d \in Directive : retrying[d] => signals[d] < MaxSignals

-----------------------------------------------------------------------------
(* State the actions are built from.                                       *)

\* The serve loop's `inflight` map.
Inflight == {d \in Directive : run["serve"][d] # "none"}

HasSlotNever == Cardinality(Inflight) + 1 < Concurrency
HasSlot == Cardinality(Inflight) < Concurrency

\* The oldest pending row: what claimNext's ORDER BY created_at LIMIT 1 picks.
Oldest(d) ==
    /\ status[d] = "pending"
    /\ \A e \in Directive : status[e] = "pending" => birth[d] <= birth[e]

\* The combined signal a pipeline observes.  A CLI process has none.
AbortedNoParent(x, d) == x = "serve" /\ abort[d]
AbortedParentOnly(x, d) == x = "serve" /\ serve = "draining"
Aborted(x, d) == x = "serve" /\ (abort[d] \/ serve = "draining")

\* What serve.ts's catch writes; a CLI process has no such catch.
CatchStatusLeave(x, d) ==
    IF x = "serve" /\ serve = "draining" THEN "blocked" ELSE status[d]
CatchStatus(x, d) ==
    CASE x = "cli" -> status[d]
      [] x = "serve" /\ serve = "draining" -> "blocked"
      [] x = "serve" /\ serve # "draining" /\ abort[d] -> status[d]
      [] OTHER -> "failed"

\* The next value of the run tables when x's pipeline for d enters phase p.
Goto(x, d, p) == run' = [run EXCEPT ![x] = [@ EXCEPT ![d] = p]]

\* The `.finally`: the slot is freed and the cancellation released.
Leave(x, d) ==
    /\ Goto(x, d, "none")
    /\ bad' = [bad EXCEPT ![x] = [@ EXCEPT ![d] = FALSE]]
    /\ abort' = IF x = "serve" THEN [abort EXCEPT ![d] = FALSE] ELSE abort

\* updateStatus: unconditional, and blocked_reason keeps its old value.
SetStatus(d, s) ==
    /\ status' = [status EXCEPT ![d] = s]
    /\ UNCHANGED <<reason, birth, born, signals, failedRow>>

\* A direct UPDATE of status and blocked_reason.
SetBoth(d, s, r) ==
    /\ status' = [status EXCEPT ![d] = s]
    /\ reason' = [reason EXCEPT ![d] = r]
    /\ UNCHANGED <<birth, born, signals>>

Init ==
    /\ status = [d \in Directive |-> "absent"]
    /\ reason = [d \in Directive |-> "null"]
    /\ birth = [d \in Directive |-> 0]
    /\ born = 0
    /\ signals = [d \in Directive |-> 0]
    /\ failedRow = [d \in Directive |-> FALSE]
    /\ retrying = [d \in Directive |-> FALSE]
    /\ run = [x \in Exec |-> [d \in Directive |-> "none"]]
    /\ bad = [x \in Exec |-> [d \in Directive |-> FALSE]]
    /\ abort = [d \in Directive |-> FALSE]
    /\ serve = "down"
    /\ boots = 0
    /\ watch = FALSE
    /\ changed = FALSE

-----------------------------------------------------------------------------
(* Clients: rows are written whether the daemon runs or not.               *)

\* A new pending row, from a channel, the web UI, `resume`, or the CLI.
Submit(d) ==
    /\ status[d] = "absent"
    /\ status' = [status EXCEPT ![d] = "pending"]
    /\ birth' = [birth EXCEPT ![d] = born]
    /\ born' = born + 1
    \* the CLI goes on to runBrain in its own process
    /\ IF d \in Inline THEN Goto("cli", d, "import") ELSE UNCHANGED run
    /\ UNCHANGED <<reason, signals, failedRow, retrying, bad, abort, daemon>>

\* The CLI process dies; nothing catches it, the row stays as it is.
CliExit(d) ==
    /\ run["cli"][d] # "none"
    /\ Leave("cli", d)
    /\ UNCHANGED <<rows, retrying, daemon>>

\* POST /directives/:id/cancel: the row first, then the controller, if any.
Cancel(d) ==
    /\ serve # "down"
    /\ status[d] \in {"pending", "claimed", "running"}
    /\ SetBoth(d, "failed", "cancelled")
    /\ abort' = [abort EXCEPT ![d] = d \in Inflight]
    /\ UNCHANGED <<failedRow, retrying, run, bad, daemon>>

\* `factory directive mark-blocked`, straight on the database.
MarkBlocked(d) ==
    /\ status[d] \in {"pending", "claimed", "running"}
    /\ SetBoth(d, "blocked", "text")
    /\ UNCHANGED <<failedRow, retrying, runs, daemon>>

(* POST .../tasks/:taskId/retry: the checks and the task reset, then the   *)
(* file-system awaits, then the directive and its signal.                  *)
RetryBegin(d) ==
    /\ serve # "down"
    /\ status[d] = "blocked"
    /\ failedRow[d]
    /\ ~retrying[d]
    /\ signals[d] < MaxSignals
    /\ retrying' = [retrying EXCEPT ![d] = TRUE]
    /\ UNCHANGED <<rows, runs, daemon>>

RetryCommit(d) ==
    /\ serve # "down"
    /\ retrying[d]
    /\ retrying' = [retrying EXCEPT ![d] = FALSE]
    /\ status' = [status EXCEPT ![d] = "running"]
    /\ signals' = [signals EXCEPT ![d] = @ + 1]
    /\ UNCHANGED <<reason, birth, born, failedRow, runs, daemon>>

\* The operator edits project.json; the watcher, if any, arms its timer.
RaiseCap ==
    /\ watch
    /\ ~changed
    /\ changed' = TRUE
    /\ UNCHANGED <<rows, retrying, runs, serve, boots, watch>>

-----------------------------------------------------------------------------
(* The serve loop.                                                         *)

\* claimNext, registerProject, registerCancellation, runOne.
Claim(d) ==
    /\ serve = "up"
    /\ HasSlot
    /\ Oldest(d)
    /\ SetStatus(d, "claimed")
    /\ Goto("serve", d, "import")
    /\ abort' = [abort EXCEPT ![d] = FALSE]
    /\ watch' = (watch \/ d \in Build)
    /\ UNCHANGED <<retrying, bad, serve, boots, changed>>

\* directiveIdsWithPendingSignal, for a directive that is not in flight.
Signalled(d) == status[d] = "running" /\ signals[d] > 0

ReEnter(d) ==
    /\ serve = "up"
    /\ HasSlot
    /\ d \notin Inflight
    /\ Signalled(d)
    /\ signals' = [signals EXCEPT ![d] = @ - 1]
    /\ Goto("serve", d, "import")
    /\ abort' = [abort EXCEPT ![d] = FALSE]
    /\ watch' = (watch \/ d \in Build)
    /\ UNCHANGED <<status, reason, birth, born, failedRow, retrying, bad,
                   serve, boots, changed>>

(* pool-resume's re-check.  json_extract raises on a blocked row of the    *)
(* project whose reason is prose; nothing catches the rejected promise, so *)
(* factoryd's unhandledRejection handler starts a stop.                    *)
ParkedAnyStatus == {d \in Build : reason[d] = "pool" /\ status[d] # "absent"}
Parked == {d \in Build : status[d] = "blocked" /\ reason[d] = "pool"}

Malformed == \E d \in Build : status[d] = "blocked" /\ reason[d] \in Prose

Recheck ==
    /\ serve # "down"
    /\ changed
    /\ changed' = FALSE
    /\ \/ /\ Malformed
          /\ serve' = "draining"
          /\ UNCHANGED <<status, reason>>
       \/ /\ ~Malformed
          /\ \E headroom \in SUBSET Parked :
                /\ status' = [d \in Directive |->
                                IF d \in headroom THEN "running" ELSE status[d]]
                /\ reason' = [d \in Directive |->
                                IF d \in headroom THEN "null" ELSE reason[d]]
          /\ UNCHANGED serve
    /\ UNCHANGED <<birth, born, signals, failedRow, retrying, runs, boots, watch>>

-----------------------------------------------------------------------------
(* The pipeline, for executor x.  Nothing before "work" looks at the       *)
(* signal, except a wait for an answer.                                    *)

\* runInline's first statements: to `running`, whatever the status is now.
Begin(x, d) ==
    /\ run[x][d] = "import"
    /\ SetStatus(d, "running")
    /\ Goto(x, d, "architect")
    /\ UNCHANGED <<retrying, bad, abort, daemon>>

\* Chat and unimplemented intents end after triage.
ReplyDone(x, d) ==
    /\ d \in Chat
    /\ run[x][d] = "architect"
    /\ SetStatus(d, "complete")
    /\ Leave(x, d)
    /\ UNCHANGED <<retrying, daemon>>

\* BudgetExceededError in triage, architect, critic or planner.
BudgetHalt(x, d) ==
    /\ run[x][d] \in {"architect", "planning"}
    /\ status[d] \notin Terminal
    /\ SetBoth(d, "blocked", "text")
    /\ Leave(x, d)
    /\ UNCHANGED <<failedRow, retrying, daemon>>

\* A wiki-readiness question or the assisted checkpoint after the architect.
Ask(x, d) ==
    /\ d \in Build
    /\ \/ run[x][d] = "architect" /\ Goto(x, d, "ask1")
       \/ run[x][d] = "planning" /\ d \in Assisted /\ Goto(x, d, "ask2")
    /\ UNCHANGED <<rows, retrying, bad, abort, daemon>>

\* On to the planner; then on to runPlanPool.
Proceed(x, d) ==
    /\ d \in Build
    \* an earlier run that got to the pool may have its answers on record
    /\ d \notin Assisted \/ failedRow[d]
    /\ \/ run[x][d] = "architect" /\ Goto(x, d, "planning")
       \/ run[x][d] = "planning" /\ Goto(x, d, "work")
    /\ UNCHANGED <<rows, retrying, bad, abort, daemon>>

\* What the pipeline does when its question is answered with `go on`.
Resumed(x, d) ==
    /\ \/ run[x][d] = "ask1" /\ Goto(x, d, "planning")
       \/ run[x][d] = "ask2" /\ Goto(x, d, "work")
       \/ run[x][d] = "escalated" /\ Goto(x, d, "final")
    /\ UNCHANGED <<rows, retrying, bad, abort, daemon>>

\* isAbortAnswer at a checkpoint: the run ends blocked, reason untouched.
Declined(x, d) ==
    /\ run[x][d] \in {"ask1", "ask2"}
    /\ SetStatus(d, "blocked")
    /\ Leave(x, d)
    /\ UNCHANGED <<retrying, daemon>>

\* An operator's reply through the CLI, a channel or the web UI.
HumanAnswer(x, d) ==
    /\ run[x][d] \in Waiting
    /\ Resumed(x, d) \/ Declined(x, d)

\* The auto-answer sweep skips questions of terminal directives.
AutoAnswer(x, d) ==
    /\ run[x][d] \in Waiting
    /\ serve = "up"
    /\ status[d] \notin Terminal
    /\ Resumed(x, d) \/ Declined(x, d)

\* The poll loop sees the signal.  It declines an assisted checkpoint; a wiki
\* question then defaults to `continue`, and an escalation just ends.
AbortSeen(x, d) ==
    /\ run[x][d] \in Waiting
    /\ Aborted(x, d)
    /\ IF d \in Assisted /\ run[x][d] # "escalated"
       THEN Declined(x, d) ELSE Resumed(x, d)

(* The pool parks the directive on an exhausted axis, or on the wall clock: *)
(* an unguarded UPDATE, with sibling tasks still running.                   *)
ParkPool(x, d) ==
    /\ run[x][d] = "work"
    /\ SetBoth(d, "blocked", "pool")
    /\ failedRow' = [failedRow EXCEPT ![d] = TRUE]
    /\ bad' = [bad EXCEPT ![x] = [@ EXCEPT ![d] = TRUE]]
    /\ UNCHANGED <<retrying, run, abort, daemon>>

ParkWallClock(x, d) ==
    /\ run[x][d] = "work"
    /\ SetBoth(d, "blocked", "wall")
    /\ bad' = [bad EXCEPT ![x] = [@ EXCEPT ![d] = TRUE]]
    /\ UNCHANGED <<failedRow, retrying, run, abort, daemon>>

(* runPlanTasks, assess and the fixer loop end; an autonomous run with     *)
(* failures then escalates and waits.                                      *)
WorkDone(x, d) ==
    /\ run[x][d] = "work"
    /\ \E taskFailed, gateFailed \in BOOLEAN :
          LET failures == bad[x][d] \/ taskFailed \/ gateFailed
          IN  /\ failedRow' = [failedRow EXCEPT ![d] = @ \/ taskFailed]
              /\ bad' = [bad EXCEPT ![x] = [@ EXCEPT ![d] = failures]]
              /\ Goto(x, d, IF failures /\ d \in Autonomous
                            THEN "escalated" ELSE "final")
    /\ UNCHANGED <<status, reason, birth, born, signals, retrying, abort, daemon>>

\* Final validation may still fail the run; then the terminal updateStatus.
Finish(x, d) ==
    /\ run[x][d] = "final"
    /\ \E invalid \in BOOLEAN :
          SetStatus(d, IF bad[x][d] \/ invalid THEN "blocked" ELSE "complete")
    /\ Goto(x, d, "closing")
    /\ UNCHANGED <<retrying, bad, abort, daemon>>

\* The last build-log append succeeds, runInline resolves.
Settle(x, d) ==
    /\ run[x][d] = "closing"
    /\ Leave(x, d)
    /\ UNCHANGED <<rows, retrying, daemon>>

\* runInline rejects: a provider, disk or database error, at any await.
Throw(x, d) ==
    /\ run[x][d] \notin {"none", "import"}
    /\ SetStatus(d, CatchStatus(x, d))
    /\ Leave(x, d)
    /\ UNCHANGED <<retrying, daemon>>

-----------------------------------------------------------------------------
(* The daemon's own life.                                                  *)

\* SIGTERM: the supervisor aborts the parent signal.
Shutdown ==
    /\ serve = "up"
    /\ serve' = "draining"
    /\ UNCHANGED <<rows, retrying, runs, boots, watch, changed>>

\* allSettled over `inflight`, then the watchers close and the process exits.
Drained ==
    /\ serve = "draining"
    /\ Inflight = {}
    /\ serve' = "down"
    /\ watch' = FALSE
    /\ changed' = FALSE
    /\ retrying' = [d \in Directive |-> FALSE]
    /\ UNCHANGED <<rows, runs, boots>>

\* A kill, or the 8-second forced exit of a stop that does not drain.
Crash ==
    /\ serve # "down"
    /\ serve' = "down"
    /\ watch' = FALSE
    /\ changed' = FALSE
    /\ retrying' = [d \in Directive |-> FALSE]
    /\ run' = [run EXCEPT !["serve"] = [d \in Directive |-> "none"]]
    /\ bad' = [bad EXCEPT !["serve"] = [d \in Directive |-> FALSE]]
    /\ abort' = [d \in Directive |-> FALSE]
    /\ UNCHANGED <<rows, boots>>

(* startDaemon: reconcileOrphanedDirectives.  No claimer in a `running` row *)
(* is alive: a serve-<pid> died with its daemon and a CLI run writes none.  *)
(* So the activity floor alone decides; `stale` are the rows past it.       *)
Boot ==
    /\ serve = "down"
    /\ boots < MaxBoots
    /\ boots' = boots + 1
    /\ serve' = "up"
    /\ \E stale \in SUBSET {d \in Directive : status[d] = "running"} :
          /\ status' = [d \in Directive |->
                          IF d \in stale THEN "blocked" ELSE status[d]]
          /\ reason' = [d \in Directive |->
                          IF d \in stale THEN "text" ELSE reason[d]]
    /\ UNCHANGED <<birth, born, signals, failedRow, retrying, runs, watch, changed>>

-----------------------------------------------------------------------------
Client(d) ==
    \/ Submit(d) \/ CliExit(d) \/ Cancel(d) \/ MarkBlocked(d)
    \/ RetryBegin(d) \/ RetryCommit(d)

Pipeline(x, d) ==
    \/ Begin(x, d) \/ ReplyDone(x, d) \/ BudgetHalt(x, d) \/ Ask(x, d)
    \/ Proceed(x, d) \/ HumanAnswer(x, d) \/ AutoAnswer(x, d)
    \/ AbortSeen(x, d) \/ ParkPool(x, d) \/ ParkWallClock(x, d)
    \/ WorkDone(x, d) \/ Finish(x, d) \/ Settle(x, d) \/ Throw(x, d)

Loop(d) == Claim(d) \/ ReEnter(d)

Life == RaiseCap \/ Recheck \/ Shutdown \/ Drained \/ Crash \/ Boot

Next ==
    \/ \E d \in Directive : Client(d) \/ Loop(d)
    \/ \E x \in Exec, d \in Directive : Pipeline(x, d)
    \/ Life

Spec == Init /\ [][Next]_vars

(***************************************************************************)
(* Fairness.  The event loop runs every promise that is ready, the serve   *)
(* loop polls every 250 ms, provider calls and task subprocesses have      *)
(* timeouts, and a wait polls its row: so a run that can go on does, and a *)
(* free slot is filled, by a pending directive first: each pass claims     *)
(* before it looks at retry signals, which is why the claim is strongly    *)
(* fair (a retried directive cannot take the slot for ever).  Nobody has   *)
(* to submit, cancel, retry, stop, start or kill anything, and no operator *)
(* has to answer.                                                          *)
(***************************************************************************)
Advance(x, d) ==
    \/ Begin(x, d) \/ ReplyDone(x, d) \/ Ask(x, d) \/ Proceed(x, d)
    \/ AutoAnswer(x, d) \/ AbortSeen(x, d) \/ WorkDone(x, d)
    \/ Finish(x, d) \/ Settle(x, d)

Fairness ==
    /\ \A d \in Directive :
          SF_vars(Claim(d)) /\ WF_vars(ReEnter(d)) /\ WF_vars(RetryCommit(d))
    /\ \A x \in Exec, d \in Directive : WF_vars(Advance(x, d))
    /\ WF_vars(Recheck)
    /\ WF_vars(Drained)

FairSpec == Spec /\ Fairness

-----------------------------------------------------------------------------
(* Properties that hold.                                                   *)

\* An executor that has not written its terminal status yet.
Owner(x, d) == run[x][d] \notin {"none", "closing"}

\* A row in flight that no executor, and no signal, will ever take further.
Stranded(d) ==
    /\ status[d] \in {"claimed", "running"}
    /\ signals[d] = 0
    /\ \A x \in Exec : ~Owner(x, d)

\* No executor at all, and no retry request half way.
Quiet(d) == ~retrying[d] /\ \A x \in Exec : run[x][d] = "none"

(* The loop never runs more directives than its concurrency, although two  *)
(* paths fill the slots: the claim of a pending row and the re-entry on a  *)
(* retry signal (serve.ts:155, :270).                                      *)
InflightBound == Cardinality(Inflight) <= Concurrency

(* A directive is lost (claimed or running, nobody on it, no signal left)  *)
(* in four ways only: the pool-resume re-check flips it to running, the    *)
(* daemon dies, a CLI run dies or throws, or a cancelled run throws and    *)
(* the catch leaves its row alone.  Every other order of claim, retry,     *)
(* park, cancel, finish, stop and reconcile leaves it owned or terminal.   *)
StrandedOnlyBy ==
    [][\A d \in Directive :
          ~Stranded(d) /\ Stranded(d)' =>
             \/ changed /\ ~changed'
             \/ serve # "down" /\ serve' = "down"
             \/ run["cli"][d] # "none" /\ run'["cli"][d] = "none"
             \/ abort[d] /\ run'["serve"][d] = "none"]_vars

(* Once its run and any retry request are over, a complete or failed row   *)
(* is never reopened: not by the re-check of a cap raise (which matches on *)
(* a reason that outlives the park), not by the reconcile of a start.      *)
TerminalIsFinal ==
    [][\A d \in Directive :
          status[d] \in {"complete", "failed"} /\ Quiet(d) =>
             status'[d] = status[d]]_vars

(* A cancel that fires a controller frees the slot, even of a run that     *)
(* waits for an operator who never answers.                                *)
CancelFreesSlot ==
    \A d \in Directive :
        abort[d] ~> run["serve"][d] = "none" \/ serve = "down"

\* A stop drains: the daemon does not hang on a run that waits for a human.
StopDrains == serve = "draining" ~> serve = "down"

(* A pending directive is picked up, unless the daemon goes or a run waits  *)
(* for an operator: no other run, retried or not, keeps the slot for ever. *)
PendingIsServed ==
    \A d \in Directive :
        status[d] = "pending" ~>
            \/ status[d] # "pending" \/ serve # "up"
            \/ \E e \in Inflight : run["serve"][e] \in Waiting

-----------------------------------------------------------------------------
(* What the code's comments say, and some behaviour of it violates.        *)

\* serve.ts:195 "row has already been flipped to `failed` by the daemon's
\* /cancel route": then a cancelled row stays failed.
CancelSticks ==
    \A d \in Directive : reason[d] = "cancelled" => status[d] = "failed"

\* serve.ts:111 "flips those with headroom back to `running`. Our next poll
\* tick claims them": then a running directive does not stay without a run.
ResumedIsReclaimed ==
    \A d \in Directive :
        status[d] = "running" /\ reason[d] = "null" ~>
            status[d] # "running" \/ (\E x \in Exec : Owner(x, d)) \/ serve # "up"
=============================================================================
