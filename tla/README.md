# Factory5 in TLA+

Factory5 turns a request ("build this project") into a *directive*, lets a
pipeline of LLM agents plan it, runs the planned tasks in parallel worktrees,
judges the result and asks an operator when it is stuck. A daemon serves many
directives over one SQLite file that the CLI, the chat channels, the web UI and
the workers also write. This directory models that control: which component may
write which row when, what is lost when a process dies, which loops end. What
the models *say*, the prompts and the rendering are left out.

Paths below are relative to the repository; `brain/` stands for
`packages/brain/src/`, `state/` for `packages/state/src/`, and so on.

## 1. Inventory

| component | state it keeps | operations | hard behaviour | what makes it correct |
|---|---|---|---|---|
| serve loop (`brain/serve.ts`) | `inflight` map, the parent abort signal | claim oldest pending row, re-enter on a retry signal, catch, `.finally`, drain | two paths fill the same slots; a cancelled, throwing or stopping run ends in different catch branches | slots bounded; a pending row is served; a cancel frees its slot; a stop drains |
| pipeline (`brain/loop.ts`) | local `hadFailures`, the row's `status` | triage, architect, checkpoints, planner, pool, assess, fix, escalate, finish | its status writes are unconditional, with awaits in between | no order of events leaves a row in flight that nobody works on |
| directive rows and signals (`state/queries/directives.ts`, `directive-signals.ts`) | `status`, `blocked_reason`, `created_at`; unconsumed signals | insert, claimNext, updateStatus, cancel, markBlocked, reconcile, consume | several processes write one row | finished rows stay finished |
| cancellation (`brain/cancellation.ts`) | a controller per running directive | register, fire, release | fires between any two awaits | see serve loop |
| pool-resume watcher (`brain/pool-resume.ts`) | watched projects, debounce timer | register, change, re-check | flips rows nobody claims; an unhandled rejection stops the daemon | a raised cap resumes what it parked |
| task pool (`brain/pool.ts`, `pool-usage.ts`, `state/queries/tasks-inflight.ts`) | `pending`/`running`/`results` maps, task rows, turns, caps | skip, launch, register, guard, bump, park, watchdog, finish, wall clock | concurrent tasks share one budget; a bump recurses; a crash leaves rows behind | bounded slots, dependencies first, every task has a result, a completed task is not run again |
| planner and sort (`brain/planner.ts`, `pool.ts:155`) | the plan's task graph | resolve indexes, serialise shared files, append reviewer, prepend migration, sort | the graph is an LLM's answer | the sort is exact and complete; added edges do no harm |
| askUser, auto-answer, questions (`brain/ask-user.ts`, `auto-answer.ts`, `state/queries/pending-questions.ts`) | a question row: open, claimed for an automatic answer, answered | ask, re-use an earlier answer, poll, answer, claim, finalise, sweep orphans | human, automatic and sweep answers race; a crash between claim and finalise | an answer is written once and is the one the pipeline reads |
| outbound worker and channels (`daemon/outbound-worker.ts`, `daemon/server.ts` 364, `channels/`) | outbound rows with attempts; Telegram's cursor; the id stamped on a question | drain, deliver, mark, abandon, `/send`; fetch updates, run commands, match replies | delivered before it is marked, by two senders; a cursor that a crash forgets | every copy of a post and every repeated command has a cause; a reply answers its own question |
| daemon (`daemon/index.ts`, `pidfile.ts`, `supervisor.ts`, `apps/factoryd/`) | the pidfile, the port, started subsystems, the supervisor's crashes in a row | acquire, start in order, undo a failed start, stop, force exit, release, reap; supervise, back off | check, remove and create are three steps; a loop restarted beside the runs of the one before | one brain; the pidfile names it; the database closes after the loop and the runs it awaits |
| project files (`wiki/findings.ts`, `project-metadata.ts`, `create-project.ts`) | `findings.json`, its registry mirror, `project.json`, the projects table | add, resolve, backfill a finding; claim, create, delete a project; edit or bump a budget | read-modify-write by whoever comes; a write is truncate, then write | no finding and no identity is lost by one job, one crash or one failing mirror |
| worker (`worker/run-worker.ts`, `worktree.ts`, `worker-sandbox/`, `providers/claude-cli.ts`) | a worktree and a branch per task, a promise chain per project and process | allocate, stream, commit, merge, remove or keep | parallel merges, conflicts, cut and killed agents, failing steps | a success is merged, a failure is not, work is never thrown away |
| build pipeline (`brain/loop.ts`, `architect-loop.ts`, `critic.ts`, `triage.ts`, `budget.ts`) | usage rows, the wiki, `plan.json`, `hadFailures` | triage, architect and critic rounds, checkpoints, plan, pool, assess, fix, escalate, validate | three loops driven by models; failures found in four places | calls bounded; complete is earned; no failure is silent; every run ends |
| assessor and coherence validator (`assessor/`, `coherence-validator/`) | `.factory/assessor-env` | check files, make the environment, build, list and run tests, compute the gates | subprocesses that fail, hang or die; a kept environment that no longer fits | the gates say what was seen |
| daemon routes (`daemon/server.ts`) | none | cancel, retry, answer, edit budgets, send, edit findings | a retry request spans awaits | see the components they write |
| ipc, events, logger, migrations, spend, web | adapters and read models | | file watching, rendering | outcomes that the models choose from |

How they interact: the CLI, the web UI and the channels insert directive rows
and answers; the serve loop claims rows and runs the pipeline, which runs the
pool, which runs workers; the pool and the daemon's routes write the *same*
directive row as the pipeline; the pipeline asks through question rows that an
operator or the auto-answer sweep fills and the outbound worker announces; a
change of `project.json` wakes the pool-resume watcher. Within the daemon all of
this is one event loop, so the atomic unit is the code between two `await`s;
between processes it is one SQL statement or one file operation.

## 2. Modules

| module | models | depends on |
|---|---|---|
| `DirectiveServe` | the life of directive rows: serve loop, pipeline, cancellation, pool-resume, routes, stop, crash, reconcile | |
| `TaskPool` | one directive's task pool, turn budget and restarts | |
| `PlanGraph` | materialisation of the planner's answer and the topological sort | |
| `AskUser` | the question rows of a directive, their askers and writers, the rows of tasks that wait | `WriteOnce` |
| `WriteOnce` | what ADR 0030 promises of an answer: abstract specification | |
| `DaemonLife` | factoryd processes on one machine: pidfile, port, start, stop, supervisor, `factory daemon` | |
| `Messaging` | the outbound queue, its two senders, the channels, replies and commands | |
| `WorkerRun` | the workers of one project: worktrees, agents, merges, over several runs | `Sandbox` |
| `Sandbox` | the gate before an agent's file tools, as operators | |
| `ProjectFiles` | `project.json`, `findings.json` and what mirrors them | |
| `BuildRun` | the build pipeline, over several runs of a directive | `Assess`, `ModelCall`, `Coherence` |
| `Assess` | one assessment of a built project, subprocess by subprocess | |
| `ModelCall`, `Coherence` | how one model call comes to nothing; the validator's checks, as operators | |
| `MCDirectiveServe`, `MCTaskPool`, `MCPlanGraph`, `MCAskUser`, `MCDaemonLife`, `MCMessaging`, `MCWorkerRun`, `MCProjectFiles`, `MCBuildRun` | constants for TLC | the modules they are named after |
| `DirectiveServe_proofs`, `TaskPool_proofs`, `AskUser_proofs`, `DaemonLife_proofs`, `Messaging_proofs`, `WorkerRun_proofs`, `BuildRun_proofs` | theorems | the modules they are named after |
| `Project_proofs` | theorems | `PlanGraph`, `ProjectFiles` |

The modules meet at a few seams. `PlanGraph` ends where `TaskPool` begins: the
theorem `SortedPlans` (dependencies first, each task once) is what lets
`TaskPool` number its tasks so that a dependency has a smaller number.
`DirectiveServe` sees the pool as one phase, "work", in which it may park
(`ParkPool`, `ParkWallClock`) and from which it comes back with or without
failures (`WorkDone`); `TaskPool` refines that phase and sees the row only as
`directive`, running or blocked. A wait in `DirectiveServe` is a poll of the
asker `Pipeline` in `AskUser`, which sees the directive only as `active`.
`BuildRun` takes the phases that are one choice each in `DirectiveServe` and
gives them their control; it composes the assessor step by step and the pool as
one step. `WorkerRun` is what a task of `TaskPool` does between `Launch` and its
result. `DaemonLife` starts and stops the loop whose inside is `DirectiveServe`,
and sees its runs as a number. A question row of `AskUser` is announced and
answered through `Messaging`.

### DirectiveServe and the code

`status`, `reason`, `birth` are the columns `status`, `blocked_reason` and the
order of `created_at`; `signals` counts unconsumed `task_retry` rows; `failedRow`
says that the retry endpoint would find a failed task. `run[x][d]` is where the
pipeline of executor `x` stands: `"serve"` is the daemon (the directives with
`run["serve"][d] # "none"` are the `inflight` map), `"cli"` a process started by
`factory build --inline` or `factory resume`. `abort` is the per-directive
controller, `serve = "draining"` the parent signal.

| action | code |
|---|---|
| `Claim`, `ReEnter` | `serve.ts` 155-193 and 265-372: slot test, claimNext / pending signals, registration |
| `Begin` ... `Settle` | `loop.ts` runInline, from the first `updateStatus(running)` to the last build-log append |
| `Throw`, `CatchStatus` | the three branches of `serve.ts` 194-256; a CLI process has none |
| `HumanAnswer`, `AutoAnswer`, `AbortSeen` | who ends a wait: an answer row, the sweep, or the poll loop that sees the signal |
| `ParkPool`, `ParkWallClock` | the pool's direct updates of the row while siblings still run |
| `Cancel`, `MarkBlocked`, `RetryBegin`/`RetryCommit` | routes and commands; the retry request has awaits between its checks and its writes, hence two actions |
| `RaiseCap`, `Recheck` | change event and debounced re-check, its uncaught error included |
| `Shutdown`, `Drained`, `Crash`, `Boot` | `supervisor.stop`, the drain, a kill, and startDaemon's reconcile |

Left to choice: which outcome a phase has (an LLM, test or disk error), which
parked directives a raised cap helps, which running rows the reconcile finds
idle for ten minutes. All build directives belong to one project.

### TaskPool and the code

`phase[t]` follows one task through `executeTask`: pending, starting (row to be
registered), checking (budgets), raising (a new cap is being written), working,
done (promise resolved), settled (result taken). `row` and `turns` are the
task's `tasks_inflight` row, which survives a crash; `cap` is the project's cap
on disk; `seen` and `want` hold what a task has read before an await and uses
after it. `Step` is one iteration of the loop of `runPlanPool`: the wall-clock
check, the abort, the fail-fast pass, the launches. `Register` is a plain INSERT
that throws on an existing row. `Chunk` is one streamed turn with the watchdog's
verdict on it, `WorkerEnds` the result, `Park`, `RaiseBegin` and `RaiseEnd` are
`parkOrAutoIncrease`. One agent class, so one turn pool, is modelled; the USD
axes and `maxUsdPerTask` are `Refuse`. `peak` is a history variable.

The deadlock bail of the loop (`pool.ts` 1246) is left out on purpose:
`NoTaskForgotten`, checked and proved, says that it is never needed.

### PlanGraph and the code

`answer`, `writes`, `reviewed`, `legacy` are what the planner's model said and
what the project looks like, any value allowed. `Materialise` is
`materialisePlannerTasks`, `Migrate` the migration task of `loop.ts` 525-557.
`Visit`, `Descend`, `Leave`, `Return` run `topoSortTasks` with its call stack
made explicit, so that the sort is checked as a loop with an invariant and not as
a definition that is right because it is written twice.

### AskUser and the code

`asked`, `owner`, `answer`, `by`, `late` are the rows of `pending_questions`: how
many, and for each its `task_id`, `answer`, `answered_by` and whether
`deadline_at` has passed. `dispatch[q]` is an automatic answer between its claim
and its final write, in memory only. `on`, `clock` and `got` are one `askUser`
call per asker: the row it polls, where its deadline stands, what the last call
returned. All askers ask the same text, because only then can rows be mistaken.

| action | code |
|---|---|
| `Recall`, `Resume`, `Create` | `askUser`: the three look-ups in their order, then a new row and its announcement |
| `Wait`, `Return` | the start of the poll with `markWaitingForHuman`, the return with `markRunningAfterAnswer`, both guarded by the row's status |
| `Look`, `SeeAbort`, `TimePasses` | an iteration of `pollForAnswer`: answer, deadline, one extension; the signal, which a worker's call has not |
| `HumanAnswer` | the CLI, the channels and the web: all end in `pendingQuestions.answer`, whose guard decides, whatever the caller read before |
| `Claim`, `Finalize`, `DispatchThrows` | the sweep: claim with the placeholder, the unguarded final write, an error that `allSettled` swallows |
| `CleanupRead`, `Cleanup` | `factory questions cleanup`: a list read once, then one guarded update per row |
| `TaskEnds`, `DirectiveEnds`, `DirectiveReopens`, `Crash`, `Boot` | what happens around them; `Boot` includes `recoverFromHumanWaits` |

`WriteOnce` is refined with a claimed row mapped to an empty cell. Not modelled:
two questions of one worker at a time; a row's text, options and channel; the
batch limit of ten rows per sweep.

### DaemonLife and the code

The pidfile is a path that names an inode: `owner` is whose inode it is, and
`written` whether that inode holds its pid yet (`openSync(wx)`, then `writeSync`).
`subsystems` is the list startDaemon has started, in its order; a failed start
undoes it (`Rollback`), a stop ends it from the back (`Stop` and its parts).
`supervisor`, `crashes`, `halted`, `runs` and `stray` are the supervisor's state:
a crash of the loop leaves runs behind that nobody awaits or aborts (`stray`). A stop
therefore awaits the runs of a loop that ends in order, and closes the database under
the orphans of a crashed one: `DrainedBeforeClose` says that it does so under no other
runs, also when the last crash came during the stop (`supervisor` is then `"died"`).

| action | code |
|---|---|
| `Launch`, `Command` | `factory daemon start`, `stop`, `restart` |
| `Start` | `acquirePidFile` step by step, then `startDaemon`, with its failures |
| `Supervise` | the loop claims a directive, ends one, crashes; back-off; give up |
| `Shutdown`, `Stop`, `ForceExit`, `Kill` | a signal, the stop sequence, the 8-second force timer of `main.ts` 161, SIGKILL |

A Discord login that never becomes ready would hold a start for ever
(`channels/discord.ts` 417 awaits without a deadline); the model assumes that
the event comes. The port is given to one process at a time by the system.

### Messaging and the code

`queue`, `delivered`, `attempts` are the outbound rows; `batch` and `call` a drain
pass and the deliveries in flight, one per sender (the worker and `/send`). The
chat's side is `posts` (what stands in it) and `inbox` (what users did). A call posts
first (`Land`, `landed`) and returns later, so users see a post before its row knows
it. `unsure` counts the posts that stand in the chat and that the daemon has not, or
not yet, recorded as delivered: between the post and the return, or because the
answer was lost, marking failed, or the daemon died. `stamp` is `bot_message_id`;
`bare` holds the questions whose row could not be stamped, which is only logged
(`outbound-worker.ts` 96). `Chat` says where a question is asked. Telegram numbers
the messages of each chat, and `findOpenByBotMessageId` does not compare the chat:
`Alike` lists posts of different chats with one number, and such a reply may hit
either (`SameId`, `Targeted`). `updates`, `offset` and `confirmed` are
Telegram's poll loop and what Telegram has forgotten; `at`, `handled` and `effects`
follow each handler. Discord pushes an event once and keeps nothing. `Send` is
the route; `CliDrain` the reply poll of `factory chat`; `AnsweredElsewhere` an
answer from the CLI, the web or the automatic answer.

### WorkerRun and the code

`pc` is where `runWorker` stands; `child` and `stream` are the claude process and
what its stream said; `dir`, `branch`, `edits`, `saved` the worktree; `base`,
`head`, `merging` the project's checkout; `prev` and `tail` the promise chain of
`projectMergeQueues`, which is per process: `owner` says whether the daemon or a
`factory build --inline` runs a task. `config` follows the `.claude` directory.
An agent edits through `Sandbox`'s gate (`Edit`, by a file tool or by a shell
command), reports, is killed softly and then hard (`Timeout`, `Watchdog`,
`Cancel`), and may write until its process has closed.

Simplifications: a git command is one step; a killed agent has ended before the
plan runs again; changing the base branch by hand, a failing `branch -D` alone and
contention for `index.lock` are left out; a shell command writes in its directory;
of a path's `..` only the leading ones are modelled.

### ProjectFiles and the code

A job is one call of one of the functions that touch the files, `pc[j]` its place
between load, truncate, write and mirror, `copy[j]` what it read. `data` is what a
whole file says. Findings are records of who added them and their status; ids are
counted from the copy, as the code does. A worker's call under a directive without a
project id (`Nameless`; the builds that a chat starts have none) changes the file and
leaves the registry alone (`findings.ts` 119). `overlap` remembers which files two
jobs worked on at once: nothing in the code prevents that, and the properties say what
holds without it. `Purge` is `factory project delete --purge`.

### BuildRun, Assess, ModelCall, Coherence and the code

`phase` is where `runInline` stands. A call of a model (`CallSucceeds`, `CallFails`)
tests the budget (`Budgeted`), ends as `ModelCall` allows, and inserts a usage row if
it answered; the streams of the pool and the fixer insert theirs untested (`Streams`).
`attempts` and `cap` count the rounds of the architect/critic loop; `plan` and `wiki`
are what is on disk and outlive a run; `left` and `tried` are the fixer loop;
`escalated` remembers that the operator was asked. A question of the pipeline has no
deadline: `OperatorAnswers` are the steps that an answer enables, and nothing makes
them happen; an answer None is a question cut short by the end of its process. A pool
that parks or is stopped fails the tasks it has not begun and the run goes on; only
one that throws leaves the plan as it was. `Assess` is one assessment: files,
environment (`EnsureVenv`), install, build, list, tests, and the gates over what was
seen (`Verify`). An environment that is kept is replaced when its interpreter answers
a version that the requirement excludes; one that answers no version is used unchecked
(`pytest.ts` 449), and `python.known` says so. On Windows (`Windows`) virtualenv is
given the launcher `py` without the version that was asked for (`pytest.ts` 531), and
the version it picks is not known either. `Coherence` says which knowledge areas the
final validation accepts.

## 3. Runs

Symmetry is used where it is sound: the two tasks and two processes of `worker_run`
are interchangeable, and its action properties are symmetric too. Elsewhere directives
differ in kind and tasks in their place in the order. `CHECK_DEADLOCK FALSE` because
each system may really come to rest: all directives finished and the bound on starts
or runs reached, the pool done, the plan sorted, every job ended.

Each run checks the properties that a unit test would hardly reach. Type
invariants and a few simpler ones (slots bounded, one open row per asker, nothing
lost by the sort) are theorems, or can be added to any `.cfg`.

| run | bounds | question |
|---|---|---|
| `serve_core` | one build directive, assisted and run inline too, one chat directive, one slot, two starts, one signal each | directives lost in four ways only, finished rows final |
| `serve_live` | an autonomous build directive, one chat directive, one slot, one start, with fairness | a cancel frees the slot, a stop drains, a pending row is picked up |
| `pool_core` | every acyclic graph on 3 tasks, 2 slots, cap 2, a crash, abort and expiry at any point | dependencies first, no task forgotten, overdraw bounded |
| `pool_restart` | every graph on 2 tasks, 2 starts, bumps of depth 2, failing writes, one operator action, with fairness | a completed row is final, the pool ends |
| `plan_sort` | every graph on 3 tasks over one file, self-loops and unknown indexes included, both flags, with fairness | the sort is exact, topological, and ends |
| `ask_user` | the pipeline and one worker asking the same text, two rows, one restart, with fairness | an answer is written once, goes to its asker, a worker's calls end, no dead task is revived |
| `daemon_life` | two daemons' slots, two spawns, one operator's commands, two crashes in a row, with fairness | one brain, the pidfile names it, the database closes under no run but those of a crashed loop, no loop after a stop, a start ends |
| `messaging` | three questions in two chats, the first two or the first and the third at once, or one `/send` and one reply to the CLI; events of four kinds; three messages and events together, at most two of them events; two starts | why a post or a command is doubled, when a reply goes astray |
| `worker_run` | two conflicting tasks, each run by the daemon or an inline build, two runs, one edit each, one fault | success is merged, failure is not, merges start after the agent ended, work is kept, conflicts are closed |
| `project_files` | any four of thirteen jobs of eleven kinds, two of them of directives without a project id, two faults | findings and identities kept, the mirror agrees |
| `build_run` | four languages, on Windows, two autonomies, two runs, four paid calls, one attempt before an extension, one finding | calls bounded, complete is earned, failures are not silent, the environment fits, every run ends or waits for its operator |

Why the bounds are enough. Two directives and one slot are the smallest instance
with a directive waiting for a slot another holds, and every row-level race is
between one directive's executors and one outside writer. Two starts give a
crash before and after every other event. Three tasks are the smallest number
with a chain, a fork and a join, with two slots one more ready task than slots;
a cap of two lets concurrent tasks overdraw. Bump depth 2 reaches the ceiling and
the depth limit. A third writer of a file appears with three tasks. Two rows
are one per asker or two of one asker; a reply, a failed automatic answer and the
sweep's note are three different texts, so an overwritten answer shows. The theorems
of section 5 hold for every value of these constants.

Two daemons and one command are what the pidfile's races need; a third start adds
another copy of one of them. Two open
questions let a reply go to the wrong one, of the same chat or, with the third, of
another chat. Two
conflicting tasks are the smallest conflict, and two runs the smallest retry; one
fault at every possible step shows what each step leaves behind. Four jobs are enough for two that
overlap with a third that reads and a claim or deletion beside them. Four calls
reach triage, architect, critic and an extension or the planner, and with retries and
extensions the ceiling of steps cuts each of them in some behaviour.

`StrandedOnlyBy` deserves a word: it says that a directive becomes *stranded*
(claimed or running, no executor, no signal) only by a step of one of four kinds.
Each of the four is real code, so the property says at once that these four
exist and that there is no fifth in any order of claim, retry, park, cancel,
finish, stop and reconcile.

### Claims that fail

Each configuration checks one sentence of the repository against the code, and
TLC finds it violated: `tlc -config <name>.cfg <MC module>`. `plan_replaced` is
among the runs; the others are kept to be run by hand.

| configuration | sentence | what happens |
|---|---|---|
| `plan_replaced` | `docs/WORKFLOWS.md` 99: a resume "skips already-complete tasks in the plan" | a pool with a failed task writes the plan as abandoned, and an abandoned plan is not reused: everything is planned and run again |
| `config_lost` | `worker-sandbox/src/settings.ts` 26: two files "(and the empty `.claude/` directory)" are removed | the project's own tracked `.claude` goes too, and its deletion is merged |
| `foreign_merge` | `worker/worktree.ts` 229: the check detects a merge that moved nothing | a merge by another process in between satisfies it, and a conflicting branch is removed as merged |
| `green_not_clean` | `assessor/src/types.ts` 37: the failure mode is "Absent on green gates" | a suite that passes and then dies has green gates and `TEST_FAILURE` |
| `unaccepted_wiki` | `docs/WORKFLOWS.md` 103: the architect is skipped "when the wiki was good enough" | it is skipped whenever a page is on disk |
| `cancel_overwritten` | `brain/serve.ts` 195: the row "has already been flipped to `failed`" | `runInline` writes `running`, and at its end a terminal status, over the cancelled row |
| `cap_raise_strands` | `brain/serve.ts` 110: "Our next poll tick claims them" | the re-check writes `running`; claimNext takes `pending` rows, re-entry needs a signal: nobody takes it |
| `watchdog_completes` | `brain/pool.ts` 830: "Park the directive" | the interrupted worker leaves the stream without an error, the task counts as complete, nothing is parked |
| `ceiling_moves` | `docs/decisions/0034` 95: the ceiling is where "the directive parks" | the ceiling is a multiple of the cap that the last bump has raised |
| `writers_race` | `brain/planner.ts` 97: tasks that write one file "are serialised" | the second and third writers both wait for the first only |
| `wedged_claim` | `brain/ask-user.ts` 58: "bounding the wait so a wedged dispatcher can't park the directive indefinitely" | the extension starts at the caller's deadline, and the pipeline passes none: a claim whose dispatch died is polled for ever, after a restart too |

### Other divergences met while modelling

The modules contain this behaviour; no configuration is spent on it. PROJECT.json
lists more of them under "findings", each with its line.

- `brain/planner.ts` 200: the comment at 110 promises an edge only if "neither
  transitively depends on the other", but only one direction is asked; when the
  earlier writer depends on the later one the edge closes a cycle, and the sort
  refuses the plan (`Synthetic`; not when dependencies point back: `BackwardPlansSort`).
- `brain/ask-user.ts` 223, 261: `LIMIT 1` comes before the comparison of the task,
  so of two workers with the same text one does not find its own claimed row and
  asks again, which the comment at 7 ("rather than double-asking") excludes.
- `docs/decisions/0030` 97: the input of a human who lost the race "is logged at
  `warn` level"; `answer` drops it silently and `cli/commands/answer.ts` 84 prints
  "recorded answer".
- `state/queries/pending-questions.ts` 357 calls the rows of ended directives
  orphans because "no consumer remains"; a worker of a parked directive may still
  poll one, and gets the sweep's note as its answer (`Cleanup`).

- `brain/pool-resume.ts` 210: `json_extract` raises on a blocked row whose reason
  is prose; the rejected promise reaches factoryd's unhandledRejection handler,
  which stops the daemon (`Recheck`, first disjunct).
- `daemon/server.ts` 942: a retry that commits while the blocked run has not ended
  is overwritten by that run's terminal write; its signal stays unconsumed.
- `state/queries/directives.ts` 459: the reconcile looks at `running` rows only; a
  row that was `claimed` when the daemon died stays claimed.
- `cli/commands/build.ts` 184: an inline build's row is `pending` for a moment, so
  a running daemon may claim it as well.
- `brain/pool.ts` 1210: a task that throws after it registered leaves its row
  `running` (`TaskThrows`), where `docs/decisions/0010` 46 promises a terminal one.
- `brain/pool.ts` 1296: `plan.json` is written when the pool ends, so after a crash
  completed tasks are started again; `Register` then fails them.
- `brain/pool.ts` 362: a bump whose write failed still counts as a bump; line 685:
  bumps are not counted as attempts; line 354: a cap computed before an await may
  overwrite a higher one the operator saved meanwhile.

## 4. Fairness

`DirectiveServe`: the event loop runs every promise that is ready, provider calls
and task processes have timeouts, and a wait polls its row; so each pipeline step
of a directive that can advance is weakly fair, and so are `Recheck`, `Drained`,
`ReEnter` and `RetryCommit`. `Claim` is strongly fair: every pass of the loop
claims before it looks at signals (`serve.ts` 155, 265), so a re-entered directive
cannot take every free slot from a pending one. Nobody has to submit, cancel,
answer, stop or kill anything, and no error has to happen: `PendingIsServed`
therefore excepts a run that waits for a human, and `CancelFreesSlot` and
`StopDrains` do not.

`TaskPool`: the loop's steps and each task's progress are weakly fair (a worker
has a stream timeout). `Chunk`, errors, aborts and operators are not forced.
`PlanGraph` is a terminating program: `WF_vars(Next)`.

`AskUser`: a poll looks every second, time passes, the sweep runs every five
seconds and an LLM call has a time limit; nobody has to ask, answer, clean up,
crash or start anything. `WorkerCallEnds` needs no answer at all, the deadline
ends the call.

`DaemonLife`: a start and a stop go on (`WF_vars(Start(p))`, `WF_vars(Stop(p))`):
they are straight-line code whose calls return, with the exception named above.
Nobody has to send a signal, and nothing has to fail.

`BuildRun`: `WF_vars(Work)`: calls and subprocesses have time limits. A question of the
pipeline has none (`loop.ts` 346, 395, 724; `ask-user.ts` 412), so `OperatorAnswers` is
not fair, and `RunEnds` says that a run comes to its end or to a question that waits. No
crash and no next run is forced. `Messaging`,
`WorkerRun` and `ProjectFiles` are checked for safety only.

## 5. Proofs

Checked by TLAPS for every value of the constants under the assumptions the
modules state: finitely many directives, positive concurrency, natural bounds, at
least one restart for the supervisor (`DaemonAssumption`), autonomy levels among
the code's three and any ceilings (`BuildAssumption`), questions and route messages
apart (`MessagingAssumption`), a task id that is not `..`, since it names the
worktree's directory (`WorkerAssumption`), each call of one kind (`FilesAssumption`).
Every safety invariant and safety action property of a passing run is a theorem.

**DirectiveServe_proofs.** `TypeCorrect` is inductive as it stands, its last
conjunct (a retry in progress has room for its signal) included. `InflightBounded`
needs only that every step but `Claim` and `ReEnter` leaves `Inflight` no larger
(`PipelineTakesNoSlot`, `OthersTakeNoSlot`) and that those two test the slot in
the same stretch in which they take it. `NothingElseStrands` and `TerminalStays`
are action properties: a step of another directive leaves `SameRow`, and each
action on this one either writes a terminal status, keeps an owner, or is one of
the four ways.

**TaskPool_proofs.** `ConcurrencyBounded`, `OnlyAfterSuccess` and `NoneForgotten`
rest on `ControlInv`: the graph points back, and a task that is done has an
outcome. `DependenciesSucceeded` is not inductive without it: the launch asks only
that the dependencies have *some* result, and that none of them failed follows
from the single fail-fast pass, by induction along the task numbers (a task the
pass did not skip has no failed dependency, among those skipped in the same pass
too). `NoneForgotten` argues that the least pending task is always ready.
`CompletedStays` and `CompletePlansDone` rest on `RowInv`: a task past
registration has no complete row, because the INSERT refused it.
`OverdrawBounded` is about a sum over the tasks, not inductive alone: a launch looks
only at the turns on record. `TurnsInv` bounds the load instead, the turns on record
plus what was granted to the tasks at work. Every step but a launch lowers it
(`LoadFalls`), and a launch happens only below a cap with fewer than `Concurrency`
tasks at work, so that it adds at most one cap (`LaunchLoad`). The sum is a recursive
function over sets of tasks; its laws (`SumAdds`, `SumMonotone`, `SumBounded`) are
proved by induction on the set of tasks that break them, which is finite. From them
`TypesKept`: no worker starts with a negative number of turns.

**Project_proofs, the plan.** `SortInv` relates the call stack to `visited` and `order`:
what is visited is exactly what is ordered, and a frame's finished dependencies
are visited or are the next frame. From it follow `SortedPlans` and
`SortKeepsPlan`. `BackwardPlansSort` adds that task numbers decrease down the
stack, so no call meets itself. `SortsExactly` says that the sort throws on the
cyclic graphs and on no other. One way needs `Linked`: a call on the stack reaches
those above it, so a repeated call closes a cycle. The other is that a sorted prefix
of the plan is closed under dependencies: what a task reaches stands before it, which
no cycle allows.

**Project_proofs, the files.** `FindingsAreKept` needs `KeptInv`: while no two calls
on `findings.json` have overlapped, one call at most is under way (`SoleFinder`),
what is on disk has every finding whose adder has written (`Kept`), and so has the
copy a call is about to write (`WillKeep`), which is what carries `Kept` over the
write. A file a crash left truncated fails the next read, so no copy is ever built
on it. `TheMirrorAgrees` adds `MirrorInv`, for runs without faults: at rest the
registry agrees with the file (`WhenQuiet`), during a call it agrees with the
caller's copy but for the finding the call is about (`WhenWritten`), and the copy is
the file once it is written (`AsWritten`). A finding of the brain, or of a worker whose
directive has no project id, is mirrored by nobody, hence the restriction to the others;
and where such a worker resolved a finding the registry keeps the older status
(`Unmirrored`). `IdentitiesAreKept` rests on
`IdentityInv`: one job at most is between the load and the write of `project.json`,
and it writes the identity that is there; a file that is absent has said nothing
(`MetaInv`), so a new identity replaces none. `FilesTypesKept` holds with overlaps
too: a number given never exceeds the adders that have begun (`NumbersInv`).

**AskUser_proofs.** `TypeCorrect` is inductive as it stands. `RowsAreWriteOnce`,
the refinement of `WriteOnce`, needs two facts about rows (`RowInv`): the two
guards in use, `answered_by IS NULL` and `answered_at IS NULL`, agree
(`Unclaimed`), and a running dispatch finds its placeholder (`Dispatching`), so
that its update, which has no guard, only ever fills an empty cell. From them
`DecidedStays`: a decided row never changes. `AnswersOwned`, `OneOpenRowEach` and
`WaitingPolled` add `PollsOwn`, that a poll looks at a row of its asker; with at
most one open row per asker, the oldest open row is *the* open row, which is why
`Create` cannot make a second. `DeadStays` needs that a live worker has a daemon
and a row that is not ended (`LiveTasks`).

**DaemonLife_proofs.** `Inv` gives, for each place of a start or a stop, how many
subsystems the process has, in `Order`; whoever has two or more holds the port,
the supervisor's loop lives only while the brain is among them, and only a living
loop has runs. None of the three properties is inductive without it: `OneBrainOnly`
follows because the port comes before the workers, `Drained` because the brain is
popped, and the runs of a loop that ends in order awaited, before what is under it, and
`StrayInv`: runs that nobody awaits exist only once a loop has crashed, `NoLoopRestarted` because
a start that has not got to its workers was never halted, and a back-off that ends
after `halted` was set ends the supervisor instead. `PidFileNames` needs a second invariant,
`LockInv`, that holds while no start has overlapped another one or a
check-then-unlink (`~raced`): a start past its look at the file is alone, the inode
of a creator is its own, the file names whoever has acquired it, and an operator
unlinks only when nobody runs. The premise is needed: the look, the unlink and the
exclusive create are separate steps of the code. The other four theorems hold with
`raced` too, because they rest on the port and not on the file.

**BuildRun_proofs.** `CeilingHolds` rests on `Metered`: every gated call has left at
least one usage row, and the gate counts the rows. `EnvironmentFits` rests on
`Assessed`: from the moment an interpreter is chosen it meets the requirement if
the host can meet it and its version is known, whichever of the three ways chose it.
The exception is the code's: an unknown version is not compared. `AskedBeforeBlocked`
and `CompletionIsEarned` rest on `Judged`, which says per phase what a run knows of
its failures and of its assessment: no phase before validation has a failure or an
assessment under way, validation is reached only with a verified one, and a
complete directive keeps it. `TypesKept` needs `Metered` too, as the counters have
no other bound.

**Messaging_proofs.** Three invariants over disjoint parts of the state. `OutboxInv`
gives `EveryPostExplained`: a message's posts and those its two senders may still make
(`Due`) are within what its kind allows plus the deliveries that were not recorded; a
sender that takes a message trades a promise for a post. It needs that the outbound
worker never holds a message twice (`SenderInv`). `PollInv` gives
`NothingConfirmedUnhandled` and `EffectsCounted`: the batch of updates leaves no
unhandled one out before its last (`BatchInv`), what lies below either of the two
cursors is handled (`CursorInv`), and an event's effects are counted against the
starts (`EffectInv`). `StrayInv` gives `StraysExplained`, an action property: the row
of a question without an unrecorded post and without a failed stamp names its latest
post (`StampInv`), and users react to posts that are there (`SeenInv`); so a reply to
it finds it by that name, or finds its like of another chat. What the recursive
function `Among` computes is proved through a least position at which it would differ.

**WorkerRun_proofs.** `AgentInv` (the agent of a task past its stream has closed or
was cut off) gives `AgentsClosedFirst`. `QueueInv` says that for each process some
sequence of its tasks is its chain of promises, each waiting for the one before it
and the map holding the last; the task that runs is its head, hence `MergesInTurn`.
`RepoInv` says what a merge leaves in the checkout and what the end of its task tells
of it: `FailuresUnmerged` and `ConflictsClosed`, both for any number of processes.
`SuccessesMerged` and `WorkNeverDropped` rest on `WorkInv`, from the edits to the
commit to the merge, and assume `Sandboxed`: only the gate before the agent's tools
keeps one task's agent out of another's worktree (`OwnTreeOnly`), and without it the
two are false. `worker_run` has the gate on, as the daemon does by default.

Only model-checked: liveness (`CancelFreesSlot`, `StopDrains`, `PendingIsServed`,
`PoolEnds`, `SortEnds`, `WorkerCallEnds`, `StartSettles`, `RunEnds`): fairness and
ENABLED are out of this prover's reach. No operator is declared RECURSIVE;
recursion is by functions, whose laws are proved from a least counterexample, because
the library's induction theorems take an operator as a parameter and cannot be used.

## 6. Not modelled

- `events/fs-watcher.ts`: a wrapper of chokidar; its debounce is `changed` in
  `DirectiveServe`.
- `ipc/`: schemas, a stateless client and the reconnecting SSE reader; a browser that
  misses an event reads the rows again.
- `daemon/directive-stream.ts`: the fan-out to browsers, lossy on purpose;
  `DaemonLife` has the open stream that delays a stop.
- `state/db.ts`, `migrations/`, spend, usage and session queries: schema changes
  and read models, nothing interleaves in them.
- `core/`, `logger/`, `apps/factory-web/`: types, constants, logging, rendering.
- Message layout, splitting and embeds of the channels; line framing and event
  kinds of the Claude stream; the parsing of test reports (a choice of counts).
- Prompts and LLM output beyond its outcome, vendor SDKs, routes that only read.

`PROJECT.json` lists every component with its status, every hazard with the
property that covers it, and the source lines every definition models.
