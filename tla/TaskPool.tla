------------------------------ MODULE TaskPool ------------------------------
(***************************************************************************)
(* The task pool of one directive (brain/src/pool.ts): runPlanPool, which  *)
(* walks a plan's task graph with a bounded number of tasks at once, and   *)
(* executeTask, which guards every task with the turn pool of its agent    *)
(* class, raises or parks when the pool is empty, and runs the worker.     *)
(* One turn pool is modelled (one agent class): each class has its own.    *)
(*                                                                         *)
(* Tasks are numbered in topoSortTasks' order (PlanGraph.tla is that sort),*)
(* so every dependency has a smaller number.  One action is what the event *)
(* loop runs between two awaits.  Around the pool are the operator, who    *)
(* raises the cap and retries failed tasks while it runs, the abort, the   *)
(* wall clock, the crash, and the next start on the same plan file.        *)
(***************************************************************************)
EXTENDS Integers, FiniteSets, FiniteSetsExt

CONSTANTS NumTasks,     \* tasks of the plan
          Metered,      \* the tasks of the agent class, that use turns
          Concurrency,  \* maxConcurrentTasks
          Default,      \* BUDGET_DEFAULTS of the axis, and the bump increment
          Floor,        \* the directive's own payload.budgets of the axis
          AutoIncrease, \* autoIncreaseBudgets
          Multiplier,   \* autoIncreaseCeilingMultiplier
          MaxDepth,     \* MAX_AUTO_BUMP_DEPTH
          WriteFails,   \* project.json may refuse a write
          MaxOperator,  \* bound: operator edits and retries
          MaxSessions   \* bound: starts of the pool on this plan

Task == 1..NumTasks

ASSUME PoolAssumption ==
    /\ NumTasks \in Nat
    /\ Metered \subseteq Task
    /\ Concurrency \in Nat \ {0}
    /\ Default \in Nat \ {0}
    /\ Floor \in Nat
    /\ AutoIncrease \in BOOLEAN
    /\ Multiplier \in Nat \ {0}
    /\ MaxDepth \in Nat
    /\ WriteFails \in BOOLEAN
    /\ MaxOperator \in Nat
    /\ MaxSessions \in Nat

VARIABLES
    deps,       \* dependsOn, never changed
    plan,       \* plan.json: "draft", "complete" or "abandoned"
    pool,       \* runPlanPool: "idle", "starting", "looping", "closing", "done"
    phase,      \* of each task in this run of the pool
    outcome,    \* exit code of a task that is done: "ok" or "failed"
    row,        \* the task's tasks_inflight row
    turns,      \* turnsUsed in that row's result_json
    spent,      \* turns the running worker has taken
    seen,       \* the cap the task read when it started
    want,       \* the cap a bump is about to write
    depth,      \* autoBumpDepth
    directive,  \* its status: "running" or "blocked"
    cap,        \* budgetDefaults of the axis in project.json
    aborted,    \* the cancel or shutdown signal fired
    expired,    \* maxWallClockMinutes have passed
    operator,   \* operator edits and retries so far
    sessions,   \* starts so far
    peak        \* history: the largest effective cap a task started under

files == <<plan, cap>>
rows == <<row, turns>>
attempt == <<spent, seen, want, depth>>
outside == <<aborted, expired, operator, sessions>>
vars == <<deps, files, pool, phase, outcome, rows, attempt, directive, outside,
          peak>>

-----------------------------------------------------------------------------
(* The task is pending; executeTask registers its row, checks the budgets, *)
(* writes a raised cap, runs the worker; its promise is resolved ("done"); *)
(* the loop has taken the result, or skipped the task ("settled").         *)
Phase == {"pending", "starting", "checking", "raising", "working", "done",
          "settled"}

TypeOK ==
    /\ deps \in [Task -> SUBSET Task]
    /\ plan \in {"draft", "complete", "abandoned"}
    /\ pool \in {"idle", "starting", "looping", "closing", "done"}
    /\ phase \in [Task -> Phase]
    /\ outcome \in [Task -> {"none", "ok", "failed"}]
    /\ row \in [Task -> {"absent", "pending", "running", "complete", "failed"}]
    /\ turns \in [Task -> Nat]
    /\ spent \in [Task -> Nat]
    /\ seen \in [Task -> Nat]
    /\ want \in [Task -> Nat]
    /\ depth \in [Task -> Nat]
    /\ directive \in {"running", "blocked"}
    /\ cap \in Nat
    /\ aborted \in BOOLEAN
    /\ expired \in BOOLEAN
    /\ operator \in 0..MaxOperator
    /\ sessions \in 0..MaxSessions
    /\ peak \in Nat

-----------------------------------------------------------------------------
Pending == {t \in Task : phase[t] = "pending"}
Settled == {t \in Task : phase[t] = "settled"}

\* The pool's `running` map: launched, result not yet taken.
Running == {t \in Task : phase[t] \notin {"pending", "settled"}}

\* resolveEffectiveCap: the three-way maximum.
EffectiveCap == Max({cap, Floor, Default})

\* aggregateUsed: the turns in the rows, so of finished attempts only.
Used == MapThenSumSet(LAMBDA t : turns[t], Task)

\* computePoolUsage, of the one axis the task draws on.
OutOfTurns == Used >= EffectiveCap

\* topoSortTasks' order, in which the loop looks at the pending tasks.
EarlierInPlan(u, t) == u > t
Earlier(u, t) == u < t

IsReadyIfOk(t, results) == deps[t] \subseteq {u \in results : outcome[u] = "ok"}
IsReady(t, results) == deps[t] \subseteq results

(* The single pass over the pending tasks that fails those with a failed   *)
(* dependency: `results` grows during the pass, so it sees the tasks it    *)
(* skipped earlier in the order.  It skips exactly B.                      *)
SkippedByPass(B, pending, results, failed) ==
    \A t \in pending :
        LET before == {u \in B : Earlier(u, t)}
        IN  t \in B <=> /\ IsReady(t, results \cup before)
                        /\ deps[t] \cap (failed \cup before) # {}

\* `find` over the pending tasks, until the slots are taken: it launches L.
Slots(busy) == Concurrency - Cardinality(busy)

Launched(L, ready, busy) ==
    /\ L \subseteq ready
    /\ Cardinality(L) = Min({Slots(busy), Cardinality(ready)})
    /\ \A t \in L, u \in ready \ L : Earlier(t, u)

\* The recursion of an auto-bump passes its depth on, one deeper.
SameDepth(t) == depth
Deeper(t) == [depth EXCEPT ![t] = @ + 1]

\* poolRemainingTurns.
HeadroomWhole == EffectiveCap
Headroom == EffectiveCap - Used

Init ==
    /\ deps \in {g \in [Task -> SUBSET Task] :
                    \A t \in Task : \A u \in g[t] : u < t}
    /\ plan = "draft"
    /\ pool = "idle"
    /\ phase = [t \in Task |-> "pending"]
    /\ outcome = [t \in Task |-> "none"]
    /\ row = [t \in Task |-> "absent"]
    /\ turns = [t \in Task |-> 0]
    /\ spent = [t \in Task |-> 0]
    /\ seen = [t \in Task |-> 0]
    /\ want = [t \in Task |-> 0]
    /\ depth = [t \in Task |-> 0]
    /\ directive = "running"
    /\ cap = Default
    /\ aborted = FALSE
    /\ expired = FALSE
    /\ operator = 0
    /\ sessions = 0
    /\ peak = 0

-----------------------------------------------------------------------------
(* runPlanPool.                                                            *)

(* The pipeline reaches the pool.  A plan that is still the planner's       *)
(* draft is run as it is; its tasks are all `pending` in plan.json, for no *)
(* one else writes the file: the pre-completed tasks of the code are none. *)
Start ==
    /\ pool = "idle"
    /\ plan = "draft"
    /\ directive = "running"
    /\ sessions < MaxSessions
    /\ pool' = "starting"
    /\ sessions' = sessions + 1
    /\ UNCHANGED <<deps, files, phase, outcome, rows, attempt, directive, aborted,
                   expired, operator, peak>>

(* One iteration of the loop, up to the next Promise.race.  `taken` is the *)
(* task whose result it takes first (none at the start).  It skips `skip`, *)
(* launches `launch`, and leaves the loop when nothing runs.  The code's   *)
(* deadlock bail is left out: NoTaskForgotten shows that it is not needed. *)
AbortedAtRest(busy) == aborted /\ busy = {}

\* checkWallClock, the abort and the park fail all that is pending; else the
\* tasks with a failed dependency are failed and ready ones are launched.
Admit(taken, skip, launch) ==
    LET results == Settled \cup taken
        failed == {t \in results : outcome[t] = "failed"}
        busy == Running \ taken
        ready == {t \in Pending \ skip : IsReady(t, results \cup skip)}
    IN  \/ /\ AbortedAtRest(busy) \/ expired \/ directive = "blocked"
           /\ skip = Pending
           /\ launch = {}
        \/ /\ ~AbortedAtRest(busy) /\ ~expired /\ directive = "running"
           /\ SkippedByPass(skip, Pending, results, failed)
           /\ IF aborted THEN launch = {} ELSE Launched(launch, ready, busy)

Step(taken, skip, launch) ==
    LET busy == Running \ taken
    IN  /\ Admit(taken, skip, launch)
        /\ phase' = [t \in Task |->
              IF t \in taken \cup skip THEN "settled"
              ELSE IF t \in launch THEN "starting" ELSE phase[t]]
        /\ outcome' = [t \in Task |-> IF t \in skip THEN "failed" ELSE outcome[t]]
        /\ depth' = [t \in Task |-> IF t \in launch THEN 0 ELSE depth[t]]
        \* checkWallClock runs unless the loop broke on the abort before it
        /\ directive' = IF expired /\ ~AbortedAtRest(busy)
                           /\ (Pending # {} \/ busy # {})
                        THEN "blocked" ELSE directive
        /\ pool' = IF busy \cup launch = {} THEN "closing" ELSE "looping"
        /\ UNCHANGED <<deps, files, rows, spent, seen, want, outside, peak>>

Iterate(taken) ==
    \E skip \in SUBSET Pending : \E launch \in SUBSET (Pending \ skip) :
        Step(taken, skip, launch)

First == pool = "starting" /\ Iterate({})

Take(t) ==
    /\ pool = "looping"
    /\ phase[t] = "done"
    /\ Iterate({t})

\* writePlan with the final status, and the return.
Persist ==
    /\ pool = "closing"
    /\ pool' = "done"
    /\ plan' = IF \E t \in Task : outcome[t] = "failed"
               THEN "abandoned" ELSE "complete"
    /\ UNCHANGED <<deps, phase, outcome, rows, attempt, directive, cap, outside,
                   peak>>

-----------------------------------------------------------------------------
(* executeTask.                                                            *)

\* The promise of task t resolves with result r.
Resolve(t, r) ==
    /\ phase' = [phase EXCEPT ![t] = "done"]
    /\ outcome' = [outcome EXCEPT ![t] = r]

\* The row of task t becomes s, with n turns in its result.
WriteRow(t, s, n) ==
    /\ row' = [row EXCEPT ![t] = s]
    /\ turns' = [turns EXCEPT ![t] = n]

\* tasksInflight.register, a plain INSERT: a second row of the id is refused,
\* and the pool's catch turns the throw into a failure.
RegisterUpsert(t) ==
    /\ phase[t] = "starting"
    /\ WriteRow(t, "running", 0)
    /\ phase' = [phase EXCEPT ![t] = "checking"]
    /\ UNCHANGED <<deps, files, pool, outcome, attempt, directive, outside, peak>>

Register(t) ==
    /\ phase[t] = "starting"
    /\ IF row[t] = "absent"
       THEN /\ WriteRow(t, "running", 0)
            /\ phase' = [phase EXCEPT ![t] = "checking"]
            /\ UNCHANGED outcome
       ELSE /\ Resolve(t, "failed")
            /\ UNCHANGED rows
    /\ UNCHANGED <<deps, files, pool, attempt, directive, outside, peak>>

(* The budget checks.  `task.attempts` is 0 in a draft plan and the        *)
(* recursion of a bump passes the task on unchanged, so the check against  *)
(* maxRetriesPerTask (not 0) never fails a task, and is left out.  A task that may run starts its   *)
(* worker with what is left of the pool.                                   *)
Launch(t) ==
    /\ phase[t] = "checking"
    /\ t \in Metered => ~OutOfTurns
    /\ phase' = [phase EXCEPT ![t] = "working"]
    /\ spent' = [spent EXCEPT ![t] = 0]
    /\ seen' = [seen EXCEPT ![t] = EffectiveCap]
    /\ want' = [want EXCEPT ![t] = IF t \in Metered THEN Headroom ELSE 0]
    /\ peak' = Max({peak, EffectiveCap})
    /\ UNCHANGED <<deps, files, pool, outcome, rows, depth, directive, outside>>

\* The guard of maxUsdPerTask fails the task on the planner's estimate, before
\* the pool is looked at and without parking anything.
Refuse(t) ==
    /\ phase[t] = "checking"
    /\ WriteRow(t, "failed", 0)
    /\ Resolve(t, "failed")
    /\ UNCHANGED <<deps, files, pool, attempt, directive, outside, peak>>

\* parkOrAutoIncrease: the ceiling is a multiple of the cap just read.
BelowCeiling == EffectiveCap < cap * Multiplier

Park(t) ==
    /\ phase[t] = "checking"
    /\ t \in Metered /\ OutOfTurns
    /\ ~(AutoIncrease /\ BelowCeiling)
    /\ directive' = "blocked"
    /\ WriteRow(t, "failed", 0)
    /\ Resolve(t, "failed")
    /\ UNCHANGED <<deps, files, pool, attempt, outside, peak>>

RaiseBegin(t) ==
    /\ phase[t] = "checking"
    /\ t \in Metered /\ OutOfTurns
    /\ AutoIncrease /\ BelowCeiling
    /\ phase' = [phase EXCEPT ![t] = "raising"]
    /\ want' = [want EXCEPT ![t] = EffectiveCap + Default]
    /\ UNCHANGED <<deps, files, pool, outcome, rows, spent, seen, depth, directive,
                   outside, peak>>

\* bumpProjectCap: the value computed before the await is written, or the
\* write fails, and either way the task goes round again, up to the depth.
RaiseEnd(t) ==
    /\ phase[t] = "raising"
    /\ \/ cap' = want[t]
       \/ WriteFails /\ cap' = cap
    /\ IF depth[t] < MaxDepth
       THEN /\ WriteRow(t, "absent", 0)
            /\ phase' = [phase EXCEPT ![t] = "starting"]
            /\ depth' = Deeper(t)
            /\ UNCHANGED outcome
       ELSE /\ WriteRow(t, "failed", 0)
            /\ Resolve(t, "failed")
            /\ UNCHANGED depth
    /\ UNCHANGED <<deps, plan, pool, spent, seen, want, directive, outside, peak>>

(* A stream chunk: one more turn, within --max-turns.  The watchdog then   *)
(* compares the rows with the cap the task started under; on `interrupt`   *)
(* the worker leaves the stream with `break`, which throws nothing, so the *)
(* result is a success, without the turns of the chunk that never came.    *)
Exhausted(t) == Used >= seen[t]

Chunk(t) ==
    /\ phase[t] = "working"
    /\ spent[t] < want[t]
    /\ spent' = [spent EXCEPT ![t] = @ + 1]
    /\ IF Exhausted(t)
       THEN /\ Resolve(t, "ok")
            /\ WriteRow(t, "complete", 0)
       ELSE UNCHANGED <<phase, outcome, rows>>
    /\ UNCHANGED <<deps, files, pool, seen, want, depth, directive, outside, peak>>

\* The worker ends: its merge or its stream may fail, and a stream that
\* fails has not told the turns it took.
WorkerEnds(t) ==
    /\ phase[t] = "working"
    /\ \E r \in {"ok", "failed"}, n \in {0, spent[t]} :
          /\ r = "ok" => n = spent[t]
          /\ Resolve(t, r)
          /\ WriteRow(t, IF r = "ok" THEN "complete" ELSE "failed", n)
    /\ UNCHANGED <<deps, files, pool, attempt, directive, outside, peak>>

\* executeTask throws (no provider for the category, a database error): the
\* pool's catch makes a failed outcome of it and nobody touches the row.
TaskThrows(t) ==
    /\ phase[t] \in {"starting", "checking", "working"}
    /\ Resolve(t, "failed")
    /\ UNCHANGED <<deps, files, pool, rows, attempt, directive, outside, peak>>

-----------------------------------------------------------------------------
(* Around the pool.                                                        *)

Abort ==
    /\ ~aborted
    /\ aborted' = TRUE
    /\ UNCHANGED <<deps, files, pool, phase, outcome, rows, attempt, directive,
                   expired, operator, sessions, peak>>

\* created_at stays, so an expired directive stays expired.
Expire ==
    /\ ~expired
    /\ expired' = TRUE
    /\ UNCHANGED <<deps, files, pool, phase, outcome, rows, attempt, directive,
                   aborted, operator, sessions, peak>>

\* The operator raises the cap on the project page, or in project.json.
RaiseCap ==
    /\ operator < MaxOperator
    /\ operator' = operator + 1
    /\ cap' = EffectiveCap + Default
    /\ UNCHANGED <<deps, plan, pool, phase, outcome, rows, attempt, directive,
                   aborted, expired, sessions, peak>>

\* The retry endpoint: the row is reset, its turns forgotten, and the blocked
\* directive runs again, whether the pool that blocked it is done or not.
Retry(t) ==
    /\ operator < MaxOperator
    /\ operator' = operator + 1
    /\ directive = "blocked"
    /\ row[t] = "failed"
    /\ WriteRow(t, "pending", 0)
    /\ directive' = "running"
    /\ UNCHANGED <<deps, files, pool, phase, outcome, attempt, aborted, expired,
                   sessions, peak>>

\* The process dies: the rows and the two files stay.
Crash ==
    /\ pool \in {"starting", "looping", "closing"}
    /\ pool' = "idle"
    /\ phase' = [t \in Task |-> "pending"]
    /\ outcome' = [t \in Task |-> "none"]
    /\ spent' = [t \in Task |-> 0]
    /\ seen' = [t \in Task |-> 0]
    /\ want' = [t \in Task |-> 0]
    /\ depth' = [t \in Task |-> 0]
    /\ aborted' = FALSE
    /\ UNCHANGED <<deps, files, rows, directive, expired, operator, sessions, peak>>

-----------------------------------------------------------------------------
Execute(t) ==
    \/ Register(t) \/ Refuse(t) \/ Launch(t) \/ Park(t) \/ RaiseBegin(t)
    \/ RaiseEnd(t) \/ Chunk(t) \/ WorkerEnds(t)

Loop == First \/ (\E t \in Task : Take(t)) \/ Persist

Outside == Abort \/ Expire \/ RaiseCap \/ (\E t \in Task : Retry(t)) \/ Crash

Next ==
    \/ Start
    \/ Loop
    \/ \E t \in Task : Execute(t) \/ TaskThrows(t)
    \/ Outside

Spec == Init /\ [][Next]_vars

(***************************************************************************)
(* Fairness.  The event loop runs what is ready, and a worker ends: its    *)
(* stream has a timeout.  Nothing from outside has to happen.              *)
(***************************************************************************)
Fairness ==
    /\ WF_vars(First)
    /\ WF_vars(Persist)
    /\ \A t \in Task :
          /\ WF_vars(Take(t))
          /\ WF_vars(Register(t) \/ Launch(t) \/ Park(t) \/ RaiseBegin(t)
                     \/ RaiseEnd(t) \/ WorkerEnds(t))

FairSpec == Spec /\ Fairness

-----------------------------------------------------------------------------
(* Properties that hold.                                                   *)

\* At most maxConcurrentTasks tasks run, through skips, bumps and settles.
ConcurrencyBound == Cardinality(Running) <= Concurrency

(* A task runs only when all of its dependencies succeeded, although the   *)
(* launch asks only whether they have a result (pool.ts:1076, :1194): it   *)
(* relies on the one fail-fast pass before it, in topological order.       *)
DependenciesSucceeded ==
    \A t \in Running : \A u \in deps[t] : phase[u] = "settled" /\ outcome[u] = "ok"

(* A pool over caps that only rise is overdrawn by concurrent tasks, each  *)
(* of which may use all that was left at its start, but no further: the    *)
(* turns on record stay within as many caps as tasks can run at once.      *)
OverdrawBound == Used <= Concurrency * peak

(* The row of a task that completed is never touched again: no restart,    *)
(* retry or bump runs it, and merges it, twice.                            *)
CompleteRowStays ==
    [][\A t \in Task : row[t] = "complete" =>
          row'[t] = "complete" /\ turns'[t] = turns[t]]_vars

\* A plan is called complete only when every task's row says so too.
CompletePlanIsDone ==
    plan = "complete" => \A t \in Task : row[t] = "complete"

\* When the loop is left, every task has a result.
NoTaskForgotten ==
    pool \in {"closing", "done"} => Settled = Task

(* Whatever fails, the pool ends: parked, aborted, out of time, or with    *)
(* a cap that cannot be written and a bump that goes round again.          *)
PoolEnds == pool = "starting" ~> pool \in {"done", "idle"}

-----------------------------------------------------------------------------
(* What the comments and documents say, and some behaviour of it violates. *)

\* pool.ts:829 "when the watchdog interrupted mid-stream [...] Park the
\* directive": a turn taken on an exhausted pool ends in a parked directive.
MidstreamParks ==
    [][\A t \in Metered :
          Chunk(t) /\ phase'[t] = "done" => directive' = "blocked"]_vars

\* docs/decisions/0034:95 "The effective cap reaches `project default x
\* autoIncreaseCeilingMultiplier`, at which point the directive parks".
CeilingHolds == operator = 0 => cap <= Default * Multiplier
=============================================================================
