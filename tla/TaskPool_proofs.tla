-------------------------- MODULE TaskPool_proofs --------------------------
(***************************************************************************)
(* Theorems about TaskPool, for any number of tasks, any dependency graph  *)
(* in topological order, any concurrency and any budget.  ControlInv says  *)
(* which task is where, RowInv what the rows hold, TurnsInv what the tasks *)
(* at work may still add to the turns on record.                           *)
(***************************************************************************)
EXTENDS TaskPool, FiniteSetTheorems, TLAPS

(* The part of the state that decides what runs: which task is where, and  *)
(* whether a task that has ended has a result.  Nothing here depends on    *)
(* turns and caps, whose arithmetic is a fold over the rows.               *)
ControlInv ==
    /\ deps \in [Task -> SUBSET Task]
    /\ \A t \in Task : \A u \in deps[t] : u < t
    /\ phase \in [Task -> Phase]
    /\ outcome \in [Task -> {"none", "ok", "failed"}]
    /\ \A t \in Task : phase[t] \in {"done", "settled"} => outcome[t] # "none"
    /\ pool \in {"idle", "starting"} => phase = [t \in Task |-> "pending"]

LEMMA TaskFinite ==
    /\ IsFiniteSet(Task)
    /\ \A S \in SUBSET Task : IsFiniteSet(S) /\ Cardinality(S) \in Nat
<1>1. IsFiniteSet(Task)
  BY PoolAssumption, FS_Interval DEF Task
<1> QED
  BY <1>1, FS_Subset, FS_CardinalityType

LEMMA MinOfTwo ==
    ASSUME NEW a \in Int, NEW b \in Int
    PROVE  Min({a, b}) <= a /\ Min({a, b}) \in {a, b}
<1>1. \E x \in {a, b} : \A y \in {a, b} : x =< y
  OBVIOUS
<1> QED
  BY <1>1 DEF Min

-----------------------------------------------------------------------------
(* An iteration of the loop.                                               *)

\* What one iteration does to each task.
LEMMA StepEffect ==
    ASSUME ControlInv, NEW taken \in SUBSET Task, NEW skip \in SUBSET Pending,
           NEW launch \in SUBSET (Pending \ skip), Step(taken, skip, launch)
    PROVE  /\ \A t \in Task :
                 /\ t \in taken \cup skip => phase'[t] = "settled"
                 /\ t \in launch \ taken => phase'[t] = "starting"
                 /\ t \notin taken \cup skip \cup launch => phase'[t] = phase[t]
                 /\ t \in skip => outcome'[t] = "failed"
                 /\ t \notin skip => outcome'[t] = outcome[t]
           /\ phase' \in [Task -> Phase]
           /\ outcome' \in [Task -> {"none", "ok", "failed"}]
           /\ pool' \in {"looping", "closing"}
           /\ deps' = deps
<1>1. /\ phase' = [t \in Task |->
               IF t \in taken \cup skip THEN "settled"
               ELSE IF t \in launch THEN "starting" ELSE phase[t]]
      /\ outcome' = [t \in Task |-> IF t \in skip THEN "failed" ELSE outcome[t]]
      /\ pool' \in {"looping", "closing"}
      /\ deps' = deps
  BY DEF Step
<1>2. /\ phase \in [Task -> Phase] /\ "settled" \in Phase /\ "starting" \in Phase
      /\ outcome \in [Task -> {"none", "ok", "failed"}]
      /\ launch \cap skip = {}
  BY DEF ControlInv, Phase
<1>3. \A t \in Task :
         /\ t \in taken \cup skip => phase'[t] = "settled"
         /\ t \in launch \ taken => phase'[t] = "starting"
         /\ t \notin taken \cup skip \cup launch => phase'[t] = phase[t]
         /\ t \in skip => outcome'[t] = "failed"
         /\ t \notin skip => outcome'[t] = outcome[t]
  <2> TAKE t \in Task
  <2>1. t \in taken \cup skip => phase'[t] = "settled"
    BY <1>1
  <2>2. t \in launch \ taken => phase'[t] = "starting"
    BY <1>1, <1>2
  <2>3. t \notin taken \cup skip \cup launch => phase'[t] = phase[t]
    BY <1>1
  <2>4. outcome'[t] = IF t \in skip THEN "failed" ELSE outcome[t]
    BY <1>1
  <2> QED
    BY <2>1, <2>2, <2>3, <2>4
<1>4. \A t \in Task : phase'[t] \in Phase
  <2>1. \A t \in Task : \/ t \in taken \cup skip
                         \/ t \in launch \ taken
                         \/ t \notin taken \cup skip \cup launch
    OBVIOUS
  <2> QED
    BY <1>2, <1>3, <2>1
<1>5. phase' \in [Task -> Phase]
  BY <1>1, <1>4
<1>6. outcome' \in [Task -> {"none", "ok", "failed"}]
  BY <1>1, <1>2
<1> QED
  BY <1>1, <1>3, <1>5, <1>6

LEMMA StepControl ==
    ASSUME ControlInv, NEW taken \in SUBSET Task, NEW skip \in SUBSET Pending,
           NEW launch \in SUBSET (Pending \ skip), Step(taken, skip, launch),
           \A t \in taken : phase[t] = "done"
    PROVE  ControlInv'
<1>1. \A t \in Task : phase'[t] \in {"done", "settled"} => outcome'[t] # "none"
  BY StepEffect DEF ControlInv, Pending
<1> QED
  BY <1>1, StepEffect DEF ControlInv

\* A task that is launched is no task with a dependency that failed: the pass
\* before the launch has seen all of them, for they come first in the order.
LEMMA StepDependencies ==
    ASSUME ControlInv, NEW taken \in SUBSET Task, NEW skip \in SUBSET Pending,
           NEW launch \in SUBSET (Pending \ skip), Step(taken, skip, launch),
           \A t \in taken : phase[t] = "done",
           DependenciesSucceeded
    PROVE  DependenciesSucceeded'
<1> DEFINE results == Settled \cup taken
           failed == {t \in results : outcome[t] = "failed"}
<1>1. ASSUME NEW t \in launch, NEW u \in deps[t]
      PROVE  u \in results \ failed
  <2>1. /\ SkippedByPass(skip, Pending, results, failed)
        /\ IsReady(t, results \cup skip)
    BY DEF Step, Admit, Launched
  <2> HIDE DEF results, failed
  <2>2. t \in Pending /\ t \notin skip /\ t \in Task
    BY DEF Pending
  <2>3. deps[t] \subseteq Task /\ \A v \in deps[t] : v < t
    BY <2>2 DEF ControlInv
  <2> DEFINE before == {v \in skip : v < t}
  <2>4. IsReady(t, results \cup before)
    BY <2>1, <2>3 DEF IsReady
  <2>5. deps[t] \cap (failed \cup before) = {}
    BY <2>1, <2>2, <2>4 DEF SkippedByPass, Earlier
  <2> QED
    BY <2>4, <2>5 DEF IsReady
<1>2. ASSUME NEW u \in results \ failed
      PROVE  u \in Task /\ phase'[u] = "settled" /\ outcome'[u] = "ok"
  <2>1. u \in Task /\ phase[u] \in {"done", "settled"} /\ u \notin skip
    BY DEF Settled, Pending
  <2>2. outcome[u] = "ok"
    BY <2>1 DEF ControlInv
  <2>3. outcome'[u] = outcome[u] /\ phase'[u] = "settled"
    <3>1. u \in taken \/ phase[u] = "settled"
      BY DEF Settled
    <3>2. u \notin launch
      BY <2>1 DEF Pending
    <3>3. outcome'[u] = outcome[u]
      BY <2>1, StepEffect
    <3>4. u \in taken => phase'[u] = "settled"
      BY <2>1, StepEffect
    <3>5. u \notin taken => phase'[u] = phase[u]
      BY <2>1, <3>2, StepEffect
    <3> QED
      BY <3>1, <3>3, <3>4, <3>5
  <2> QED
    BY <2>1, <2>2, <2>3
<1>3. ASSUME NEW t \in Running'
      PROVE  t \in launch \/ t \in Running
  <2>1. t \in Task /\ phase'[t] \notin {"pending", "settled"}
    BY DEF Running
  <2> QED
    BY <2>1, StepEffect DEF Running
<1>4. ASSUME NEW t \in Running', NEW u \in deps[t]
      PROVE  phase'[u] = "settled" /\ outcome'[u] = "ok"
  <2>1. CASE t \in launch
    BY <1>1, <1>2, <2>1
  <2>2. CASE t \in Running
    <3>1. u \in Task /\ phase[u] = "settled" /\ outcome[u] = "ok"
      BY <2>2 DEF DependenciesSucceeded, ControlInv, Running
    <3>2. u \notin taken \/ phase'[u] = "settled"
      BY <3>1, StepEffect
    <3> QED
      BY <3>1, StepEffect DEF Pending
  <2> QED
    BY <1>3, <2>1, <2>2
<1> QED
  BY <1>4, StepEffect DEF DependenciesSucceeded

\* The launch fills the slots that the running tasks leave, and no more.
LEMMA StepConcurrency ==
    ASSUME ControlInv, NEW taken \in SUBSET Task, NEW skip \in SUBSET Pending,
           NEW launch \in SUBSET (Pending \ skip), Step(taken, skip, launch),
           ConcurrencyBound
    PROVE  ConcurrencyBound'
<1> DEFINE busy == Running \ taken
           ready == {t \in Pending \ skip : IsReady(t, Settled \cup taken \cup skip)}
<1>1. Running' \subseteq busy \cup launch
  <2> SUFFICES ASSUME NEW t \in Running' PROVE t \in busy \cup launch
    OBVIOUS
  <2>1. t \in Task /\ phase'[t] \notin {"pending", "settled"}
    BY DEF Running
  <2>2. t \notin taken \cup skip
    BY <2>1, StepEffect
  <2>3. t \in launch \/ phase'[t] = phase[t]
    BY <2>1, <2>2, StepEffect
  <2> QED
    BY <2>1, <2>2, <2>3 DEF Running
<1>2. /\ launch \in SUBSET Task /\ busy \in SUBSET Task /\ ready \in SUBSET Task
      /\ Running \in SUBSET Task /\ busy \in SUBSET Running
      /\ busy \cap launch = {}
  BY DEF Pending, Running
<1>3. launch = {} \/ Launched(launch, ready, busy)
  BY DEF Step, Admit
<1> HIDE DEF busy, ready
<1>4. /\ Cardinality(launch) \in Nat /\ Cardinality(busy) \in Nat
      /\ Cardinality(ready) \in Nat /\ Cardinality(Running) \in Nat
      /\ IsFiniteSet(launch) /\ IsFiniteSet(busy) /\ IsFiniteSet(Running)
  BY <1>2, TaskFinite
<1>5. Cardinality(busy) <= Concurrency
  <2>1. Cardinality(busy) <= Cardinality(Running)
    BY <1>2, <1>4, FS_Subset
  <2> QED
    BY <1>4, <2>1, PoolAssumption DEF ConcurrencyBound
<1>6. Cardinality(busy) + Cardinality(launch) <= Concurrency
  <2>1. CASE launch = {}
    BY <1>4, <1>5, <2>1, FS_EmptySet
  <2>2. CASE Launched(launch, ready, busy)
    <3>1. Cardinality(launch) = Min({Slots(busy), Cardinality(ready)})
      BY <2>2 DEF Launched
    <3>2. Slots(busy) \in Int /\ Slots(busy) = Concurrency - Cardinality(busy)
      BY <1>4, PoolAssumption DEF Slots
    <3>3. Min({Slots(busy), Cardinality(ready)}) <= Slots(busy)
      BY <1>4, <3>2, MinOfTwo
    <3> QED
      BY <1>4, <3>1, <3>2, <3>3, PoolAssumption
  <2> QED
    BY <1>3, <2>1, <2>2
<1>7. /\ IsFiniteSet(busy \cup launch)
      /\ Cardinality(busy \cup launch) = Cardinality(busy) + Cardinality(launch)
  <2>1. Cardinality(busy \cap launch) = 0
    BY <1>2, FS_EmptySet
  <2>2. /\ IsFiniteSet(busy \cup launch)
        /\ Cardinality(busy \cup launch) =
              Cardinality(busy) + Cardinality(launch) - Cardinality(busy \cap launch)
    BY <1>4, FS_Union
  <2> QED
    BY <1>4, <2>1, <2>2
<1>8. Running' \in SUBSET Task /\ Cardinality(Running') <= Cardinality(busy \cup launch)
  BY <1>1, <1>2, <1>7, FS_Subset
<1> QED
  BY <1>4, <1>6, <1>7, <1>8, TaskFinite, PoolAssumption DEF ConcurrencyBound

-----------------------------------------------------------------------------
(* The other steps.  A step of a task moves it within `running`; all others *)
(* leave the tasks alone, but for the crash, after which none runs.        *)

TaskStep(t) == Execute(t) \/ TaskThrows(t)

LEMMA TaskStepEffect ==
    ASSUME ControlInv, NEW t \in Task, TaskStep(t)
    PROVE  /\ phase[t] \in {"starting", "checking", "raising", "working"}
           /\ \E p \in {"starting", "checking", "raising", "working", "done"} :
                 phase' = [phase EXCEPT ![t] = p]
           /\ \/ outcome' = outcome /\ phase'[t] # "done"
              \/ \E r \in {"ok", "failed"} : outcome' = [outcome EXCEPT ![t] = r]
           /\ deps' = deps /\ pool' = pool
<1>1. phase \in [Task -> Phase]
  BY DEF ControlInv
<1>2. CASE Register(t)
  BY <1>1, <1>2 DEF Register, Resolve
<1>3. CASE Launch(t)
  BY <1>1, <1>3 DEF Launch
<1>4. CASE Park(t)
  BY <1>1, <1>4 DEF Park, Resolve, files
<1>5. CASE RaiseBegin(t)
  BY <1>1, <1>5 DEF RaiseBegin
<1>6. CASE RaiseEnd(t)
  BY <1>1, <1>6 DEF RaiseEnd, Resolve
<1>7. CASE Chunk(t)
  BY <1>1, <1>7 DEF Chunk, Resolve
<1>8. CASE WorkerEnds(t)
  BY <1>1, <1>8 DEF WorkerEnds, Resolve
<1>9. CASE TaskThrows(t)
  BY <1>1, <1>9 DEF TaskThrows, Resolve
<1>10. CASE Refuse(t)
  BY <1>1, <1>10 DEF Refuse, Resolve, files
<1> QED
  BY <1>2, <1>3, <1>4, <1>5, <1>6, <1>7, <1>8, <1>9, <1>10 DEF TaskStep, Execute

LEMMA TaskStepKeeps ==
    ASSUME ControlInv, NEW t \in Task, TaskStep(t)
    PROVE  /\ ControlInv'
           /\ Running' = Running
           /\ DependenciesSucceeded => DependenciesSucceeded'
<1>1. PICK p \in {"starting", "checking", "raising", "working", "done"} :
         phase' = [phase EXCEPT ![t] = p]
  BY TaskStepEffect
<1>2. /\ phase[t] \in {"starting", "checking", "raising", "working"}
      /\ deps' = deps /\ pool' = pool
      /\ phase \in [Task -> Phase] /\ outcome \in [Task -> {"none", "ok", "failed"}]
  BY TaskStepEffect DEF ControlInv
<1>3. /\ outcome' \in [Task -> {"none", "ok", "failed"}]
      /\ \A u \in Task \ {t} : outcome'[u] = outcome[u] /\ phase'[u] = phase[u]
      /\ phase'[t] = p
      /\ p = "done" => outcome'[t] # "none"
  <2>1. phase'[t] = p /\ \A u \in Task \ {t} : phase'[u] = phase[u]
    BY <1>1, <1>2
  <2>2. CASE outcome' = outcome /\ phase'[t] # "done"
    BY <1>2, <2>1, <2>2
  <2>3. CASE \E r \in {"ok", "failed"} : outcome' = [outcome EXCEPT ![t] = r]
    BY <1>2, <2>1, <2>3
  <2> QED
    BY <2>2, <2>3, TaskStepEffect
<1>4. phase' \in [Task -> Phase]
  BY <1>1, <1>2 DEF Phase
<1>5. pool \notin {"idle", "starting"}
  BY <1>2 DEF ControlInv
<1>6. \A u \in Task : phase'[u] \in {"done", "settled"} => outcome'[u] # "none"
  BY <1>3 DEF ControlInv
<1>7. ControlInv'
  BY <1>2, <1>3, <1>4, <1>5, <1>6 DEF ControlInv
<1>8. \A u \in Task :
         (phase'[u] \in {"pending", "settled"} <=> phase[u] \in {"pending", "settled"})
         /\ (phase[u] = "settled" => phase'[u] = "settled" /\ outcome'[u] = outcome[u])
  BY <1>2, <1>3
<1>9. Running' = Running
  BY <1>8 DEF Running
<1>10. DependenciesSucceeded => DependenciesSucceeded'
  <2> SUFFICES ASSUME DependenciesSucceeded, NEW u \in Running, NEW v \in deps[u]
               PROVE  phase'[v] = "settled" /\ outcome'[v] = "ok"
    BY <1>2, <1>9 DEF DependenciesSucceeded
  <2>1. v \in Task /\ phase[v] = "settled" /\ outcome[v] = "ok"
    BY DEF DependenciesSucceeded, ControlInv, Running
  <2> QED
    BY <1>8, <2>1
<1> QED
  BY <1>7, <1>9, <1>10

LEMMA QuietStep ==
    ASSUME ControlInv,
           Start \/ Persist \/ Abort \/ Expire \/ RaiseCap
             \/ (\E t \in Task : Retry(t)) \/ UNCHANGED vars
    PROVE  /\ ControlInv' /\ Running' = Running
           /\ DependenciesSucceeded => DependenciesSucceeded'
<1>1. /\ UNCHANGED <<deps, phase, outcome>>
      /\ pool' = pool \/ (pool = "idle" /\ pool' = "starting") \/ pool' = "done"
  BY DEF Start, Persist, Abort, Expire, RaiseCap, Retry, vars, files, rows, attempt,
         outside
<1>2. Running' = Running
  BY <1>1 DEF Running
<1> QED
  BY <1>1, <1>2 DEF ControlInv, DependenciesSucceeded

LEMMA CrashStep ==
    ASSUME ControlInv, Crash
    PROVE  ControlInv' /\ Running' = {}
<1>1. /\ phase' = [t \in Task |-> "pending"] /\ outcome' = [t \in Task |-> "none"]
      /\ deps' = deps
  BY DEF Crash
<1> QED
  BY <1>1 DEF ControlInv, Running, Phase

-----------------------------------------------------------------------------
(* The theorems.                                                           *)

LEMMA ControlStep ==
    ASSUME ControlInv, [Next]_vars
    PROVE  /\ ControlInv'
           /\ DependenciesSucceeded => DependenciesSucceeded'
           /\ ConcurrencyBound => ConcurrencyBound'
<1>1. ASSUME NEW taken \in SUBSET Task, \A t \in taken : phase[t] = "done",
             Iterate(taken)
      PROVE  /\ ControlInv'
             /\ DependenciesSucceeded => DependenciesSucceeded'
             /\ ConcurrencyBound => ConcurrencyBound'
  <2>1. PICK skip \in SUBSET Pending : \E launch \in SUBSET (Pending \ skip) :
           Step(taken, skip, launch)
    BY <1>1 DEF Iterate
  <2>2. PICK launch \in SUBSET (Pending \ skip) : Step(taken, skip, launch)
    BY <2>1
  <2> QED
    BY <1>1, <2>2, StepControl, StepDependencies, StepConcurrency
<1>2. CASE First
  BY <1>1, <1>2 DEF First
<1>3. ASSUME NEW t \in Task, Take(t)
      PROVE  /\ ControlInv'
             /\ DependenciesSucceeded => DependenciesSucceeded'
             /\ ConcurrencyBound => ConcurrencyBound'
  BY <1>1, <1>3 DEF Take
<1>4. ASSUME NEW t \in Task, Execute(t) \/ TaskThrows(t)
      PROVE  /\ ControlInv'
             /\ DependenciesSucceeded => DependenciesSucceeded'
             /\ ConcurrencyBound => ConcurrencyBound'
  BY <1>4, TaskStepKeeps DEF TaskStep, ConcurrencyBound
<1>5. CASE Start \/ Persist \/ Abort \/ Expire \/ RaiseCap
             \/ (\E t \in Task : Retry(t)) \/ UNCHANGED vars
  BY <1>5, QuietStep DEF ConcurrencyBound
<1>6. CASE Crash
  BY <1>6, CrashStep, FS_EmptySet, PoolAssumption
     DEF DependenciesSucceeded, ConcurrencyBound
<1> QED
  BY <1>2, <1>3, <1>4, <1>5, <1>6 DEF Next, Loop, Outside

LEMMA ControlInit ==
    ASSUME Init
    PROVE  ControlInv /\ Running = {}
BY DEF Init, ControlInv, Running, Phase

LEMMA ControlInvariant == Spec => []ControlInv
BY ControlInit, ControlStep, PTL DEF Spec

\* pool.ts:1192: however tasks start, bump, fail and are taken, no more of
\* them run than maxConcurrentTasks.
THEOREM ConcurrencyBounded == Spec => []ConcurrencyBound
<1>1. Init => ConcurrencyBound
  BY ControlInit, FS_EmptySet, PoolAssumption DEF ConcurrencyBound
<1>2. ControlInv /\ ConcurrencyBound /\ [Next]_vars => ConcurrencyBound'
  BY ControlStep
<1> QED
  BY <1>1, <1>2, ControlInvariant, PTL DEF Spec

\* pool.ts:1174: in topological order one pass over the pending tasks is
\* enough, and what runs has no dependency that failed or was skipped.
THEOREM OnlyAfterSuccess == Spec => []DependenciesSucceeded
<1>1. Init => DependenciesSucceeded
  BY ControlInit DEF DependenciesSucceeded
<1>2. ControlInv /\ DependenciesSucceeded /\ [Next]_vars => DependenciesSucceeded'
  BY ControlStep
<1> QED
  BY <1>1, <1>2, ControlInvariant, PTL DEF Spec

-----------------------------------------------------------------------------
(* No task is forgotten.  If a task were left when nothing runs, the least *)
(* of them would be ready, and there are free slots to launch it.          *)

\* Least elements, from the library's fact on inclusion of finite sets.
LEMMA LeastTask ==
    ASSUME NEW T \in SUBSET Nat, T # {}
    PROVE  \E x \in T : \A y \in T : x <= y
<1> DEFINE F == {1..x : x \in T}
           R == StrictSubsetOrdering(Nat)
<1>1. F \subseteq FiniteSubsetsOf(Nat) /\ F # {}
  <2>1. \A x \in T : IsFiniteSet(1..x) /\ 1..x \subseteq Nat
    BY FS_Interval
  <2> QED
    BY <2>1 DEF FiniteSubsetsOf
<1>2. IsWellFoundedOn(R, FiniteSubsetsOf(Nat))
  BY FS_StrictSubsetOrderingWellFounded
<1> HIDE DEF R
<1>3. PICK m \in F : \A n \in F : ~ (<<n, m>> \in R)
  BY <1>1, <1>2, WFMin
<1>4. PICK x \in T : m = 1..x
  OBVIOUS
<1>5. ASSUME NEW y \in T, y < x PROVE FALSE
  <2>1. 1..y \subseteq 1..x /\ x \in 1..x /\ x \notin 1..y
    BY <1>5
  <2>2. 1..y \in F /\ 1..y \in SUBSET Nat /\ 1..x \in SUBSET Nat
    OBVIOUS
  <2>3. <<1..y, m>> \in R
    BY <1>4, <2>1, <2>2 DEF StrictSubsetOrdering, R
  <2> QED
    BY <1>3, <2>2, <2>3
<1> QED
  BY <1>5

LEMMA StepForgetsNone ==
    ASSUME ControlInv, NEW taken \in SUBSET Task, NEW skip \in SUBSET Pending,
           NEW launch \in SUBSET (Pending \ skip), Step(taken, skip, launch),
           pool' = "closing"
    PROVE  Settled' = Task
<1> DEFINE busy == Running \ taken
           ready == {t \in Pending \ skip :
                        IsReady(t, Settled \cup taken \cup skip)}
           rest == Pending \ skip
<1>1. busy = {} /\ launch = {}
  BY DEF Step
<1>2. rest = {}
  <2> SUFFICES ASSUME rest # {} PROVE FALSE
    OBVIOUS
  <2>1. Launched({}, ready, {})
    BY <1>1 DEF Step, Admit, AbortedAtRest
  <2>2. rest \in SUBSET Nat
    BY PoolAssumption DEF Pending, Task
  <2>3. PICK t \in rest : \A u \in rest : t <= u
    BY <2>2, LeastTask
  <2>4. t \in Task /\ deps[t] \subseteq Task /\ \A u \in deps[t] : u < t
    BY DEF Pending, ControlInv
  <2>5. ASSUME NEW u \in deps[t] PROVE u \in Settled \cup taken \cup skip
    <3>1. u \notin rest
      BY <2>2, <2>3, <2>4, PoolAssumption DEF Task
    <3> QED
      BY <1>1, <2>4, <3>1 DEF Pending, Running, Settled
  <2>6. t \in ready
    BY <2>5 DEF IsReady
  <2>7. ready \in SUBSET Task
    BY DEF Pending
  <2> HIDE DEF ready, rest
  <2>8. Cardinality(ready) \in Nat /\ Cardinality(ready) # 0
    BY <2>6, <2>7, TaskFinite, FS_EmptySet
  <2>9. Cardinality({}) = 0
    BY FS_EmptySet
  <2>10. Slots({}) = Concurrency /\ Concurrency \in Nat /\ Concurrency # 0
    BY <2>9, PoolAssumption DEF Slots
  <2>11. Slots({}) \in Int /\ Cardinality(ready) \in Int
    BY <2>8, <2>10
  <2>12. Min({Slots({}), Cardinality(ready)}) \in {Slots({}), Cardinality(ready)}
    BY ONLY <2>11, MinOfTwo
  <2> QED
    BY <2>1, <2>8, <2>9, <2>10, <2>12 DEF Launched
<1>3. ASSUME NEW t \in Task PROVE phase'[t] = "settled"
  <2>1. CASE t \in taken \cup skip
    BY <2>1, StepEffect
  <2>2. CASE t \notin taken \cup skip
    <3>1. phase[t] = "settled"
      BY <1>1, <1>2, <2>2 DEF Running, Pending
    <3>2. t \notin taken \cup skip \cup launch
      BY <1>1, <2>2
    <3>3. phase'[t] = phase[t]
      BY <3>2, StepEffect
    <3> QED
      BY <3>1, <3>3
  <2> QED
    BY <2>1, <2>2
<1> QED
  BY <1>3 DEF Settled

\* pool.ts:1247: the loop's bail for a deadlock is never taken, for it ends
\* only when every task has a result.
THEOREM NoneForgotten == Spec => []NoTaskForgotten
<1>1. Init => NoTaskForgotten
  BY DEF Init, NoTaskForgotten
<1>2. ControlInv /\ NoTaskForgotten /\ [Next]_vars => NoTaskForgotten'
  <2> SUFFICES ASSUME ControlInv, NoTaskForgotten, [Next]_vars PROVE NoTaskForgotten'
    OBVIOUS
  <2>1. ASSUME NEW taken \in SUBSET Task, Iterate(taken) PROVE NoTaskForgotten'
    <3>1. PICK skip \in SUBSET Pending : \E launch \in SUBSET (Pending \ skip) :
             Step(taken, skip, launch)
      BY <2>1 DEF Iterate
    <3>2. PICK launch \in SUBSET (Pending \ skip) : Step(taken, skip, launch)
      BY <3>1
    <3> QED
      BY <3>2, StepForgetsNone, StepEffect DEF NoTaskForgotten
  <2>2. CASE First
    BY <2>1, <2>2 DEF First
  <2>3. ASSUME NEW t \in Task, Take(t) PROVE NoTaskForgotten'
    BY <2>1, <2>3 DEF Take
  <2>4. ASSUME NEW t \in Task, Execute(t) \/ TaskThrows(t) PROVE NoTaskForgotten'
    <3>1. pool' = pool /\ phase[t] # "settled"
      BY <2>4, TaskStepEffect DEF TaskStep
    <3> QED
      BY <3>1 DEF NoTaskForgotten, Settled
  <2>5. CASE Start \/ Persist \/ Abort \/ Expire \/ RaiseCap
               \/ (\E t \in Task : Retry(t)) \/ UNCHANGED vars
    <3>1. phase' = phase
      BY <2>5 DEF Start, Persist, Abort, Expire, RaiseCap, Retry, vars
    <3>2. pool' \in {"closing", "done"} => pool \in {"closing", "done"}
      BY <2>5 DEF Start, Persist, Abort, Expire, RaiseCap, Retry, vars
    <3> QED
      BY <3>1, <3>2 DEF NoTaskForgotten, Settled
  <2>6. CASE Crash
    BY <2>6 DEF Crash, NoTaskForgotten
  <2> QED
    BY <2>2, <2>3, <2>4, <2>5, <2>6 DEF Next, Loop, Outside
<1> QED
  BY <1>1, <1>2, ControlInvariant, PTL DEF Spec

-----------------------------------------------------------------------------
(* Completed work.  A task past its registration has a row that is not     *)
(* complete, which is why writing it never undoes a completion.            *)

RowInv ==
    /\ row \in [Task -> {"absent", "pending", "running", "complete", "failed"}]
    /\ turns \in [Task -> Nat]
    /\ spent \in [Task -> Nat]
    /\ \A t \in Task : phase[t] \in {"checking", "raising", "working"} =>
                         row[t] # "complete"
    /\ \A t \in Task : outcome[t] = "ok" => row[t] = "complete"

RowStays ==
    \A t \in Task : row[t] = "complete" =>
        row'[t] = "complete" /\ turns'[t] = turns[t]

\* Writing the row of a task whose row is not complete.
LEMMA WriteKeepsComplete ==
    ASSUME RowInv, NEW t \in Task, row[t] # "complete",
           NEW s \in {"absent", "pending", "running", "complete", "failed"},
           NEW n \in Nat, WriteRow(t, s, n)
    PROVE  /\ row' \in [Task -> {"absent", "pending", "running", "complete", "failed"}]
           /\ turns' \in [Task -> Nat]
           /\ row'[t] = s /\ \A u \in Task \ {t} : row'[u] = row[u]
           /\ RowStays
BY DEF RowInv, WriteRow, RowStays

LEMMA TaskStepRows ==
    ASSUME ControlInv, RowInv, NEW t \in Task, TaskStep(t)
    PROVE  RowInv' /\ RowStays
<1> DEFINE RowType == {"absent", "pending", "running", "complete", "failed"}
<1>1. /\ phase \in [Task -> Phase] /\ outcome \in [Task -> {"none", "ok", "failed"}]
      /\ spent[t] \in Nat /\ row[t] \in RowType
  BY DEF ControlInv, RowInv
<1>2. \/ UNCHANGED rows
      \/ /\ row[t] # "complete"
         /\ \E s \in RowType, n \in Nat : WriteRow(t, s, n)
  BY <1>1 DEF TaskStep, Execute, Register, Refuse, Launch, Park, RaiseBegin, RaiseEnd, Chunk,
              WorkerEnds, TaskThrows, RowInv, rows
<1>3. /\ row' \in [Task -> RowType] /\ turns' \in [Task -> Nat]
      /\ \A u \in Task \ {t} : row'[u] = row[u]
      /\ RowStays
  <2>1. CASE UNCHANGED rows
    BY <2>1 DEF rows, RowInv, RowStays
  <2>2. CASE row[t] # "complete" /\ \E s \in RowType, n \in Nat : WriteRow(t, s, n)
    BY <2>2, WriteKeepsComplete
  <2> QED
    BY <1>2, <2>1, <2>2
<1>4. spent' \in [Task -> Nat]
  BY DEF TaskStep, Execute, Register, Refuse, Launch, Park, RaiseBegin, RaiseEnd, Chunk,
         WorkerEnds, TaskThrows, RowInv, attempt
<1>5. \A u \in Task \ {t} : phase'[u] = phase[u] /\ outcome'[u] = outcome[u]
  BY <1>1, TaskStepEffect
<1>6. /\ phase'[t] \in {"checking", "raising", "working"} => row'[t] # "complete"
      /\ outcome'[t] = "ok" => row'[t] = "complete"
  <2>1. CASE Register(t)
    BY <1>1, <2>1 DEF Register, WriteRow, Resolve, RowInv, rows
  <2>2. CASE Launch(t)
    BY <1>1, <2>2 DEF Launch, RowInv, rows
  <2>3. CASE Park(t)
    BY <1>1, <2>3 DEF Park, WriteRow, Resolve, RowInv
  <2>4. CASE RaiseBegin(t)
    BY <1>1, <2>4 DEF RaiseBegin, RowInv, rows
  <2>5. CASE RaiseEnd(t)
    BY <1>1, <2>5 DEF RaiseEnd, WriteRow, Resolve, RowInv
  <2>6. CASE Chunk(t)
    BY <1>1, <2>6 DEF Chunk, WriteRow, Resolve, RowInv, rows
  <2>7. CASE WorkerEnds(t)
    BY <1>1, <2>7 DEF WorkerEnds, WriteRow, Resolve, RowInv
  <2>8. CASE TaskThrows(t)
    BY <1>1, <2>8 DEF TaskThrows, Resolve, RowInv, rows
  <2>9. CASE Refuse(t)
    BY <1>1, <2>9 DEF Refuse, WriteRow, Resolve, RowInv
  <2> QED
    BY <2>1, <2>2, <2>3, <2>4, <2>5, <2>6, <2>7, <2>8, <2>9 DEF TaskStep, Execute
<1> QED
  BY <1>3, <1>4, <1>5, <1>6 DEF RowInv

LEMMA OtherRows ==
    ASSUME ControlInv, RowInv,
           \/ Start \/ Loop \/ Outside \/ UNCHANGED vars
    PROVE  RowInv' /\ RowStays
<1>1. ASSUME NEW taken \in SUBSET Task, Iterate(taken) PROVE RowInv' /\ RowStays
  <2>1. PICK skip \in SUBSET Pending : \E launch \in SUBSET (Pending \ skip) :
           Step(taken, skip, launch)
    BY <1>1 DEF Iterate
  <2>2. PICK launch \in SUBSET (Pending \ skip) : Step(taken, skip, launch)
    BY <2>1
  <2>3. row' = row /\ turns' = turns /\ spent' = spent
    BY <2>2 DEF Step, rows
  <2>4. ASSUME NEW t \in Task
        PROVE  /\ phase'[t] \in {phase[t], "settled", "starting"}
               /\ outcome'[t] \in {outcome[t], "failed"}
    BY <2>2, StepEffect
  <2> QED
    BY <2>3, <2>4 DEF RowInv, RowStays
<1>2. CASE First
  BY <1>1, <1>2 DEF First
<1>3. ASSUME NEW t \in Task, Take(t) PROVE RowInv' /\ RowStays
  BY <1>1, <1>3 DEF Take
<1>4. CASE Start \/ Persist \/ Abort \/ Expire \/ RaiseCap \/ UNCHANGED vars
  <2>1. UNCHANGED <<row, turns, spent, phase, outcome>>
    BY <1>4 DEF Start, Persist, Abort, Expire, RaiseCap, vars, rows, attempt
  <2> QED
    BY <2>1 DEF RowInv, RowStays
<1>5. ASSUME NEW t \in Task, Retry(t) PROVE RowInv' /\ RowStays
  <2>1. row[t] # "complete" /\ WriteRow(t, "pending", 0)
    BY <1>5 DEF Retry
  <2>2. /\ row' \in [Task -> {"absent", "pending", "running", "complete", "failed"}]
        /\ turns' \in [Task -> Nat]
        /\ row'[t] = "pending" /\ \A u \in Task \ {t} : row'[u] = row[u]
        /\ RowStays
    BY <2>1, WriteKeepsComplete
  <2>3. UNCHANGED <<spent, phase, outcome>>
    BY <1>5 DEF Retry, attempt
  <2> QED
    BY <2>1, <2>2, <2>3 DEF RowInv
<1>6. CASE Crash
  BY <1>6 DEF Crash, RowInv, RowStays, rows
<1> QED
  BY <1>2, <1>3, <1>4, <1>5, <1>6 DEF Loop, Outside

LEMMA RowStep ==
    ASSUME ControlInv, RowInv, [Next]_vars
    PROVE  RowInv' /\ RowStays
BY TaskStepRows, OtherRows DEF Next, TaskStep

LEMMA RowInvariant == Spec => []RowInv
<1>1. Init => RowInv
  BY DEF Init, RowInv
<1> QED
  BY <1>1, RowStep, ControlInvariant, PTL DEF Spec

\* pool.ts:511 and tasks-inflight.ts:80: no restart, retry or bump runs a
\* task whose work is complete again.
THEOREM CompletedStays == Spec => CompleteRowStays
<1>1. ControlInv /\ RowInv /\ [Next]_vars => [RowStays]_vars
  BY RowStep
<1>2. [][RowStays]_vars => CompleteRowStays
  BY PTL DEF CompleteRowStays, RowStays
<1> QED
  BY <1>1, <1>2, RowInvariant, ControlInvariant, PTL DEF Spec

\* pool.ts:1289: `complete` is written into the plan file only when every
\* task is, whatever became of the runs before.
THEOREM CompletePlansDone == Spec => []CompletePlanIsDone
<1>1. Init => CompletePlanIsDone
  BY DEF Init, CompletePlanIsDone
<1>2. ASSUME ControlInv, RowInv, NoTaskForgotten, CompletePlanIsDone, [Next]_vars
      PROVE  CompletePlanIsDone'
  <2>1. RowStays
    BY <1>2, RowStep
  <2>2. CASE Persist
    <3>1. row' = row /\ (plan' = "complete" => \A t \in Task : outcome[t] # "failed")
      BY <2>2 DEF Persist, rows
    <3>2. \A t \in Task : phase[t] = "settled"
      BY <1>2, <2>2 DEF Persist, NoTaskForgotten, Settled
    <3>3. \A t \in Task : outcome[t] \in {"ok", "failed"}
      BY <1>2, <3>2 DEF ControlInv
    <3> QED
      BY <1>2, <3>1, <3>3 DEF CompletePlanIsDone, RowInv
  <2>3. CASE plan' = plan
    BY <1>2, <2>1, <2>3 DEF CompletePlanIsDone, RowStays
  <2>4. Persist \/ plan' = plan
    BY <1>2 DEF Next, Loop, Outside, First, Take, Iterate, Step, Execute, Register,
                Refuse, Launch, Park, RaiseBegin, RaiseEnd, Chunk, WorkerEnds, TaskThrows,
                Start, Abort, Expire, RaiseCap, Retry, Crash, vars, files
  <2> QED
    BY <2>2, <2>3, <2>4
<1> QED
  BY <1>1, <1>2, ControlInvariant, RowInvariant, NoneForgotten, PTL DEF Spec

-----------------------------------------------------------------------------
(* Sums over the tasks.  Used is a recursive function on the sets of tasks: *)
(* what it adds up to is proved of a smallest set for which it would fail. *)

Sum(f) == MapThenSumSet(LAMBDA t : f[t], Task)

\* The element that the fold takes out of a set first.
Taken(s) == CHOOSE x \in s : TRUE

SumStep(f, g, s) == IF s = {} THEN 0 ELSE f[Taken(s)] + g[s \ {Taken(s)}]
IsSum(f, g) == g = [s \in SUBSET Task |-> SumStep(f, g, s)]

\* Induction on the sets of tasks, of a set G of them.
LEMMA TaskSets ==
    ASSUME NEW G,
           {} \in G,
           \A s \in SUBSET Task : s # {} /\ s \ {Taken(s)} \in G => s \in G
    PROVE  \A s \in SUBSET Task : s \in G
<1> DEFINE Bad == {n \in Nat : \E s \in SUBSET Task : s \notin G /\ Cardinality(s) = n}
<1> SUFFICES ASSUME NEW r \in SUBSET Task, r \notin G PROVE FALSE
  OBVIOUS
<1>1. Cardinality(r) \in Bad
  BY TaskFinite
<1>2. PICK n \in Bad : \A m \in Bad : n <= m
  BY <1>1, LeastTask
<1>3. PICK s \in SUBSET Task : s \notin G /\ Cardinality(s) = n
  OBVIOUS
<1>4. s # {} /\ Taken(s) \in s
  BY <1>3 DEF Taken
<1> DEFINE q == s \ {Taken(s)}
<1>5. q \in SUBSET Task /\ IsFiniteSet(s) /\ Cardinality(q) \in Nat
  BY TaskFinite
<1>6. Cardinality(q) = Cardinality(s) - 1
  BY <1>4, <1>5, FS_RemoveElement
<1>7. q \notin G
  BY <1>3, <1>4
<1> HIDE DEF q
<1>8. Cardinality(q) \in Bad
  BY <1>5, <1>7
<1> QED
  BY <1>2, <1>3, <1>6, <1>8

LEMMA SumExists ==
    ASSUME NEW f
    PROVE  \E g : IsSum(f, g)
<1> DEFINE Upto(g, n) == /\ g = [s \in SUBSET Task |-> g[s]]
                         /\ \A s \in SUBSET Task :
                               Cardinality(s) <= n => g[s] = SumStep(f, g, s)
           Bad == {n \in Nat : ~ \E g : Upto(g, n)}
<1>1. Bad = {}
  <2> SUFFICES ASSUME Bad # {} PROVE FALSE
    OBVIOUS
  <2>1. PICK n \in Bad : \A m \in Bad : n <= m
    BY LeastTask
  <2>2. CASE n = 0
    <3> DEFINE g == [s \in SUBSET Task |-> 0]
    <3>1. ASSUME NEW s \in SUBSET Task, Cardinality(s) <= 0
          PROVE  g[s] = SumStep(f, g, s)
      <4>1. s = {}
        BY <3>1, TaskFinite, FS_EmptySet
      <4> QED
        BY <4>1 DEF SumStep
    <3>2. Upto(g, 0)
      BY <3>1
    <3> QED
      BY <2>1, <2>2, <3>2
  <2>3. CASE n # 0
    <3>1. n \in Nat /\ n - 1 \in Nat /\ n - 1 \notin Bad
      <4>1. n \in Nat /\ n - 1 \in Nat /\ ~(n <= n - 1)
        BY <2>3
      <4> HIDE DEF Bad
      <4> QED
        BY <2>1, <4>1
    <3>2. PICK g : Upto(g, n - 1)
      BY <3>1
    <3> DEFINE h == [s \in SUBSET Task |->
                        IF Cardinality(s) = n THEN SumStep(f, g, s) ELSE g[s]]
    <3>3. ASSUME NEW s \in SUBSET Task, Cardinality(s) <= n
          PROVE  h[s] = SumStep(f, h, s)
      <4>1. h[s] = SumStep(f, g, s)
        <5>1. Cardinality(s) \in Nat
          BY TaskFinite
        <5>2. Cardinality(s) # n => Cardinality(s) <= n - 1
          BY <3>1, <3>3, <5>1
        <5>3. Cardinality(s) # n => g[s] = SumStep(f, g, s)
          BY <3>2, <5>2
        <5> QED
          BY <5>3
      <4>2. CASE s = {}
        BY <4>1, <4>2 DEF SumStep
      <4>3. CASE s # {}
        <5> DEFINE q == s \ {Taken(s)}
        <5>1. Taken(s) \in s
          BY <4>3 DEF Taken
        <5>2. q \in SUBSET Task /\ Cardinality(q) = Cardinality(s) - 1
          BY <5>1, TaskFinite, FS_RemoveElement
        <5>3. Cardinality(q) # n
          BY <3>1, <3>3, <5>2, TaskFinite
        <5>4. h[q] = g[q]
          BY <5>2, <5>3
        <5> QED
          BY <4>1, <4>3, <5>4 DEF SumStep
      <4> QED
        BY <4>2, <4>3
    <3>4. h = [s \in SUBSET Task |-> h[s]]
      OBVIOUS
    <3> HIDE DEF h
    <3>5. Upto(h, n)
      BY <3>3, <3>4
    <3> QED
      BY <2>1, <3>5
  <2> QED
    BY <2>2, <2>3
<1>2. Cardinality(Task) \in Nat
  BY TaskFinite
<1>3. PICK g : Upto(g, Cardinality(Task))
  BY <1>1, <1>2
<1>4. \A s \in SUBSET Task : Cardinality(s) <= Cardinality(Task)
  BY TaskFinite, FS_Subset
<1>5. IsSum(f, g)
  BY <1>3, <1>4 DEF IsSum
<1> QED
  BY <1>5

\* What a recursive sum over the sets of tasks adds up.
AddsUp(f, g) ==
    /\ g[{}] = 0
    /\ \A s \in SUBSET Task : s # {} =>
          /\ Taken(s) \in s /\ s \ {Taken(s)} \in SUBSET Task
          /\ g[s] = f[Taken(s)] + g[s \ {Taken(s)}]

LEMMA SumLinks ==
    ASSUME NEW f
    PROVE  \E g : AddsUp(f, g) /\ Sum(f) = g[Task]
<1> DEFINE h == CHOOSE g : IsSum(f, g)
<1>1. IsSum(f, h)
  BY SumExists
<1>2. Sum(f) = h[Task]
  BY DEF Sum, MapThenSumSet, MapThenFoldSet, IsSum, SumStep, Taken
<1> HIDE DEF h
<1>3. \A s \in SUBSET Task : h[s] = SumStep(f, h, s)
  BY <1>1 DEF IsSum
<1>4. \A s \in SUBSET Task : s # {} => Taken(s) \in s
  BY DEF Taken
<1>5. AddsUp(f, h)
  BY <1>3, <1>4 DEF SumStep, AddsUp
<1> QED
  BY <1>2, <1>5

LEMMA SumIsNat ==
    ASSUME NEW f \in [Task -> Nat], NEW g, AddsUp(f, g)
    PROVE  \A s \in SUBSET Task : g[s] \in Nat
<1> DEFINE G == {s \in SUBSET Task : g[s] \in Nat}
<1>1. {} \in G
  BY DEF AddsUp
<1>2. ASSUME NEW s \in SUBSET Task, s # {}, s \ {Taken(s)} \in G PROVE s \in G
  <2>1. Taken(s) \in s /\ g[s] = f[Taken(s)] + g[s \ {Taken(s)}]
    <3> HIDE DEF G
    <3> QED
      BY <1>2 DEF AddsUp
  <2>2. f[Taken(s)] \in Nat /\ g[s \ {Taken(s)}] \in Nat
    BY <1>2, <2>1
  <2>3. g[s] \in Nat
    BY <2>1, <2>2
  <2> QED
    BY <2>3
<1> HIDE DEF G
<1>3. \A s \in SUBSET Task : s \in G
  BY <1>1, <1>2, TaskSets
<1> QED
  BY <1>3 DEF G

\* A sum does not grow when none of its terms does.
LEMMA SumMonotone ==
    ASSUME NEW e \in [Task -> Nat], NEW f \in [Task -> Nat],
           \A t \in Task : e[t] <= f[t]
    PROVE  Sum(e) \in Nat /\ Sum(f) \in Nat /\ Sum(e) <= Sum(f)
<1>1. PICK g : AddsUp(e, g) /\ Sum(e) = g[Task]
  BY SumLinks
<1>2. PICK h : AddsUp(f, h) /\ Sum(f) = h[Task]
  BY SumLinks
<1>3. \A s \in SUBSET Task : g[s] \in Nat /\ h[s] \in Nat
  BY <1>1, <1>2, SumIsNat
<1> DEFINE G == {s \in SUBSET Task : g[s] <= h[s]}
<1>4. {} \in G
  BY <1>1, <1>2 DEF AddsUp
<1>5. ASSUME NEW s \in SUBSET Task, s # {}, s \ {Taken(s)} \in G PROVE s \in G
  <2> DEFINE x == Taken(s)  q == s \ {Taken(s)}
  <2>1. x \in Task /\ g[s] = e[x] + g[q] /\ h[s] = f[x] + h[q]
    <3> HIDE DEF G
    <3>1. x \in s /\ g[s] = e[x] + g[q]
      BY <1>1, <1>5 DEF AddsUp
    <3>2. h[s] = f[x] + h[q]
      BY <1>2, <1>5 DEF AddsUp
    <3> QED
      BY <3>1, <3>2
  <2>2. q \in SUBSET Task /\ g[q] <= h[q]
    BY <1>5
  <2> HIDE DEF x, q
  <2>3. e[x] \in Nat /\ f[x] \in Nat /\ e[x] <= f[x] /\ g[q] \in Nat /\ h[q] \in Nat
    BY <1>3, <2>1, <2>2
  <2> QED
    BY <2>1, <2>2, <2>3
<1> HIDE DEF G
<1>6. \A s \in SUBSET Task : s \in G
  BY <1>4, <1>5, TaskSets
<1> QED
  BY <1>1, <1>2, <1>3, <1>6 DEF G

LEMMA SumAdds ==
    ASSUME NEW d \in [Task -> Nat], NEW e \in [Task -> Nat], NEW f \in [Task -> Nat],
           \A t \in Task : f[t] = d[t] + e[t]
    PROVE  Sum(f) = Sum(d) + Sum(e)
<1>1. PICK g : AddsUp(d, g) /\ Sum(d) = g[Task]
  BY SumLinks
<1>2. PICK h : AddsUp(e, h) /\ Sum(e) = h[Task]
  BY SumLinks
<1>3. PICK k : AddsUp(f, k) /\ Sum(f) = k[Task]
  BY SumLinks
<1>4. \A s \in SUBSET Task : g[s] \in Nat /\ h[s] \in Nat /\ k[s] \in Nat
  BY <1>1, <1>2, <1>3, SumIsNat
<1> DEFINE G == {s \in SUBSET Task : k[s] = g[s] + h[s]}
<1>5. {} \in G
  BY <1>1, <1>2, <1>3 DEF AddsUp
<1>6. ASSUME NEW s \in SUBSET Task, s # {}, s \ {Taken(s)} \in G PROVE s \in G
  <2> DEFINE x == Taken(s)  q == s \ {Taken(s)}
  <2>1. x \in Task /\ g[s] = d[x] + g[q] /\ h[s] = e[x] + h[q] /\ k[s] = f[x] + k[q]
    <3> HIDE DEF G
    <3>1. x \in s /\ g[s] = d[x] + g[q]
      BY <1>1, <1>6 DEF AddsUp
    <3>2. h[s] = e[x] + h[q]
      BY <1>2, <1>6 DEF AddsUp
    <3>3. k[s] = f[x] + k[q]
      BY <1>3, <1>6 DEF AddsUp
    <3> QED
      BY <3>1, <3>2, <3>3
  <2>2. q \in SUBSET Task /\ k[q] = g[q] + h[q]
    BY <1>6
  <2> HIDE DEF x, q
  <2>3. /\ d[x] \in Nat /\ e[x] \in Nat /\ f[x] = d[x] + e[x]
        /\ g[q] \in Nat /\ h[q] \in Nat
    BY <1>4, <2>1, <2>2
  <2> QED
    BY <2>1, <2>2, <2>3
<1> HIDE DEF G
<1>7. \A s \in SUBSET Task : s \in G
  BY <1>5, <1>6, TaskSets
<1> QED
  BY <1>1, <1>2, <1>3, <1>7 DEF G

LEMMA Distributes ==
    ASSUME NEW n \in Nat, NEW m \in Nat, m = n + 1, NEW b \in Nat
    PROVE  m * b = n * b + b /\ n * b \in Nat
OBVIOUS

\* Terms that are at most b in a set, and nothing elsewhere.
LEMMA SumBounded ==
    ASSUME NEW f \in [Task -> Nat], NEW B \in SUBSET Task, NEW b \in Nat,
           \A t \in B : f[t] <= b, \A t \in Task \ B : f[t] = 0
    PROVE  Sum(f) \in Nat /\ Sum(f) <= Cardinality(B) * b
<1>1. PICK g : AddsUp(f, g) /\ Sum(f) = g[Task]
  BY SumLinks
<1>2. \A s \in SUBSET Task : g[s] \in Nat
  BY <1>1, SumIsNat
<1> DEFINE G == {s \in SUBSET Task : g[s] <= Cardinality(s \cap B) * b}
<1>3. {} \in G
  <2>1. Cardinality({} \cap B) = 0
    BY FS_EmptySet
  <2> QED
    BY <1>1, <2>1 DEF AddsUp
<1>4. ASSUME NEW s \in SUBSET Task, s # {}, s \ {Taken(s)} \in G PROVE s \in G
  <2> DEFINE x == Taken(s)  q == s \ {Taken(s)}
  <2>1. x \in s /\ x \in Task /\ g[s] = f[x] + g[q]
    <3> HIDE DEF G
    <3> QED
      BY <1>1, <1>4 DEF AddsUp
  <2>2. q \in SUBSET Task /\ g[q] <= Cardinality(q \cap B) * b /\ g[q] \in Nat
    BY <1>2, <1>4
  <2>3. /\ s \cap B \in SUBSET Task /\ q \cap B \in SUBSET Task
        /\ Cardinality(s \cap B) \in Nat /\ Cardinality(q \cap B) \in Nat
    BY TaskFinite
  <2>4. CASE x \in B
    <3>1. q \cap B = (s \cap B) \ {x} /\ x \in s \cap B
      BY <2>1, <2>4
    <3>2. Cardinality(q \cap B) = Cardinality(s \cap B) - 1
      <4>1. IsFiniteSet(s \cap B)
        BY <2>3, TaskFinite
      <4>2. Cardinality((s \cap B) \ {x}) = Cardinality(s \cap B) - 1
        BY <3>1, <4>1, FS_RemoveElement
      <4> QED
        BY <3>1, <4>2
    <3>3. Cardinality(s \cap B) = Cardinality(q \cap B) + 1
      BY <2>3, <3>2
    <3>4. /\ Cardinality(s \cap B) * b = Cardinality(q \cap B) * b + b
          /\ Cardinality(q \cap B) * b \in Nat
      BY <2>3, <3>3, Distributes
    <3>5. f[x] \in Nat /\ f[x] <= b
      BY <2>1, <2>4
    <3> HIDE DEF x, q
    <3>6. g[s] <= Cardinality(s \cap B) * b
      BY <2>1, <2>2, <3>4, <3>5
    <3> QED
      BY <3>6
  <2>5. CASE x \notin B
    <3>1. q \cap B = s \cap B /\ f[x] = 0
      BY <2>1, <2>5
    <3>2. g[s] = g[q]
      BY <2>1, <2>2, <3>1
    <3>3. g[s] <= Cardinality(s \cap B) * b
      BY <2>2, <3>1, <3>2
    <3> QED
      BY <3>3
  <2> QED
    BY <2>4, <2>5
<1> HIDE DEF G
<1>5. Task \in G
  BY <1>3, <1>4, TaskSets
<1>6. Task \cap B = B
  OBVIOUS
<1> QED
  BY <1>1, <1>2, <1>5, <1>6 DEF G

-----------------------------------------------------------------------------
(* The types.                                                              *)


LEMMA LargestOf ==
    /\ \A a, b \in Nat : Max({a, b}) \in Nat /\ a <= Max({a, b}) /\ b <= Max({a, b})
    /\ \A a, b, c \in Nat : Max({a, b, c}) \in Nat
<1>1. ASSUME NEW a \in Nat, NEW b \in Nat
      PROVE  Max({a, b}) \in Nat /\ a <= Max({a, b}) /\ b <= Max({a, b})
  <2>1. \E x \in {a, b} : \A y \in {a, b} : x >= y
    OBVIOUS
  <2>2. Max({a, b}) \in {a, b} /\ \A y \in {a, b} : Max({a, b}) >= y
    BY <2>1 DEF Max
  <2> HIDE DEF Max
  <2> QED
    BY <2>2
<1>2. ASSUME NEW a \in Nat, NEW b \in Nat, NEW c \in Nat
      PROVE  Max({a, b, c}) \in Nat
  <2>1. \E x \in {a, b, c} : \A y \in {a, b, c} : x >= y
    OBVIOUS
  <2>2. Max({a, b, c}) \in {a, b, c}
    BY <2>1 DEF Max
  <2> QED
    BY <2>2
<1> QED
  BY <1>1, <1>2

\* What TypeOK says beyond ControlInv and RowInv.
Settings ==
    /\ plan \in {"draft", "complete", "abandoned"}
    /\ pool \in {"idle", "starting", "looping", "closing", "done"}
    /\ seen \in [Task -> Nat]
    /\ want \in [Task -> Nat]
    /\ depth \in [Task -> Nat]
    /\ directive \in {"running", "blocked"}
    /\ cap \in Nat
    /\ aborted \in BOOLEAN
    /\ expired \in BOOLEAN
    /\ operator \in 0..MaxOperator
    /\ sessions \in 0..MaxSessions
    /\ peak \in Nat

LEMMA SettingsAreTypes == ControlInv /\ RowInv /\ Settings <=> ControlInv /\ RowInv /\ TypeOK
BY DEF ControlInv, RowInv, Settings, TypeOK

LEMMA UsedIsNat ==
    ASSUME RowInv
    PROVE  Used \in Nat /\ Used = Sum(turns)
<1>1. Used = Sum(turns)
  BY DEF Used, Sum
<1>2. turns \in [Task -> Nat] /\ \A t \in Task : turns[t] <= turns[t]
  BY DEF RowInv
<1>3. Sum(turns) \in Nat
  BY <1>2, SumMonotone
<1> QED
  BY <1>1, <1>3

LEMMA CapIsNat ==
    ASSUME Settings
    PROVE  EffectiveCap \in Nat
BY LargestOf, PoolAssumption DEF EffectiveCap, Settings

LEMMA HeadroomIsNat ==
    ASSUME RowInv, Settings, ~OutOfTurns
    PROVE  Headroom \in Nat /\ Used + Headroom = EffectiveCap
BY UsedIsNat, CapIsNat DEF OutOfTurns, Headroom

LEMMA TaskStepSettings ==
    ASSUME RowInv, Settings, NEW t \in Task, TaskStep(t)
    PROVE  Settings'
<1>1. CASE Register(t)
  BY <1>1 DEF Register, Settings, files, attempt, outside
<1>2. CASE Refuse(t)
  BY <1>2 DEF Refuse, Settings, files, attempt, outside
<1>3. CASE Launch(t)
  <2>1. EffectiveCap \in Nat /\ Max({peak, EffectiveCap}) \in Nat
    BY CapIsNat, LargestOf DEF Settings
  <2>2. (IF t \in Metered THEN Headroom ELSE 0) \in Nat
    BY <1>3, HeadroomIsNat DEF Launch
  <2>3. /\ seen' \in [Task -> Nat] /\ want' \in [Task -> Nat] /\ peak' \in Nat
    BY <1>3, <2>1, <2>2 DEF Launch, Settings
  <2> QED
    BY <1>3, <2>3 DEF Launch, Settings, files, outside
<1>4. CASE Park(t)
  BY <1>4 DEF Park, Settings, files, attempt, outside
<1>5. CASE RaiseBegin(t)
  <2>1. EffectiveCap + Default \in Nat
    BY CapIsNat, PoolAssumption
  <2>2. want' \in [Task -> Nat]
    BY <1>5, <2>1 DEF RaiseBegin, Settings
  <2> QED
    BY <1>5, <2>2 DEF RaiseBegin, Settings, files, outside
<1>6. CASE RaiseEnd(t)
  <2>1. depth' \in [Task -> Nat] /\ cap' \in Nat
    BY <1>6 DEF RaiseEnd, Deeper, Settings
  <2> QED
    BY <1>6, <2>1 DEF RaiseEnd, Settings, outside
<1>7. CASE Chunk(t)
  BY <1>7 DEF Chunk, Settings, files, outside
<1>8. CASE WorkerEnds(t)
  BY <1>8 DEF WorkerEnds, Settings, files, attempt, outside
<1>9. CASE TaskThrows(t)
  BY <1>9 DEF TaskThrows, Settings, files, attempt, outside
<1> QED
  BY <1>1, <1>2, <1>3, <1>4, <1>5, <1>6, <1>7, <1>8, <1>9 DEF TaskStep, Execute

LEMMA OtherSettings ==
    ASSUME Settings, Start \/ Loop \/ Outside \/ UNCHANGED vars
    PROVE  Settings'
<1>1. ASSUME NEW taken \in SUBSET Task, Iterate(taken) PROVE Settings'
  <2>1. PICK skip \in SUBSET Pending : \E launch \in SUBSET (Pending \ skip) :
           Step(taken, skip, launch)
    BY <1>1 DEF Iterate
  <2>2. PICK launch \in SUBSET (Pending \ skip) : Step(taken, skip, launch)
    BY <2>1
  <2>3. depth' \in [Task -> Nat]
    BY <2>2 DEF Step, Settings
  <2>4. pool' \in {"looping", "closing"} /\ directive' \in {"running", "blocked"}
    BY <2>2 DEF Step, Settings
  <2> QED
    BY <2>2, <2>3, <2>4 DEF Step, Settings, files, outside
<1>2. CASE First
  BY <1>1, <1>2 DEF First
<1>3. ASSUME NEW t \in Task, Take(t) PROVE Settings'
  BY <1>1, <1>3 DEF Take
<1>4. CASE Start
  BY <1>4, PoolAssumption DEF Start, Settings, files, attempt
<1>5. CASE Persist
  BY <1>5 DEF Persist, Settings, attempt, outside
<1>6. CASE Abort \/ Expire
  BY <1>6 DEF Abort, Expire, Settings, files, attempt
<1>7. CASE RaiseCap
  <2>1. cap' \in Nat
    BY <1>7, CapIsNat, PoolAssumption DEF RaiseCap
  <2> QED
    BY <1>7, <2>1, PoolAssumption DEF RaiseCap, Settings, attempt
<1>8. ASSUME NEW t \in Task, Retry(t) PROVE Settings'
  BY <1>8, PoolAssumption DEF Retry, Settings, files, attempt
<1>9. CASE Crash
  BY <1>9 DEF Crash, Settings, files
<1>10. CASE UNCHANGED vars
  BY <1>10 DEF vars, Settings, files, attempt, outside
<1> QED
  BY <1>2, <1>3, <1>4, <1>5, <1>6, <1>7, <1>8, <1>9, <1>10 DEF Loop, Outside

LEMMA SettingsInvariant == Spec => []Settings
<1>1. Init => Settings
  <2>1. 0 \in 0..MaxOperator /\ 0 \in 0..MaxSessions /\ Default \in Nat
    BY PoolAssumption
  <2> SUFFICES ASSUME Init PROVE Settings
    OBVIOUS
  <2>2. seen \in [Task -> Nat] /\ want \in [Task -> Nat] /\ depth \in [Task -> Nat]
    BY DEF Init
  <2>3. cap \in Nat /\ operator \in 0..MaxOperator /\ sessions \in 0..MaxSessions
        /\ peak \in Nat
    BY <2>1 DEF Init
  <2> QED
    BY <2>2, <2>3 DEF Init, Settings
<1>2. RowInv /\ Settings /\ [Next]_vars => Settings'
  BY TaskStepSettings, OtherSettings DEF Next, TaskStep
<1> QED
  BY <1>1, <1>2, RowInvariant, PTL DEF Spec

\* The counters and the caps are numbers: a worker never starts with a
\* negative number of turns, for it starts only with turns left (pool.ts:658).
THEOREM TypesKept == Spec => []TypeOK
BY SettingsInvariant, ControlInvariant, RowInvariant, SettingsAreTypes, PTL

-----------------------------------------------------------------------------
(* The overdraft.  Turns on record are not the whole of it: a worker may    *)
(* still add all that it was given.  What is bounded is the load, the       *)
(* turns on record and the grants of the tasks at work together.            *)

Working == {t \in Task : phase[t] = "working"}
Granted == [t \in Task |-> IF phase[t] = "working" THEN want[t] ELSE 0]
Load == [t \in Task |-> turns[t] + Granted[t]]

GrantInv == \A t \in Working : spent[t] <= want[t] /\ want[t] <= peak
LoadInv == Sum(Load) <= Concurrency * peak

LEMMA Scales ==
    ASSUME NEW c \in Nat, NEW p \in Nat, NEW q \in Nat, p <= q
    PROVE  c * p \in Nat /\ c * q \in Nat /\ c * p <= c * q
OBVIOUS

LEMMA OneMore ==
    ASSUME NEW n \in Nat, NEW c \in Nat, NEW p \in Nat, n + 1 <= c
    PROVE  n * p + p <= c * p /\ n * p \in Nat /\ c * p \in Nat
<1>1. (n + 1) * p = n * p + p /\ n * p \in Nat
  OBVIOUS
<1>2. c * p \in Nat /\ p * (n + 1) <= p * c
  BY Scales
<1>3. p * (n + 1) = (n + 1) * p /\ p * c = c * p
  OBVIOUS
<1> QED
  BY <1>1, <1>2, <1>3

\* A step that adds to no task's load, under a peak that never falls.
LEMMA LoadFalls ==
    ASSUME RowInv, Settings, RowInv', Settings', LoadInv,
           \A t \in Task : Load'[t] <= Load[t], peak <= peak'
    PROVE  LoadInv'
<1>1. Load \in [Task -> Nat] /\ Load' \in [Task -> Nat]
  BY DEF RowInv, Settings, Granted, Load
<1>2. Sum(Load') <= Sum(Load) /\ Sum(Load) \in Nat /\ Sum(Load') \in Nat
  BY <1>1, SumMonotone
<1>3. Concurrency * peak <= Concurrency * peak'
      /\ Concurrency * peak \in Nat /\ Concurrency * peak' \in Nat
  BY Scales, PoolAssumption DEF Settings
<1> QED
  BY <1>2, <1>3 DEF LoadInv

\* A metered task starts: it is given what the turns on record leave of the
\* cap, and the others at work were each given no more than the peak.
LEMMA LaunchLoad ==
    ASSUME ControlInv, RowInv, Settings, RowInv', Settings', ConcurrencyBound,
           GrantInv, LoadInv, NEW t \in Task, Launch(t), t \in Metered
    PROVE  LoadInv'
<1> DEFINE grant == [u \in Task |-> IF u = t THEN Headroom ELSE 0]
<1>1. Headroom \in Nat /\ Used + Headroom = EffectiveCap
  BY HeadroomIsNat DEF Launch
<1>2. phase[t] = "checking" /\ phase' = [phase EXCEPT ![t] = "working"]
      /\ want' = [want EXCEPT ![t] = Headroom] /\ turns' = turns
  BY DEF Launch, rows
<1>3. phase \in [Task -> Phase] /\ want \in [Task -> Nat] /\ turns \in [Task -> Nat]
  BY DEF ControlInv, Settings, RowInv
<1>4. peak \in Nat /\ EffectiveCap \in Nat
      /\ peak' \in Nat /\ peak <= peak' /\ EffectiveCap <= peak'
  BY CapIsNat, LargestOf DEF Settings, Launch
<1>5. Granted \in [Task -> Nat] /\ Granted' \in [Task -> Nat] /\ Load' \in [Task -> Nat]
  BY DEF RowInv, Settings, Granted, Load
<1>6. grant \in [Task -> Nat]
  BY <1>1
<1>7. Sum(Granted') = Sum(Granted) + Sum(grant)
  <2>1. \A u \in Task : Granted'[u] = Granted[u] + grant[u]
    <3> TAKE u \in Task
    <3>1. Granted[u] \in Nat
      BY <1>5
    <3>2. CASE u = t
      BY <1>1, <1>2, <1>3, <3>2 DEF Granted
    <3>3. CASE u # t
      <4>1. Granted'[u] = Granted[u] /\ grant[u] = 0
        BY <1>2, <1>3, <3>3 DEF Granted
      <4> QED
        BY <3>1, <4>1
    <3> QED
      BY <3>2, <3>3
  <2> HIDE DEF grant
  <2> QED
    BY <1>5, <1>6, <2>1, SumAdds
<1>8. Sum(Load') = Sum(turns) + Sum(Granted')
  <2>1. \A u \in Task : Load'[u] = turns[u] + Granted'[u]
    BY <1>2 DEF Load
  <2> QED
    BY <1>3, <1>5, <2>1, SumAdds
<1>9. Sum(grant) \in Nat /\ Sum(grant) <= Headroom
  <2>1. \A u \in {t} : grant[u] <= Headroom
    BY <1>1
  <2>2. \A u \in Task \ {t} : grant[u] = 0
    OBVIOUS
  <2>3. Cardinality({t}) = 1
    BY FS_Singleton
  <2> HIDE DEF grant
  <2>4. Sum(grant) \in Nat /\ Sum(grant) <= Cardinality({t}) * Headroom
    BY <1>1, <1>6, <2>1, <2>2, SumBounded
  <2> QED
    BY <1>1, <2>3, <2>4
<1>10. Sum(Granted) \in Nat /\ Sum(Granted) <= Cardinality(Working) * peak'
  <2>1. \A u \in Working : Granted[u] <= peak'
    <3> TAKE u \in Working
    <3>1. u \in Task /\ Granted[u] = want[u] /\ want[u] \in Nat /\ want[u] <= peak
      BY <1>3 DEF Working, Granted, GrantInv
    <3> QED
      BY <1>4, <3>1
  <2>2. \A u \in Task \ Working : Granted[u] = 0
    BY DEF Working, Granted
  <2>3. Working \in SUBSET Task
    BY DEF Working
  <2> QED
    BY <1>4, <1>5, <2>1, <2>2, <2>3, SumBounded
<1>11. Cardinality(Working) \in Nat /\ Cardinality(Working) + 1 <= Concurrency
  <2>1. Working \in SUBSET Task /\ Running \in SUBSET Task
        /\ Working \in SUBSET (Running \ {t}) /\ t \in Running
    BY <1>2 DEF Working, Running
  <2>2. IsFiniteSet(Running) /\ Cardinality(Running) \in Nat
        /\ Cardinality(Working) \in Nat
    BY <2>1, TaskFinite
  <2>3. IsFiniteSet(Running \ {t})
        /\ Cardinality(Running \ {t}) = Cardinality(Running) - 1
    BY <2>1, <2>2, FS_RemoveElement
  <2>4. Cardinality(Working) <= Cardinality(Running \ {t})
    BY <2>1, <2>3, FS_Subset
  <2> QED
    BY <2>2, <2>3, <2>4, PoolAssumption DEF ConcurrencyBound
<1>12. Cardinality(Working) * peak' + peak' <= Concurrency * peak'
       /\ Cardinality(Working) * peak' \in Nat /\ Concurrency * peak' \in Nat
  <2> DEFINE n == Cardinality(Working)
  <2>1. n \in Nat /\ n + 1 \in Nat /\ n + 1 <= Concurrency
    BY <1>11
  <2> HIDE DEF n
  <2>2. n * peak' + peak' <= Concurrency * peak'
        /\ n * peak' \in Nat /\ Concurrency * peak' \in Nat
    BY <1>4, <2>1, OneMore, PoolAssumption
  <2> QED
    BY <2>2 DEF n
<1>13. Used = Sum(turns) /\ Used \in Nat
  BY UsedIsNat
<1> HIDE DEF grant
<1> DEFINE a == Sum(turns)  b == Sum(Granted)  c == Sum(grant)  h == Headroom
           m == Cardinality(Working) * peak'  e == EffectiveCap
<1>14. Sum(Load') = a + (b + c)
  BY <1>7, <1>8
<1>15. /\ a \in Nat /\ b \in Nat /\ c \in Nat /\ h \in Nat /\ m \in Nat /\ e \in Nat
       /\ a + h = e /\ c <= h /\ b <= m /\ e <= peak' /\ peak' \in Nat
       /\ m + peak' <= Concurrency * peak' /\ Concurrency * peak' \in Nat
  BY <1>1, <1>4, <1>9, <1>10, <1>12, <1>13
<1> HIDE DEF a, b, c, h, m, e
<1>16. a + (b + c) <= Concurrency * peak'
  BY <1>15
<1> QED
  BY <1>14, <1>16 DEF LoadInv

LEMMA TaskStepPeak ==
    ASSUME Settings, NEW t \in Task, TaskStep(t)
    PROVE  peak <= peak'
<1>1. peak \in Nat
  BY DEF Settings
<1>2. CASE Launch(t)
  BY <1>1, <1>2, CapIsNat, LargestOf DEF Launch
<1>3. CASE ~Launch(t)
  <2>1. peak' = peak
    BY <1>3 DEF TaskStep, Execute, Register, Refuse, Park, RaiseBegin, RaiseEnd, Chunk,
                WorkerEnds, TaskThrows
  <2> QED
    BY <1>1, <2>1
<1> QED
  BY <1>2, <1>3

\* A worker takes no more turns than it was given.
LEMMA TaskStepGrants ==
    ASSUME ControlInv, RowInv, Settings, RowInv', Settings', GrantInv,
           NEW t \in Task, TaskStep(t)
    PROVE  GrantInv'
<1> SUFFICES ASSUME NEW u \in Task, phase'[u] = "working"
             PROVE  spent'[u] <= want'[u] /\ want'[u] <= peak'
  BY DEF GrantInv, Working
<1>1. /\ phase \in [Task -> Phase] /\ want \in [Task -> Nat] /\ spent \in [Task -> Nat]
      /\ peak \in Nat /\ peak' \in Nat /\ peak <= peak'
  BY TaskStepPeak DEF ControlInv, RowInv, Settings
<1>2. CASE u # t
  <2>1. phase'[u] = phase[u]
    BY <1>1, <1>2, TaskStepEffect
  <2>2. want'[u] = want[u] /\ spent'[u] = spent[u]
    BY <1>1, <1>2 DEF TaskStep, Execute, Register, Refuse, Launch, Park, RaiseBegin,
                      RaiseEnd, Chunk, WorkerEnds, TaskThrows, attempt
  <2>3. spent[u] <= want[u] /\ want[u] <= peak
    BY <2>1 DEF GrantInv, Working
  <2>4. want[u] \in Nat
    BY <1>1
  <2> QED
    BY <1>1, <2>2, <2>3, <2>4
<1>3. CASE u = t /\ Launch(t)
  <2>1. /\ spent'[t] = 0 /\ want'[t] = IF t \in Metered THEN Headroom ELSE 0
        /\ peak' = Max({peak, EffectiveCap})
    BY <1>1, <1>3 DEF Launch
  <2>2. EffectiveCap \in Nat /\ EffectiveCap <= peak'
    BY <1>1, <2>1, CapIsNat, LargestOf
  <2>3. CASE t \in Metered
    <3>1. Headroom \in Nat /\ Used \in Nat /\ Used + Headroom = EffectiveCap
      BY <1>3, <2>3, HeadroomIsNat, UsedIsNat DEF Launch
    <3> QED
      BY <1>1, <1>3, <2>1, <2>2, <2>3, <3>1
  <2>4. CASE t \notin Metered
    BY <1>1, <1>3, <2>1, <2>4
  <2> QED
    BY <2>3, <2>4
<1>4. CASE u = t /\ Chunk(t)
  <2>1. phase[t] = "working" /\ spent[t] < want[t] /\ spent'[t] = spent[t] + 1
        /\ want' = want /\ peak' = peak
    BY <1>1, <1>4 DEF Chunk
  <2>2. want[t] <= peak
    BY <2>1 DEF GrantInv, Working
  <2>3. want[t] \in Nat /\ spent[t] \in Nat
    BY <1>1
  <2> QED
    BY <1>4, <2>1, <2>2, <2>3
<1>5. CASE u = t /\ ~Launch(t) /\ ~Chunk(t)
  <2>1. phase'[t] # "working"
    BY <1>1, <1>5 DEF TaskStep, Execute, Register, Refuse, Park, RaiseBegin, RaiseEnd,
                      WorkerEnds, TaskThrows, Resolve
  <2> QED
    BY <1>5, <2>1
<1> QED
  BY <1>2, <1>3, <1>4, <1>5

\* A step of a task that gives nothing lets its load fall, for the turns that
\* are written down were a part of the grant.
LEMMA TaskStepFalls ==
    ASSUME ControlInv, RowInv, Settings, RowInv', Settings', GrantInv,
           NEW t \in Task, TaskStep(t), ~(Launch(t) /\ t \in Metered)
    PROVE  \A u \in Task : Load'[u] <= Load[u]
<1> SUFFICES ASSUME NEW u \in Task PROVE Load'[u] <= Load[u]
  OBVIOUS
<1>1. /\ phase \in [Task -> Phase] /\ want \in [Task -> Nat] /\ spent \in [Task -> Nat]
      /\ turns \in [Task -> Nat] /\ want' \in [Task -> Nat] /\ turns' \in [Task -> Nat]
  BY DEF ControlInv, RowInv, Settings
<1>2. /\ Load[u] = turns[u] + (IF phase[u] = "working" THEN want[u] ELSE 0)
      /\ Load'[u] = turns'[u] + (IF phase'[u] = "working" THEN want'[u] ELSE 0)
  BY DEF Load, Granted
<1>3. /\ turns[u] \in Nat /\ want[u] \in Nat /\ turns'[u] \in Nat /\ want'[u] \in Nat
      /\ spent[u] \in Nat
  BY <1>1
<1>4. CASE u # t
  <2>1. phase'[u] = phase[u]
    BY <1>1, <1>4, TaskStepEffect
  <2>2. want'[u] = want[u] /\ turns'[u] = turns[u]
    BY <1>1, <1>4 DEF TaskStep, Execute, Register, Refuse, Launch, Park, RaiseBegin,
                      RaiseEnd, Chunk, WorkerEnds, TaskThrows, attempt, rows, WriteRow
  <2> QED
    BY <1>2, <1>3, <2>1, <2>2
<1>5. CASE u = t /\ (Register(t) \/ Refuse(t) \/ Park(t) \/ RaiseEnd(t) \/ TaskThrows(t))
  <2>1. phase'[t] # "working"
    BY <1>1, <1>5 DEF Register, Refuse, Park, RaiseEnd, TaskThrows, Resolve
  <2>2. turns'[t] = 0 \/ turns'[t] = turns[t]
    BY <1>1, <1>5 DEF Register, Refuse, Park, RaiseEnd, TaskThrows, WriteRow, rows
  <2> QED
    BY <1>2, <1>3, <1>5, <2>1, <2>2
<1>6. CASE u = t /\ Launch(t)
  <2>1. want'[t] = 0 /\ turns'[t] = turns[t]
    BY <1>1, <1>6 DEF Launch, rows
  <2> QED
    BY <1>2, <1>3, <1>6, <2>1
<1>7. CASE u = t /\ RaiseBegin(t)
  <2>1. phase'[t] = "raising" /\ turns'[t] = turns[t]
    BY <1>1, <1>7 DEF RaiseBegin, rows
  <2> QED
    BY <1>2, <1>3, <1>7, <2>1
<1>8. CASE u = t /\ Chunk(t)
  <2>1. phase[t] = "working" /\ want'[t] = want[t]
    BY <1>8 DEF Chunk
  <2>2. \/ phase'[t] = phase[t] /\ turns'[t] = turns[t]
        \/ phase'[t] = "done" /\ turns'[t] = 0
    BY <1>1, <1>8 DEF Chunk, Resolve, WriteRow, rows
  <2> QED
    BY <1>2, <1>3, <1>8, <2>1, <2>2
<1>9. CASE u = t /\ WorkerEnds(t)
  <2>1. phase[t] = "working" /\ phase'[t] = "done"
        /\ (turns'[t] = 0 \/ turns'[t] = spent[t])
    BY <1>1, <1>9 DEF WorkerEnds, Resolve, WriteRow
  <2>2. spent[t] <= want[t]
    BY <2>1 DEF GrantInv, Working
  <2> QED
    BY <1>2, <1>3, <1>9, <2>1, <2>2
<1> QED
  BY <1>4, <1>5, <1>6, <1>7, <1>8, <1>9 DEF TaskStep, Execute

\* All other steps leave the workers and their grants alone, or stop them.
LEMMA OtherFalls ==
    ASSUME ControlInv, RowInv, Settings, RowInv', Settings', GrantInv,
           Start \/ Loop \/ Outside \/ UNCHANGED vars
    PROVE  /\ GrantInv' /\ peak <= peak'
           /\ \A t \in Task : Load'[t] <= Load[t]
<1>1. /\ phase \in [Task -> Phase] /\ want \in [Task -> Nat] /\ spent \in [Task -> Nat]
      /\ turns \in [Task -> Nat] /\ want' \in [Task -> Nat] /\ turns' \in [Task -> Nat]
      /\ peak \in Nat
  BY DEF ControlInv, RowInv, Settings
<1>2. peak' = peak
  BY DEF Start, Loop, First, Take, Iterate, Step, Persist, Outside, Abort, Expire, RaiseCap,
         Retry, Crash, vars
<1>3. \A t \in Task : turns'[t] = turns[t] \/ turns'[t] = 0
  BY <1>1 DEF Start, Loop, First, Take, Iterate, Step, Persist, Outside, Abort, Expire,
              RaiseCap, Retry, Crash, vars, rows, WriteRow
<1>4. ASSUME NEW t \in Task, phase'[t] = "working"
      PROVE  phase[t] = "working" /\ want'[t] = want[t] /\ spent'[t] = spent[t]
  <2>1. ASSUME NEW taken \in SUBSET Task, Iterate(taken)
        PROVE  phase[t] = "working" /\ want'[t] = want[t] /\ spent'[t] = spent[t]
    <3>1. PICK skip \in SUBSET Pending : \E launch \in SUBSET (Pending \ skip) :
             Step(taken, skip, launch)
      BY <2>1 DEF Iterate
    <3>2. PICK launch \in SUBSET (Pending \ skip) : Step(taken, skip, launch)
      BY <3>1
    <3> QED
      BY <1>4, <3>2 DEF Step
  <2>2. CASE First
    BY <2>1, <2>2 DEF First
  <2>3. ASSUME NEW u \in Task, Take(u)
        PROVE  phase[t] = "working" /\ want'[t] = want[t] /\ spent'[t] = spent[t]
    BY <2>1, <2>3 DEF Take
  <2>4. CASE Start \/ Persist \/ Abort \/ Expire \/ RaiseCap
               \/ (\E u \in Task : Retry(u)) \/ UNCHANGED vars
    BY <1>4, <2>4 DEF Start, Persist, Abort, Expire, RaiseCap, Retry, vars, attempt
  <2>5. ~Crash
    BY <1>4 DEF Crash
  <2> QED
    BY <2>2, <2>3, <2>4, <2>5 DEF Loop, Outside
<1>5. GrantInv'
  <2> SUFFICES ASSUME NEW t \in Task, phase'[t] = "working"
               PROVE  spent'[t] <= want'[t] /\ want'[t] <= peak'
    BY DEF GrantInv, Working
  <2> QED
    BY <1>2, <1>4 DEF GrantInv, Working
<1>6. ASSUME NEW t \in Task PROVE Load'[t] <= Load[t]
  <2>1. /\ Load[t] = turns[t] + (IF phase[t] = "working" THEN want[t] ELSE 0)
        /\ Load'[t] = turns'[t] + (IF phase'[t] = "working" THEN want'[t] ELSE 0)
    BY DEF Load, Granted
  <2>2. turns[t] \in Nat /\ want[t] \in Nat /\ want'[t] \in Nat
    BY <1>1
  <2>3. phase'[t] = "working" => phase[t] = "working" /\ want'[t] = want[t]
    BY <1>4
  <2>4. turns'[t] = turns[t] \/ turns'[t] = 0
    BY <1>3
  <2> QED
    BY <2>1, <2>2, <2>3, <2>4
<1> QED
  BY <1>1, <1>2, <1>5, <1>6

TurnsInv == GrantInv /\ LoadInv

LEMMA TurnsStep ==
    ASSUME ControlInv, RowInv, Settings, RowInv', Settings', ConcurrencyBound,
           TurnsInv, [Next]_vars
    PROVE  TurnsInv'
<1>1. ASSUME NEW t \in Task, TaskStep(t) PROVE TurnsInv'
  <2>1. GrantInv'
    BY <1>1, TaskStepGrants DEF TurnsInv
  <2>2. CASE Launch(t) /\ t \in Metered
    BY <2>1, <2>2, LaunchLoad DEF TurnsInv
  <2>3. CASE ~(Launch(t) /\ t \in Metered)
    <3>1. \A u \in Task : Load'[u] <= Load[u]
      BY <1>1, <2>3, TaskStepFalls DEF TurnsInv
    <3>2. peak <= peak'
      BY <1>1, TaskStepPeak
    <3> QED
      BY <2>1, <3>1, <3>2, LoadFalls DEF TurnsInv
  <2> QED
    BY <2>2, <2>3
<1>2. CASE Start \/ Loop \/ Outside \/ UNCHANGED vars
  BY <1>2, OtherFalls, LoadFalls DEF TurnsInv
<1> QED
  BY <1>1, <1>2 DEF Next, TaskStep

LEMMA TurnsInvariant == Spec => []TurnsInv
<1>1. Init => TurnsInv
  <2> SUFFICES ASSUME Init PROVE TurnsInv
    OBVIOUS
  <2>1. GrantInv
    BY DEF Init, GrantInv, Working
  <2>2. Load \in [Task -> Nat] /\ \A t \in Task : Load[t] = 0
    BY DEF Init, Load, Granted
  <2>3. Sum(Load) \in Nat /\ Sum(Load) <= Cardinality({}) * 0
    <3>1. {} \in SUBSET Task /\ 0 \in Nat
      OBVIOUS
    <3> HIDE DEF Load
    <3> QED
      BY <2>2, <3>1, SumBounded
  <2>4. Cardinality({}) = 0 /\ Concurrency * 0 = 0
    BY FS_EmptySet, PoolAssumption
  <2>5. peak = 0
    BY DEF Init
  <2> QED
    BY <2>1, <2>3, <2>4, <2>5 DEF TurnsInv, LoadInv
<1>2. /\ ControlInv /\ RowInv /\ Settings /\ RowInv' /\ Settings'
      /\ ConcurrencyBound /\ TurnsInv /\ [Next]_vars
      => TurnsInv'
  BY TurnsStep
<1> QED
  BY <1>1, <1>2, ControlInvariant, RowInvariant, SettingsInvariant, ConcurrencyBounded, PTL
     DEF Spec

\* pool.ts:655 and :758: the guard of the pool counts the turns of finished attempts
\* only, and each task may use all that they left, so tasks that run at once
\* overdraw it, but by no more than a whole cap for each of them, whatever is
\* retried, raised, parked or crashes between.
THEOREM OverdrawBounded == Spec => []OverdrawBound
<1>1. RowInv /\ Settings /\ LoadInv => OverdrawBound
  <2> SUFFICES ASSUME RowInv, Settings, LoadInv PROVE OverdrawBound
    OBVIOUS
  <2>1. turns \in [Task -> Nat] /\ Load \in [Task -> Nat]
    BY DEF RowInv, Settings, Load, Granted
  <2>2. \A t \in Task : turns[t] <= Load[t]
    <3> TAKE t \in Task
    <3>1. turns[t] \in Nat /\ Granted[t] \in Nat /\ Load[t] = turns[t] + Granted[t]
      BY DEF RowInv, Settings, Granted, Load
    <3> QED
      BY <3>1
  <2>3. Sum(turns) <= Sum(Load) /\ Sum(turns) \in Nat /\ Sum(Load) \in Nat
    BY <2>1, <2>2, SumMonotone
  <2>4. Concurrency * peak \in Nat
    BY PoolAssumption DEF Settings
  <2> QED
    BY <2>3, <2>4, UsedIsNat DEF LoadInv, OverdrawBound
<1> QED
  BY <1>1, TurnsInvariant, RowInvariant, SettingsInvariant, PTL DEF TurnsInv
=============================================================================
