----------------------------- MODULE PlanGraph -----------------------------
(***************************************************************************)
(* From the planner's answer to the order in which the pool looks at the   *)
(* tasks: materialisePlannerTasks (brain/src/planner.ts) serialises tasks  *)
(* that write the same file and appends the coherence reviewer; the loop   *)
(* puts a migration task at the head of an old project's plan; and         *)
(* topoSortTasks (brain/src/pool.ts) sorts the tasks depth first.          *)
(*                                                                         *)
(* The answer is a model's: any graph may come out of it, cycles too.  The *)
(* migration task is 0, the raw tasks are 1..NumRaw in the answer's order, *)
(* the reviewer is NumRaw + 1.                                             *)
(***************************************************************************)
EXTENDS Integers, Sequences

CONSTANTS NumRaw,   \* tasks in the planner's answer
          File      \* the files they may declare, after normalizeFilePath

ASSUME PlanAssumption == NumRaw \in Nat \ {0}

Raw == 1..NumRaw
Migration == 0
Reviewer == NumRaw + 1
Node == 0..(NumRaw + 1)
Unknown == NumRaw + 2       \* an index out of range

VARIABLES
    answer,     \* dependsOn of the planner's answer
    writes,     \* expectedOutputs.files of the answer
    reviewed,   \* the answer holds a coherence-reviewer of its own
    legacy,     \* docs/knowledge exists without _schema.md
    stage,      \* "answer", "draft", "sorting", "sorted" or "thrown"
    tasks,      \* tasks of the plan
    deps,       \* dependsOn of the plan
    stack,      \* the calls of `visit`: a task and the dependencies to go
    visited,    \* topoSortTasks' `visited`
    order       \* its result

input == <<answer, writes, reviewed, legacy>>
vars == <<input, stage, tasks, deps, stack, visited, order>>

\* A call of `visit`: a task, and its dependencies to go.
Frame == [task : Node, todo : SUBSET Node]

TypeOK ==
    /\ answer \in [Raw -> SUBSET (Raw \cup {Unknown})]
    /\ writes \in [Raw -> SUBSET File]
    /\ reviewed \in BOOLEAN
    /\ legacy \in BOOLEAN
    /\ stage \in {"answer", "draft", "sorting", "sorted", "thrown"}
    /\ tasks \in SUBSET Node
    /\ deps \in [Node -> SUBSET Node]
    /\ stack \in Seq(Frame)
    /\ visited \in SUBSET Node
    /\ order \in Seq(Node)

-----------------------------------------------------------------------------
\* The first pass drops the task itself and the indexes it does not know.
raw == [i \in Raw |-> (answer[i] \cap Raw) \ {i}]

\* Following g from i, in any number of steps, one gets to j.
Reaches(g, i, j) ==
    \A S \in SUBSET DOMAIN g :
        i \in S /\ (\A u \in S : g[u] \subseteq S) => j \in S

\* `firstWriter`: w is the task that claims f first.
FirstWriter(w, f) == f \in writes[w] /\ \A v \in Raw : f \in writes[v] => w <= v

\* The synthetic dependencies of task i.  `reachable` looks at the answer's
\* own dependencies, not at those the pass has added.
Synthetic(i) ==
    {w \in Raw : (\E f \in writes[i] : FirstWriter(w, f)) /\ ~Reaches(raw, i, w)}

Init ==
    /\ answer \in [Raw -> SUBSET (Raw \cup {Unknown})]
    /\ writes \in [Raw -> SUBSET File]
    /\ reviewed \in BOOLEAN
    /\ legacy \in BOOLEAN
    /\ stage = "answer"
    /\ tasks = {}
    /\ deps = [t \in Node |-> {}]
    /\ stack = << >>
    /\ visited = {}
    /\ order = << >>

-----------------------------------------------------------------------------
\* materialisePlannerTasks.
Materialise ==
    /\ stage = "answer"
    /\ stage' = "draft"
    /\ tasks' = Raw \cup (IF reviewed THEN {} ELSE {Reviewer})
    /\ deps' = [t \in Node |->
                   CASE t \in Raw -> raw[t] \cup Synthetic(t)
                     [] t = Reviewer /\ ~reviewed -> Raw
                     [] OTHER -> {}]
    /\ UNCHANGED <<input, stack, visited, order>>

\* The loop, on a draft plan: every task waits for the migration.
Migrate ==
    /\ stage = "draft"
    /\ stage' = "sorting"
    /\ tasks' = IF legacy THEN tasks \cup {Migration} ELSE tasks
    /\ deps' = [t \in Node |-> IF legacy /\ t \in tasks
                               THEN deps[t] \cup {Migration} ELSE deps[t]]
    /\ UNCHANGED <<input, stack, visited, order>>

-----------------------------------------------------------------------------
(* topoSortTasks: `visit` calls itself for each dependency.  `temp` is the *)
(* set of the tasks on the call stack, whose last element is the current   *)
(* call.  The dependencies of a call are taken in any order.               *)
Top == stack[Len(stack)]
Temp == {stack[i].task : i \in 1..Len(stack)}
Call(t) == [task |-> t, todo |-> deps[t]]
Rest(d) == [stack EXCEPT ![Len(stack)].todo = @ \ {d}]

\* The outer loop calls `visit` on the next task of the list.
Visit(t) ==
    /\ stage = "sorting"
    /\ stack = << >>
    /\ t \in tasks \ visited
    /\ \A u \in tasks \ visited : t <= u
    /\ stack' = <<Call(t)>>
    /\ UNCHANGED <<input, stage, tasks, deps, visited, order>>

DescendUnchecked(d) ==
    /\ stage = "sorting"
    /\ stack # << >>
    /\ d \in Top.todo
    /\ stack' = IF d \in visited \cup Temp THEN Rest(d) ELSE Append(Rest(d), Call(d))
    /\ UNCHANGED <<input, stage, tasks, deps, visited, order>>

DescendStuck(d) ==
    /\ stage = "sorting"
    /\ stack # << >>
    /\ d \in Top.todo
    /\ CASE d \in visited -> stage' = stage /\ stack' = stack
         [] d \in Temp \ visited -> stage' = "thrown" /\ stack' = << >>
         [] OTHER -> stage' = stage /\ stack' = Append(stack, Call(d))
    /\ UNCHANGED <<input, tasks, deps, visited, order>>

Descend(d) ==
    /\ stage = "sorting"
    /\ stack # << >>
    /\ d \in Top.todo
    /\ CASE d \in visited -> stage' = stage /\ stack' = Rest(d)
         [] d \in Temp \ visited -> stage' = "thrown" /\ stack' = << >>
         [] OTHER -> stage' = stage /\ stack' = Append(Rest(d), Call(d))
    /\ UNCHANGED <<input, tasks, deps, visited, order>>

\* All dependencies are visited: the call returns.
LeaveUnmarked ==
    /\ stage = "sorting"
    /\ stack # << >>
    /\ Top.todo = {}
    /\ order' = Append(order, Top.task)
    /\ stack' = SubSeq(stack, 1, Len(stack) - 1)
    /\ visited' = IF Len(stack) = 1 THEN visited \cup {Top.task} ELSE visited
    /\ UNCHANGED <<input, stage, tasks, deps>>

Leave ==
    /\ stage = "sorting"
    /\ stack # << >>
    /\ Top.todo = {}
    /\ order' = Append(order, Top.task)
    /\ stack' = SubSeq(stack, 1, Len(stack) - 1)
    /\ visited' = visited \cup {Top.task}
    /\ UNCHANGED <<input, stage, tasks, deps>>

Return ==
    /\ stage = "sorting"
    /\ stack = << >>
    /\ tasks \subseteq visited
    /\ stage' = "sorted"
    /\ UNCHANGED <<input, tasks, deps, stack, visited, order>>

Next ==
    \/ Materialise
    \/ Migrate
    \/ \E t \in Node : Visit(t) \/ Descend(t)
    \/ Leave
    \/ Return

Spec == Init /\ [][Next]_vars
FairSpec == Spec /\ WF_vars(Next)

-----------------------------------------------------------------------------
(* Properties that hold.                                                   *)

\* No task comes before one it depends on, and none comes twice.
SortedDepsFirst ==
    \A i \in 1..Len(order) :
        /\ \A j \in 1..(i - 1) : order[j] # order[i]
        /\ deps[order[i]] \subseteq {order[j] : j \in 1..(i - 1)}

Cyclic(g) == \E t \in DOMAIN g : \E u \in g[t] : Reaches(g, u, t)

\* The sort throws on a graph with a cycle and on no other.
SortIsExact ==
    /\ stage = "thrown" => Cyclic(deps)
    /\ stage = "sorted" => ~Cyclic(deps)

\* A sorted plan is the whole plan: no task is lost between the two.
NothingLost == stage = "sorted" => {order[i] : i \in 1..Len(order)} = tasks

(* An answer whose dependencies only point back, as the planner is asked   *)
(* to give it, is never refused: the tasks the program adds make no cycle. *)
Backward == \A t \in Raw : \A u \in raw[t] : u < t
BackwardSorts == Backward => stage # "thrown"

\* Every call of `visit` returns, cyclic graph or not.
SortEnds == <>(stage \in {"sorted", "thrown"})

-----------------------------------------------------------------------------
(* What the comments and documents say, and some behaviour of it violates. *)

\* planner.ts:97 "any two tasks writing to the same file are serialised", and
\* docs/decisions/0016:120 "File-ownership collisions become structurally
\* impossible".
SharedFilesSerialised ==
    stage = "sorted" =>
        \A t, u \in Raw : t # u /\ writes[t] \cap writes[u] # {} =>
            Reaches(deps, t, u) \/ Reaches(deps, u, t)
=============================================================================
