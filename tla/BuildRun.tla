------------------------------ MODULE BuildRun ------------------------------
(***************************************************************************)
(* The build pipeline of one project (brain/src/loop.ts runInline), over   *)
(* several runs of its directives: triage, the architect and the critic    *)
(* of the wiki, the checkpoints of an assisted directive, the planner, the *)
(* task pool, the assessor (module Assess), the fixer of an autonomous     *)
(* directive, the escalation and the final validation.  The wiki, the plan *)
(* and the assessor's environment are on disk and outlive a run; so do the *)
(* usage rows of a directive, by which every call is gated.                *)
(*                                                                         *)
(* What a model says, and an answer to a question, is a choice; an answer  *)
(* of None is a question cut short by the end of the process: no question  *)
(* of the pipeline has a deadline.  How a call fails is in module          *)
(* ModelCall, the final validation in module Coherence; the pool is one    *)
(* step here and a module of its own (TaskPool).                           *)
(***************************************************************************)
EXTENDS Assess, ModelCall, Coherence

CONSTANTS
    Autonomy,     \* the modes of the directives
    MaxSteps,     \* maxSteps of the directive, 0 for no ceiling
    MaxAttempts,  \* maxWikiReadinessAttempts, 0 for no ceiling
    Dollars,      \* whether the directive has a maxUsd
    PoolCalls,    \* bound: usage rows of one pool or fixer run
    MaxFindings,  \* bound: open auto-fixable findings
    MaxRuns       \* bound: runs

ASSUME BuildAssumption ==
    /\ {MaxSteps, MaxAttempts, PoolCalls, MaxFindings, MaxRuns} \subseteq Nat
    /\ Dollars \in BOOLEAN
    /\ Autonomy \subseteq {"autonomous", "assisted", "chat"}

VARIABLES
    phase,      \* where the run is, "off" between runs
    status,     \* directives.status: "none" before the first directive
    autonomy,   \* its mode
    rows,       \* its model_usage rows
    gated,      \* those of them that a pre-call check let through
    attempts,   \* of the architect, in this loop
    cap,        \* of attempts, 0 for none
    wiki,       \* docs/knowledge: "none", "draft" (pages nobody accepted) or "accepted"
    plan,       \* plan.json: "none", "draft", "abandoned" or "complete"
    failed,     \* a task of this run failed
    bad,        \* hadFailures
    tried,      \* fixer attempts so far, while fixers run
    left,       \* open auto-fixable findings, while fixers run
    escalated,  \* the operator was asked for help in this run
    runs        \* runs so far

loopVars == <<attempts, cap>>
runVars == <<failed, bad, tried, left, escalated>>
usage == <<rows, gated>>
buildVars == <<phase, status, autonomy, usage, loopVars, wiki, plan, runVars, runs>>
vars == <<assessVars, buildVars>>

Phase == {"off", "triage", "wiki", "architect", "writing", "critic", "ask", "drafted", "plan",
          "planned", "pool", "assess", "fixing", "escalate", "validate"}
Answer == {"continue", "abort", "extend-3", None}
MaxFixerAttempts == 3

TypeOK ==
    /\ AssessTypeOK
    /\ phase \in Phase
    /\ status \in {"none", "running", "complete", "blocked", "failed"}
    /\ autonomy \in Autonomy \cup {None}
    /\ rows \in Nat /\ gated \in 0..rows
    /\ attempts \in Nat /\ cap \in Nat
    /\ wiki \in {"none", "draft", "accepted"} /\ plan \in {"none", "draft", "abandoned", "complete"}
    /\ failed \in BOOLEAN /\ bad \in BOOLEAN /\ escalated \in BOOLEAN
    /\ tried \in 0..MaxFixerAttempts /\ left \in 0..MaxFindings /\ runs \in 0..MaxRuns

-----------------------------------------------------------------------------
(* Steps of a run.                                                         *)

At(p) == phase = p
Goto(p) == phase' = p /\ UNCHANGED status

\* The run ends and its directive's row says how.
End(s) == phase' = "off" /\ status' = s

\* A bug: the call that is about to be made is not counted.
BudgetedLate == MaxSteps = 0 \/ rows <= MaxSteps

\* assertBudget, by steps.
Budgeted == MaxSteps = 0 \/ rows + 1 <= MaxSteps

\* The estimate of a call, a mean of the last ones or a default, may at any time
\* exceed what is left of maxUsd.
OverUsd == Dollars

\* recordUsage: one row for a call that was answered.
Recorded == rows' = rows + 1 /\ gated' = gated + 1

\* The provider is resolved before the budget is looked at, and no call that
\* comes to nothing leaves a usage row.
CallFails ==
    /\ \E outcome \in Outcomes :
          \/ outcome = "unresolved" /\ End("failed")
          \/ outcome # "unresolved" /\ (~Budgeted \/ OverUsd) /\ End("blocked")
          \/ outcome = "failed" /\ Budgeted /\ End("failed")
    /\ UNCHANGED usage

CallSucceeds == "answered" \in Outcomes /\ Budgeted /\ Recorded

\* An answer without the JSON that was asked for is paid for.
Unusable == CallSucceeds /\ \E reply \in Replies : ~Usable(reply) /\ End("failed")

\* Task runs record usage, and nothing gates them.
Streams == \E n \in 0..PoolCalls : rows' = rows + n /\ UNCHANGED gated

\* The attempts project.json allows the architect, or the default's.
AttemptCap == MaxAttempts

Reset == /\ attempts' = 0 /\ cap' = AttemptCap
         /\ failed' = FALSE /\ bad' = FALSE /\ tried' = 0 /\ left' = 0 /\ escalated' = FALSE
         /\ at' = "idle" /\ lang' = None /\ python' = None /\ gate' = Unseen
         /\ UNCHANGED env

\* A directive is run again after a crash, an unparking or a task retry; a new
\* build, and a resume, is a new directive on the same project.
Begin ==
    /\ At("off") /\ runs < MaxRuns
    /\ \/ status \in {"running", "blocked"} /\ UNCHANGED <<autonomy, usage>>
       \/ /\ status # "running"
          /\ autonomy' \in Autonomy
          /\ rows' = 0 /\ gated' = 0
    /\ phase' = "triage" /\ status' = "running"
    /\ runs' = runs + 1
    /\ Reset
    /\ UNCHANGED <<wiki, plan>>

\* triageDirective: its answer is a note; one that cannot be read is "chat".
Triage ==
    /\ At("triage")
    /\ \/ CallFails
       \/ CallSucceeds /\ Goto("wiki")
    /\ UNCHANGED <<assessVars, autonomy, loopVars, wiki, plan, runVars, runs>>

AfterWiki == IF autonomy = "assisted" THEN "drafted" ELSE "plan"

\* The directive names no project, or its build log or wiki cannot be used.
Unlocated == End("failed")

\* readWiki: any page of docs/knowledge, in whatever directory of it.
HasPages == wiki # "none"

\* Pages on disk, whoever wrote them and however far: no architect.
CheckWiki ==
    /\ At("wiki")
    /\ Unlocated \/ Goto(IF HasPages THEN AfterWiki ELSE "architect")
    /\ UNCHANGED <<assessVars, autonomy, usage, loopVars, wiki, plan, runVars, runs>>

Architect ==
    /\ At("architect")
    /\ attempts' = attempts + 1
    /\ \/ CallFails \/ Unusable
       \/ CallSucceeds /\ Goto("writing")
    /\ UNCHANGED <<assessVars, autonomy, cap, wiki, plan, runVars, runs>>

\* writeWikiPage: the page is there, or its slug is refused or the write fails;
\* a write that failed may have left a page.
PageWritten == wiki' = "draft"
PageRefused == wiki' \in {wiki, "draft"} /\ End("failed")

\* The pages are written one by one; of no page at all the critic says that
\* there is nothing to read.
WritePages ==
    /\ At("writing")
    /\ \/ PageWritten /\ (Goto("writing") \/ Goto("critic"))
       \/ PageRefused
    /\ UNCHANGED <<assessVars, autonomy, usage, loopVars, plan, runVars, runs>>

Critic ==
    /\ At("critic")
    /\ \/ (CallFails \/ Unusable) /\ UNCHANGED wiki
       \/ CallSucceeds /\ Goto(AfterWiki) /\ wiki' = "accepted"
       \/ CallSucceeds /\ Goto(IF cap = 0 \/ attempts < cap THEN "architect" ELSE "ask") /\ UNCHANGED wiki
    /\ UNCHANGED <<assessVars, autonomy, loopVars, plan, runVars, runs>>

\* The exhausted loop asks; a question cut short is answered "continue".
AskOperator ==
    /\ At("ask")
    /\ \E answer \in Answer :
          \/ answer \in {"continue", None} /\ Goto(AfterWiki) /\ wiki' = "accepted" /\ UNCHANGED loopVars
          \/ answer = "abort" /\ End("blocked") /\ UNCHANGED <<wiki, loopVars>>
          \/ /\ answer = "extend-3"
             /\ Goto("architect")
             /\ attempts' = 0 /\ cap' = 3
             /\ UNCHANGED wiki
    /\ UNCHANGED <<assessVars, autonomy, usage, plan, runVars, runs>>

\* isAbortAnswer: a question cut short is one, too.
IsAbort(answer) == answer \in {"abort", None}

\* A checkpoint of an assisted directive.
Checkpoint(p, next) ==
    /\ At(p)
    /\ \E answer \in {"continue", "abort", None} : IF IsAbort(answer) THEN End("blocked") ELSE Goto(next)
    /\ UNCHANGED <<assessVars, autonomy, usage, loopVars, wiki, plan, runVars, runs>>

\* A plan that is neither complete nor abandoned is used again.
Reusable == plan = "draft"

AfterPlan == IF autonomy = "assisted" THEN "planned" ELSE "pool"

Planner ==
    /\ At("plan")
    /\ IF Reusable
          THEN Goto(AfterPlan) /\ UNCHANGED <<usage, plan>>
          ELSE \/ (CallFails \/ Unusable) /\ UNCHANGED plan
               \/ CallSucceeds /\ Goto(AfterPlan) /\ plan' = "draft"
    /\ UNCHANGED <<assessVars, autonomy, loopVars, wiki, runVars, runs>>

\* plan.json says how the pool ended.
PlanOutcome(someFailed) == IF someFailed THEN "abandoned" ELSE "complete"

\* runPlanPool: the plan is written when every task has ended; one that parks
\* or is stopped fails the tasks it has not begun, and the run goes on.  One
\* that throws leaves the plan as it was.
Pool ==
    /\ At("pool")
    /\ Streams
    /\ \/ /\ Goto("assess")
          /\ failed' \in BOOLEAN
          /\ plan' = PlanOutcome(failed')
       \/ End("failed") /\ UNCHANGED <<failed, plan>>
    /\ UNCHANGED <<assessVars, autonomy, loopVars, wiki, bad, tried, left, escalated, runs>>

Assessing ==
    /\ At("assess")
    /\ (Assess \/ AssessStep)
    /\ UNCHANGED buildVars

\* The verdict on the run: an assessment that throws fails it.
Judge ==
    /\ At("assess")
    /\ \/ /\ at = "done"
          /\ bad' = (failed \/ ~Verify)
          /\ \/ ~bad' /\ Goto("validate") /\ UNCHANGED left
             \/ bad' /\ autonomy = "autonomous" /\ Goto("fixing") /\ left' \in 0..MaxFindings
             \/ bad' /\ autonomy # "autonomous" /\ End("blocked") /\ UNCHANGED left
       \/ at = "threw" /\ End("failed") /\ UNCHANGED <<bad, left>>
    /\ UNCHANGED <<assessVars, autonomy, usage, loopVars, wiki, plan, failed, tried, escalated, runs>>

\* The counters of the fix loop end with it.
LoopOver == tried' = 0 /\ left' = 0

\* One fixer task; a fixer that throws, or leaves the very findings it was
\* given, is the last.
Fixer ==
    /\ At("fixing") /\ left > 0 /\ tried < MaxFixerAttempts
    /\ Streams
    /\ \/ Goto("fixing") /\ tried' = tried + 1 /\ left' \in 0..MaxFindings
       \/ Goto("escalate") /\ LoopOver
    /\ UNCHANGED <<assessVars, autonomy, loopVars, wiki, plan, failed, bad, escalated, runs>>

\* A bug: when every finding was fixed there is nothing to ask.
StopFixingQuietly ==
    /\ At("fixing")
    /\ \/ left = 0 /\ End("blocked")
       \/ left > 0 /\ tried = MaxFixerAttempts /\ Goto("escalate")
    /\ LoopOver
    /\ UNCHANGED <<assessVars, autonomy, usage, loopVars, wiki, plan, failed, bad, escalated, runs>>

\* A bug: as long as findings are left another fixer may help.
FixOn ==
    /\ At("fixing")
    /\ \/ left = 0 /\ Goto("escalate") /\ LoopOver
       \/ left > 0 /\ Goto("fixing") /\ tried' = 0 /\ UNCHANGED left
    /\ UNCHANGED <<assessVars, autonomy, usage, loopVars, wiki, plan, failed, bad, escalated, runs>>

StopFixing ==
    /\ At("fixing")
    /\ left = 0 \/ tried = MaxFixerAttempts
    /\ Goto("escalate") /\ LoopOver
    /\ UNCHANGED <<assessVars, autonomy, usage, loopVars, wiki, plan, failed, bad, escalated, runs>>

\* escalateBlocked: a question of its own wording, asked as any other.
AskForHelp == escalated' = TRUE

\* Whatever the answer, it is noted and the run is blocked.
Escalate ==
    /\ At("escalate")
    /\ AskForHelp
    /\ End("blocked")
    /\ UNCHANGED <<assessVars, autonomy, usage, loopVars, wiki, plan, failed, bad, tried, left, runs>>

\* The final validation: one that throws does not count.
Validate ==
    /\ At("validate")
    /\ \/ \E coherent \in Verdicts :
             /\ bad' = (bad \/ ~coherent)
             /\ End(IF bad' THEN "blocked" ELSE "complete")
       \/ End("complete") /\ UNCHANGED bad
    /\ UNCHANGED <<assessVars, autonomy, usage, loopVars, wiki, plan, failed, tried, left, escalated, runs>>

\* The process is killed: the row still says that it runs.
Crash ==
    /\ ~At("off") /\ runs < MaxRuns
    /\ phase' = "off"
    /\ UNCHANGED <<assessVars, status, autonomy, usage, loopVars, wiki, plan, runVars, runs>>

\* What the run does of itself ...
Work == \/ Triage \/ CheckWiki \/ Architect \/ WritePages \/ Critic \/ Planner \/ Pool
        \/ Assessing \/ Judge \/ Fixer \/ StopFixing \/ Validate

\* ... and what it waits for.
OperatorAnswers == AskOperator \/ Checkpoint("drafted", "plan") \/ Checkpoint("planned", "pool") \/ Escalate

Next == Begin \/ Work \/ OperatorAnswers \/ Crash

Init ==
    /\ AssessInit
    /\ phase = "off" /\ status = "none" /\ autonomy = None
    /\ rows = 0 /\ gated = 0 /\ attempts = 0 /\ cap = MaxAttempts
    /\ wiki = "none" /\ plan = "none"
    /\ failed = FALSE /\ bad = FALSE /\ tried = 0 /\ left = 0 /\ escalated = FALSE /\ runs = 0

Spec == Init /\ [][Next]_vars

\* The event loop runs what is due, and calls and subprocesses have timeouts.
\* Nothing makes an operator answer.
FairSpec == Spec /\ WF_vars(Work)

-----------------------------------------------------------------------------
(* Properties.                                                             *)

\* However often a directive is resumed, the calls that the pre-call check
\* guards never exceed its ceiling of steps (budget.ts:134-150).
StepsBounded == MaxSteps > 0 => gated <= MaxSteps

\* A directive is complete only when no task of its last run failed and the
\* assessment of that run saw the files, the build and tests that passed, under
\* a Python that the project accepts when the host has one and the assessor
\* could tell the version (loop.ts:598-832, pytest.ts:440-466).
CompleteIsEarned ==
    status = "complete" =>
        /\ ~failed /\ at = "done" /\ gate.modules /\ gate.artifacts /\ gate.built
        /\ gate.suite \in {"pass", "dies"}
        /\ lang = "python" => ~python.offered \/ ~python.known \/ python.ver >= python.required

\* An autonomous directive whose task failed, or whose gates are not green, is
\* not blocked before its operator was asked, whether or not fixers resolved
\* what was found (loop.ts:617-779).
NoSilentFailure ==
    /\ At("off") /\ status = "blocked" /\ autonomy = "autonomous"
    /\ failed \/ (at = "done" /\ ~Verify)
    => escalated

\* The phases in which a question of the run waits for its operator.
Waits == phase \in {"ask", "drafted", "planned", "escalate"}

\* A run that does not wait for its operator comes to its end or to a question,
\* however the models and the subprocesses behave (loop.ts:346-831): a critic
\* that is never content meets the ceiling of steps, a fixer that does not fix
\* the ceiling of attempts, and the assessor's environment is made at most once
\* per assessment.  A question has no deadline and waits as long as nobody answers.
RunEnds == ~At("off") ~> At("off") \/ Waits

\* A violated claim: WORKFLOWS.md:99, a resumed build "skips already-complete
\* tasks in the plan", and serve.ts:268, a retry goes on with the plan's tasks.
PlanIsResumed == [][plan = "abandoned" => plan' # "draft"]_vars

\* A violated claim: WORKFLOWS.md:103, the architect is skipped "when the wiki
\* was good enough".
PlannedIsAccepted == At("plan") => wiki = "accepted"

=============================================================================
