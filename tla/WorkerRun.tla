----------------------------- MODULE WorkerRun -----------------------------
(***************************************************************************)
(* A task's worker (worker/src/run-worker.ts), the git worktree it works   *)
(* in (worktree.ts) and the claude subprocess it streams from              *)
(* (providers/src/claude-cli.ts).  The worktrees of one project branch off *)
(* one base branch, and the successful ones are merged back through a      *)
(* promise chain that each process keeps for itself: the daemon, and a     *)
(* `factory build --inline`.  Every git command is a process of its own,   *)
(* so a step.                                                              *)
(*                                                                         *)
(* A tree's content is the number of edits of its own agent it holds, and  *)
(* what it holds of the .claude directory.  Which branches conflict is a   *)
(* relation; a merge conflicts when a branch that came in after the        *)
(* worktree was made is in conflict with it.                               *)
(***************************************************************************)
EXTENDS Sandbox

CONSTANTS Task,
          Process,     \* the processes that run tasks on the project
          Conflict,    \* the pairs of tasks whose edits do not merge
          MaxEdits,    \* bound: edits of one agent
          MaxRuns,     \* bound: runs of a process on the plan
          MaxFaults,   \* bound: failing commands, timeouts, cancels, crashes
          OwnConfig,   \* the project tracks a .claude directory of its own
          Sandboxed,   \* FACTORY5_DISABLE_WORKER_SANDBOX is not set
          None

ASSUME WorkerAssumption ==
    /\ Conflict \subseteq Task \X Task
    /\ MaxEdits \in Nat \ {0} /\ MaxRuns \in Nat \ {0} /\ MaxFaults \in Nat
    /\ OwnConfig \in BOOLEAN /\ Sandboxed \in BOOLEAN
    /\ None \notin Task
    /\ ".." \notin Task   \* an id names its worktree's directory

VARIABLES
    owner,     \* the process that runs each task, never changed
    readOnly,  \* the tasks whose agents use no tools, never changed
    pc,        \* where runWorker stands with the task
    result,    \* "ok", or an error: what its text says is told apart only as far as
               \* "state" of the repository and "removal" of the worktree go
    child,     \* the claude process: "none", "working", "reported", "dying", "gone"
    stream,    \* the item that settled the stream: "open", "end", "error"
    cut,       \* interruptedByWatchdog
    dir,       \* the worktree's directory exists
    branch,    \* its branch exists
    edits,     \* edits the tree holds
    saved,     \* of them, committed on the branch
    config,    \* .claude in the tree: a subset of {"own", "sandbox"}
    since,     \* the base the worktree was made from: its branches, its .claude
    landed,    \* this attempt's branch is merged
    prev,      \* the promise this task's merge waits for
    tail,      \* projectMergeQueues: the last promise of each process
    base,      \* the base branch: the edits of each task it holds
    baseConfig,\* .claude in the base branch
    head,      \* the base branch's commit: how many merges it has had
    preMerge,  \* preMergeHead of each merge, 0 once it is compared
    merging,   \* MERGE_HEAD: the branch whose conflict is open in the checkout
    cancelled, \* the processes whose run was cancelled
    planned,   \* the tasks of plan.json
    runs,      \* runs of each process so far
    faults     \* faults so far

agentVars == <<child, stream, cut>>
treeVars == <<dir, branch, edits, saved, config, since>>
queueVars == <<prev, tail>>
repoVars == <<landed, base, baseConfig, head, preMerge, merging>>
runVars == <<owner, readOnly, cancelled, planned, runs>>
vars == <<pc, result, agentVars, treeVars, queueVars, repoVars, runVars, faults>>

InMerge == {"status", "count", "merge", "returned", "conflict", "purge"}
PCs == {"idle", "sandbox", "stream", "closing", "checking", "discard", "queued", "done", "lost"} \cup InMerge
Alive == {"working", "reported", "dying"}
Merged == {t \in Task : base[t] > 0}

TypeOK ==
    /\ owner \in [Task -> Process] /\ readOnly \subseteq Task
    /\ pc \in [Task -> PCs]
    /\ result \in [Task -> {"none", "ok", "failed", "state", "removal"}]
    /\ child \in [Task -> {"none", "gone"} \cup Alive]
    /\ stream \in [Task -> {"open", "end", "error"}]
    /\ cut \in [Task -> BOOLEAN] /\ dir \in [Task -> BOOLEAN] /\ branch \in [Task -> BOOLEAN]
    /\ edits \in [Task -> 0..MaxEdits] /\ saved \in [Task -> 0..MaxEdits]
    /\ config \in [Task -> SUBSET {"own", "sandbox"}]
    /\ since \in [Task -> [merged : SUBSET Task, config : SUBSET {"own", "sandbox"}]]
    /\ landed \in [Task -> BOOLEAN]
    /\ prev \in [Task -> Task \cup {None}] /\ tail \in [Process -> Task \cup {None}]
    /\ base \in [Task -> 0..MaxEdits] /\ baseConfig \in SUBSET {"own", "sandbox"}
    /\ head \in Nat /\ preMerge \in [Task -> Nat]
    /\ merging \in Task \cup {None}
    /\ cancelled \subseteq Process /\ planned \subseteq Task
    /\ runs \in [Process -> 1..MaxRuns] /\ faults \in 0..MaxFaults

-----------------------------------------------------------------------------
(* Helpers.                                                                *)

Fault == /\ faults < MaxFaults
         /\ faults' = faults + 1
NoFault == UNCHANGED faults

\* A command that fails is a fault; `bad` is whether it does.
MayFail(bad) == IF bad THEN Fault ELSE NoFault

Goto(t, step) == pc' = [pc EXCEPT ![t] = step]

Result(t, r) == /\ pc' = [pc EXCEPT ![t] = "done"]
                /\ result' = [result EXCEPT ![t] = r]

\* finish: the first item settles the stream and soft-kills the child, which
\* dies within the grace period, or is gone already.
Settles(t, item) ==
    /\ stream[t] = "open"
    /\ stream' = [stream EXCEPT ![t] = item]
    /\ child' = [child EXCEPT ![t] = IF @ = "gone" THEN @ ELSE "dying"]

\* The base branch after a branch with this .claude is merged into it.
MergedConfig(t) == LET old == since[t].config
                   IN  (baseConfig \ (old \ config[t])) \cup (config[t] \ old)

Conflicts(t) == \E u \in Merged \ since[t].merged : <<t, u>> \in Conflict

-----------------------------------------------------------------------------
(* The worktree is allocated, the sandbox written, the child started.      *)

Starts(t) == pc[t] = "idle" /\ owner[t] \notin cancelled

\* The open findings of the prompt cannot be read: nothing is started.
BuildContext(t) ==
    /\ Starts(t)
    /\ Fault
    /\ Result(t, "failed")
    /\ landed' = [landed EXCEPT ![t] = FALSE]
    /\ UNCHANGED <<agentVars, treeVars, queueVars, base, baseConfig, head, preMerge, merging, runVars>>

\* An agent without tools is one call of a model, and has no worktree.
RunReadOnly(t) ==
    /\ Starts(t) /\ t \in readOnly
    /\ \E fails \in BOOLEAN :
          /\ MayFail(fails)
          /\ Result(t, IF fails THEN "failed" ELSE "ok")
    /\ UNCHANGED <<agentVars, treeVars, queueVars, repoVars, runVars>>

\* A directory left by an earlier attempt, or a branch, makes it throw.
Allocate(t) ==
    /\ Starts(t) /\ t \notin readOnly
    /\ \/ /\ dir[t] \/ branch[t]
          /\ Result(t, "failed")
          /\ UNCHANGED treeVars
       \/ /\ ~dir[t] /\ ~branch[t]
          /\ Goto(t, "sandbox")
          /\ dir' = [dir EXCEPT ![t] = TRUE]
          /\ branch' = [branch EXCEPT ![t] = TRUE]
          /\ edits' = [edits EXCEPT ![t] = base[t]]
          /\ saved' = [saved EXCEPT ![t] = base[t]]
          /\ config' = [config EXCEPT ![t] = baseConfig]
          /\ since' = [since EXCEPT ![t] = [merged |-> Merged, config |-> baseConfig]]
          /\ UNCHANGED result
    /\ landed' = [landed EXCEPT ![t] = FALSE]
    /\ UNCHANGED <<agentVars, queueVars, base, baseConfig, head, preMerge, merging, runVars, faults>>

WriteSandbox(t) == config' = [config EXCEPT ![t] = IF Sandboxed THEN @ \cup {"sandbox"} ELSE @]

\* A signal that is aborted already kills the child as it starts.
StartStream(t) ==
    LET aborted == owner[t] \in cancelled IN
    /\ Goto(t, "stream")
    /\ child' = [child EXCEPT ![t] = IF aborted THEN "dying" ELSE "working"]
    /\ stream' = [stream EXCEPT ![t] = IF aborted THEN "error" ELSE "open"]
    /\ cut' = [cut EXCEPT ![t] = FALSE]
    /\ UNCHANGED result

\* A failure here returns without any cleanup: the worktree stays.
PrepareSandbox(t) ==
    /\ pc[t] = "sandbox"
    /\ \E fails \in BOOLEAN :
          /\ MayFail(fails)
          /\ IF fails \/ (Sandboxed /\ ~SmokeCheck(Worktree(t)))
             THEN Result(t, "failed") /\ UNCHANGED <<config, agentVars>>
             ELSE WriteSandbox(t) /\ StartStream(t)
    /\ UNCHANGED <<dir, branch, edits, saved, since, queueVars, repoVars, runVars>>

-----------------------------------------------------------------------------
(* The child and its stream.                                               *)

\* Calls of an agent that write a file of a worktree.  Its shell commands the
\* hook does not see; they write where they run.
Call(t, tool, path) == [tool |-> tool, cwd |-> Worktree(t), path |-> path, hasPattern |-> FALSE, symlink |-> FALSE]
Calls(t, u) ==
    IF t = u THEN {Call(t, "Bash", <<"file">>), Call(t, "Edit", <<"file">>)}
    ELSE {Call(t, "Write", Worktree(u) \o <<"file">>), Call(t, "Edit", <<"..", u, "file">>)}

\* A call of t's agent gets to write in u's worktree, with t's configuration
\* there or gone.
Reaches(t, u) ==
    ~Sandboxed \/ \E call \in Calls(t, u) :
        Permitted(call, IF "sandbox" \in config[t] THEN SandboxConfig(Worktree(t)) ELSE NoConfig)

\* The agent writes a file, and may commit.  A killed agent writes on for the
\* grace period; into a directory already removed, it makes a new one.
Edit(t) == \E u \in Task :
    /\ child[t] \in {"working", "dying"}
    /\ edits[u] < MaxEdits
    /\ Reaches(t, u)
    /\ IF dir[u] THEN /\ edits' = [edits EXCEPT ![u] = @ + 1]
                      /\ \E commits \in BOOLEAN : saved' = [saved EXCEPT ![u] = IF commits /\ branch[u] THEN edits[u] + 1 ELSE @]
                      /\ UNCHANGED dir
       ELSE /\ dir' = [dir EXCEPT ![u] = TRUE]
            /\ UNCHANGED <<edits, saved>>
    /\ UNCHANGED <<pc, result, agentVars, branch, config, since, queueVars, repoVars, runVars, faults>>

\* A bug: the result event ends the stream, not the close of the child.
ReportEnds(t) ==
    /\ child[t] = "working"
    /\ \/ Settles(t, "end") /\ NoFault
       \/ Fault /\ Settles(t, "error")
    /\ UNCHANGED <<pc, result, cut, treeVars, queueVars, repoVars, runVars>>

\* The result event: a good one is a chunk, a bad one settles the stream.
Report(t) ==
    /\ child[t] = "working"
    /\ \/ child' = [child EXCEPT ![t] = "reported"] /\ NoFault /\ UNCHANGED stream
       \/ Fault /\ Settles(t, "error")
    /\ UNCHANGED <<pc, result, cut, treeVars, queueVars, repoVars, runVars>>

\* The child's close event; it ends the stream only after a result.
ChildCloses(t) ==
    /\ child[t] \in Alive
    /\ child' = [child EXCEPT ![t] = "gone"]
    /\ \E bad \in BOOLEAN :
          /\ child[t] = "dying" => ~bad
          /\ child[t] = "working" => bad
          /\ MayFail(bad)
          /\ stream' = [stream EXCEPT ![t] = IF @ # "open" THEN @ ELSE IF bad THEN "error" ELSE "end"]
    /\ UNCHANGED <<pc, result, cut, treeVars, queueVars, repoVars, runVars>>

Timeout(t) ==
    /\ pc[t] = "stream" /\ child[t] \in {"working", "reported"}
    /\ Fault
    /\ Settles(t, "error")
    /\ UNCHANGED <<pc, result, cut, treeVars, queueVars, repoVars, runVars>>

\* Between two chunks the pool's watchdog may break the loop, whatever the
\* stream settled to meanwhile; the break is no error.
Watchdog(t) ==
    /\ pc[t] = "stream" /\ child[t] # "none"
    /\ cut' = [cut EXCEPT ![t] = TRUE]
    /\ stream' = [stream EXCEPT ![t] = "end"]
    /\ child' = [child EXCEPT ![t] = IF @ = "gone" THEN @ ELSE "dying"]
    /\ Goto(t, "closing")
    /\ UNCHANGED <<result, treeVars, queueVars, repoVars, runVars, faults>>

\* The loop reaches the settling item, after the chunks before it.
Consume(t) ==
    /\ pc[t] = "stream" /\ stream[t] # "open"
    /\ Goto(t, "closing")
    /\ UNCHANGED <<result, agentVars, treeVars, queueVars, repoVars, runVars, faults>>

\* The finally block: .claude is removed, the project's own files with it.
Close(t) ==
    /\ pc[t] = "closing"
    /\ \E fails \in BOOLEAN :
          /\ MayFail(fails)
          /\ config' = [config EXCEPT ![t] = IF fails THEN @ ELSE {}]
    /\ Goto(t, "checking")
    /\ UNCHANGED <<result, agentVars, dir, branch, edits, saved, since, queueVars, repoVars, runVars>>

-----------------------------------------------------------------------------
(* The outcome, and the merge queue.                                       *)

\* A success waits for its turn to merge, a cancelled task is discarded, and
\* any other failure leaves its worktree.
QueueMerge(t) ==
    /\ Goto(t, "queued")
    /\ prev' = [prev EXCEPT ![t] = tail[owner[t]]]
    /\ tail' = [tail EXCEPT ![owner[t]] = t]
    /\ UNCHANGED result

\* A bug: every failure is cleaned up like a cancel.
AlwaysDiscard(t, good) ==
    IF good THEN QueueMerge(t)
    ELSE /\ UNCHANGED queueVars
         /\ Goto(t, "discard") /\ UNCHANGED result

CleanupWorktree(t, good) ==
    IF good THEN QueueMerge(t)
    ELSE /\ UNCHANGED queueVars
         /\ IF owner[t] \in cancelled /\ ~cut[t]
            THEN Goto(t, "discard") /\ UNCHANGED result
            ELSE Result(t, "failed")

\* The knowledge graph of a task with features may refuse a good stream, and a
\* findings file that cannot be read ends the task there and then.
Decide(t) ==
    /\ pc[t] = "checking"
    /\ \/ stream[t] = "end" /\ NoFault /\ CleanupWorktree(t, TRUE)
       \/ stream[t] = "end" /\ Fault /\ CleanupWorktree(t, FALSE)
       \/ stream[t] = "error" /\ NoFault /\ CleanupWorktree(t, FALSE)
       \/ Fault /\ Result(t, "failed") /\ UNCHANGED queueVars
    /\ UNCHANGED <<agentVars, treeVars, repoVars, runVars>>

\* git worktree remove --force, which may fail and then leaves all there is,
\* then branch -D, whose failure nobody sees.
RemoveTree(t, fails) ==
    /\ MayFail(fails /\ dir[t])
    /\ dir' = [dir EXCEPT ![t] = @ /\ fails]
    /\ branch' = [branch EXCEPT ![t] = @ /\ fails]
    /\ ~dir[t] => fails

Discard(t) ==
    /\ pc[t] = "discard"
    /\ \E fails \in BOOLEAN : RemoveTree(t, fails)
    /\ Result(t, "failed")
    /\ UNCHANGED <<agentVars, edits, saved, config, since, queueVars, repoVars, runVars>>

\* The promise settles: the next merge may start, and the chain is dropped
\* when nobody queued behind it.
Finish(t, r) ==
    /\ Result(t, r)
    /\ tail' = [tail EXCEPT ![owner[t]] = IF @ = t THEN None ELSE @]
    /\ prev' = [u \in Task |-> IF prev[u] = t THEN None ELSE prev[u]]

MergeTurn(t) ==
    /\ pc[t] = "queued" /\ prev[t] = None
    /\ Goto(t, "status")
    /\ UNCHANGED <<result, agentVars, treeVars, queueVars, repoVars, runVars, faults>>

\* A bug: what the agent did not commit is forgotten.
CommitNothing(t) ==
    /\ pc[t] = "status"
    /\ IF dir[t] /\ branch[t]
       THEN /\ UNCHANGED saved
            /\ Goto(t, "count")
            /\ UNCHANGED <<result, queueVars>>
       ELSE Finish(t, "state") /\ UNCHANGED saved
    /\ UNCHANGED <<agentVars, dir, branch, edits, config, since, repoVars, runVars, faults>>

\* What the agent left uncommitted is committed for it.
CommitRest(t) ==
    /\ pc[t] = "status"
    /\ IF dir[t] /\ branch[t]
       THEN /\ saved' = [saved EXCEPT ![t] = edits[t]]
            /\ Goto(t, "count")
            /\ UNCHANGED <<result, queueVars>>
       ELSE Finish(t, "state") /\ UNCHANGED saved
    /\ UNCHANGED <<agentVars, dir, branch, edits, config, since, repoVars, runVars, faults>>

\* rev-list --count, and rev-parse of the base: a branch with nothing new is not merged; its changes are
\* the edits beyond the base's, or those of .claude.
CountAhead(t) ==
    /\ pc[t] = "count"
    /\ IF ~branch[t] THEN Finish(t, "state")
       ELSE /\ Goto(t, IF saved[t] > base[t] \/ config[t] # since[t].config THEN "merge" ELSE "purge")
            /\ UNCHANGED <<result, queueVars>>
    /\ preMerge' = [preMerge EXCEPT ![t] = head]
    /\ UNCHANGED <<agentVars, treeVars, landed, base, baseConfig, head, merging, runVars, faults>>

\* git merge --no-ff: refused while another conflict is open; a conflict opens
\* one, and simple-git may or may not throw for it.
Merge(t) ==
    /\ pc[t] = "merge"
    /\ \/ /\ merging # None \/ ~branch[t]
          /\ Goto(t, "conflict")
          /\ UNCHANGED <<landed, base, baseConfig, head, merging>>
       \/ /\ merging = None /\ branch[t]
          /\ IF Conflicts(t)
             THEN /\ merging' = t
                  /\ pc' \in {[pc EXCEPT ![t] = step] : step \in {"conflict", "returned"}}
                  /\ UNCHANGED <<landed, base, baseConfig, head>>
             ELSE /\ head' = head + 1
                  /\ base' = [base EXCEPT ![t] = saved[t]]
                  /\ baseConfig' = MergedConfig(t)
                  /\ landed' = [landed EXCEPT ![t] = TRUE]
                  /\ Goto(t, "returned")
                  /\ UNCHANGED merging
    /\ UNCHANGED <<preMerge, result, agentVars, treeVars, queueVars, runVars, faults>>

\* A bug: the comparison of the two heads is the wrong way round.
CheckHeadMoved(t) ==
    /\ pc[t] = "returned"
    /\ IF merging # None THEN /\ merging' = None
                              /\ Finish(t, "state")
       ELSE /\ IF head # preMerge[t] THEN Finish(t, "state")
               ELSE Goto(t, "purge") /\ UNCHANGED <<result, queueVars>>
            /\ UNCHANGED merging
    /\ preMerge' = [preMerge EXCEPT ![t] = 0]
    /\ UNCHANGED <<agentVars, treeVars, landed, base, baseConfig, head, runVars, faults>>

\* A bug: a merge that returned is taken to have succeeded.
TrustMerge(t) ==
    /\ pc[t] = "returned"
    /\ Goto(t, "purge")
    /\ UNCHANGED <<result, agentVars, treeVars, queueVars, repoVars, runVars, faults>>

\* The merge returned; MERGE_HEAD says it did not succeed, whoever opened it,
\* and so does a base branch that has not advanced.
CheckMergeHead(t) ==
    /\ pc[t] = "returned"
    /\ IF merging # None THEN /\ merging' = None
                              /\ Finish(t, "state")
       ELSE /\ IF head = preMerge[t] THEN Finish(t, "state")
               ELSE Goto(t, "purge") /\ UNCHANGED <<result, queueVars>>
            /\ UNCHANGED merging
    /\ preMerge' = [preMerge EXCEPT ![t] = 0]
    /\ UNCHANGED <<agentVars, treeVars, landed, base, baseConfig, head, runVars, faults>>

\* The merge threw: merge --abort, whoever's conflict is open, and the failure.
AbortMerge(t) ==
    /\ pc[t] = "conflict"
    /\ merging' = None
    /\ Finish(t, "failed")
    /\ preMerge' = [preMerge EXCEPT ![t] = 0]
    /\ UNCHANGED <<agentVars, treeVars, landed, base, baseConfig, head, runVars, faults>>

\* A removal that fails makes the task fail, although it is merged.
Remove(t) ==
    /\ pc[t] = "purge"
    /\ \E fails \in BOOLEAN :
          /\ RemoveTree(t, fails)
          /\ Finish(t, IF fails THEN "removal" ELSE "ok")
    /\ UNCHANGED <<agentVars, edits, saved, config, since, repoVars, runVars>>

-----------------------------------------------------------------------------
(* The cancel, the crash, the next run, and the other hands on the project.*)

Cancel(p) ==
    /\ p \notin cancelled
    /\ Fault
    /\ cancelled' = cancelled \cup {p}
    /\ LET hit == {t \in Task : owner[t] = p /\ pc[t] = "stream" /\ stream[t] = "open"}
       IN  /\ stream' = [t \in Task |-> IF t \in hit THEN "error" ELSE stream[t]]
           /\ child' = [t \in Task |-> IF t \in hit THEN "dying" ELSE child[t]]
    /\ UNCHANGED <<pc, result, cut, treeVars, queueVars, repoVars, owner, readOnly, planned, runs>>

\* The process dies; its agents are nobody's children now.
Crash(p) ==
    /\ Fault
    /\ pc' = [t \in Task |-> IF owner[t] = p /\ pc[t] # "done" THEN "lost" ELSE pc[t]]
    /\ tail' = [tail EXCEPT ![p] = None]
    /\ prev' = [t \in Task |-> IF owner[t] = p THEN None ELSE prev[t]]
    /\ UNCHANGED <<result, agentVars, treeVars, repoVars, runVars>>

\* The plan is run again; tasks that did not succeed are attempted again.  A
\* killed or orphaned agent has ended by then.
NextRun(p) ==
    LET mine == {t \in Task : owner[t] = p} IN
    /\ runs[p] < MaxRuns
    /\ \E t \in mine : result[t] # "ok"
    /\ \A t \in mine : pc[t] \in {"done", "lost"} \cup (IF p \in cancelled THEN {"idle"} ELSE {}) /\ child[t] \notin Alive
    /\ runs' = [runs EXCEPT ![p] = @ + 1]
    /\ pc' = [t \in Task |-> IF t \in mine /\ result[t] # "ok" THEN "idle" ELSE pc[t]]
    /\ cancelled' = cancelled \ {p}
    /\ UNCHANGED <<result, agentVars, treeVars, queueVars, repoVars, owner, readOnly, planned, faults>>

\* Another directive of the project writes its own plan.json.
Replan == /\ planned # {}
          /\ Fault
          /\ planned' = {}
          /\ UNCHANGED <<pc, result, agentVars, treeVars, queueVars, repoVars, owner, readOnly, cancelled, runs>>

\* The worktrees whose task is not in plan.json, running or not.
Abandoned == {t \in Task : dir[t] /\ t \notin planned}

\* `factory cleanup --yes`, with or without --prune-branches.
CleanupCommand ==
    /\ Abandoned # {}
    /\ dir' = [t \in Task |-> dir[t] /\ t \notin Abandoned]
    /\ \E prune \in BOOLEAN : branch' = [t \in Task |-> branch[t] /\ ~(prune /\ t \in Abandoned)]
    /\ UNCHANGED <<pc, result, agentVars, edits, saved, config, since, queueVars, repoVars, runVars, faults>>

-----------------------------------------------------------------------------
InitialConfig == IF OwnConfig THEN {"own"} ELSE {}

Init ==
    /\ owner \in [Task -> Process] /\ readOnly \in SUBSET Task
    /\ pc = [t \in Task |-> "idle"] /\ result = [t \in Task |-> "none"]
    /\ child = [t \in Task |-> "none"] /\ stream = [t \in Task |-> "open"]
    /\ cut = [t \in Task |-> FALSE]
    /\ dir = [t \in Task |-> FALSE] /\ branch = [t \in Task |-> FALSE]
    /\ edits = [t \in Task |-> 0] /\ saved = [t \in Task |-> 0]
    /\ config = [t \in Task |-> {}] /\ since = [t \in Task |-> [merged |-> {}, config |-> {}]]
    /\ landed = [t \in Task |-> FALSE]
    /\ prev = [t \in Task |-> None] /\ tail = [p \in Process |-> None]
    /\ base = [t \in Task |-> 0] /\ baseConfig = InitialConfig
    /\ head = 0 /\ preMerge = [t \in Task |-> 0] /\ merging = None
    /\ cancelled = {} /\ planned = Task
    /\ runs = [p \in Process |-> 1] /\ faults = 0

Agent(t) == Edit(t) \/ Report(t) \/ ChildCloses(t)

Worker(t) == \/ BuildContext(t) \/ RunReadOnly(t) \/ Allocate(t) \/ PrepareSandbox(t) \/ Consume(t) \/ Close(t) \/ Decide(t) \/ Discard(t)
             \/ MergeTurn(t) \/ CommitRest(t) \/ CountAhead(t) \/ Merge(t)
             \/ CheckMergeHead(t) \/ AbortMerge(t) \/ Remove(t)

Next == \/ \E t \in Task : Agent(t) \/ Worker(t) \/ Timeout(t) \/ Watchdog(t)
        \/ \E p \in {owner[t] : t \in Task} : Cancel(p) \/ Crash(p) \/ NextRun(p)
        \/ Replan \/ CleanupCommand

Spec == Init /\ [][Next]_vars

-----------------------------------------------------------------------------
(* What the worktrees and the merge queue promise.                         *)

\* A task that reports success has all its agent's work in the base branch
\* (run-worker.ts:834), unless the watchdog cut the agent off at work, or
\* another process merges into the project beside it.
SuccessIsMerged ==
    \A t \in Task : pc[t] = "done" /\ result[t] = "ok" =>
        base[t] = edits[t] \/ cut[t] \/ \E u \in Task : owner[u] # owner[t]

\* A task that failed has left the base branch alone, except when the merge
\* was done and the removal after it failed (worktree.ts:364), or another
\* process's conflict was found open in the checkout (worktree.ts:332).
FailureIsUnmerged ==
    \A t \in Task : pc[t] = "done" /\ landed[t] =>
        result[t] \in {"ok", "removal"} \cup (IF \E u \in Task : owner[u] # owner[t] THEN {"state"} ELSE {})

\* What is merged is no longer being written: the agent has closed before its
\* worktree is committed, unless the watchdog cut it off.
MergedAfterAgent ==
    \A t \in Task : pc[t] \in InMerge => child[t] = "gone" \/ cut[t]

\* A merge that ends does not leave its own conflict open in the project's
\* checkout (worktree.ts:316, 332): only a process that dies in it does, and
\* its next run finds it.
ConflictIsClosed ==
    [][\A t \in Task : pc[t] \in InMerge /\ pc'[t] = "done" /\ runs[owner[t]] = 1 => merging' # t]_vars

\* A worktree with unmerged work is removed only for a cancelled run, or by
\* hand once the plan no longer names the task; two processes on one project
\* apart (HeadIsOwnMerge).
WorkIsKept ==
    [][\A t \in Task : dir[t] /\ ~dir'[t] =>
          \/ base[t] = edits[t] \/ cut[t] \/ owner[t] \in cancelled \/ t \notin planned
          \/ \E u \in Task : owner[u] # owner[t]]_vars

\* A violated claim: worktree.ts:333-342, a merge past its MERGE_HEAD check
\* and its head check was this branch's merge.
HeadIsOwnMerge ==
    [][\A t \in Task : pc[t] = "returned" /\ pc'[t] = "purge" => landed[t]]_vars

\* A violated claim: worker-sandbox/src/settings.ts:26-28, the worker removes
\* its two files and the empty .claude directory.
ConfigSurvives == OwnConfig => "own" \in baseConfig

=============================================================================
