-------------------------- MODULE WorkerRun_proofs --------------------------
(***************************************************************************)
(* Theorems about WorkerRun, for any tasks, processes, conflicts, edits,   *)
(* runs and faults.  Four invariants: AgentInv (an agent has closed before *)
(* its worktree is committed), QueueInv (the merges of a process form a    *)
(* chain of promises), RepoInv (what a merge leaves in the checkout, and   *)
(* what is remembered of it) and, with the sandbox on, WorkInv (whose      *)
(* edits are committed and merged).  The last one rests on OwnTreeOnly:    *)
(* what the hook permits an agent to write is in its own worktree.         *)
(***************************************************************************)
EXTENDS WorkerRun, SequenceTheorems, FiniteSetTheorems, TLAPS

-----------------------------------------------------------------------------
(* The gate: an agent writes in its own worktree only.                     *)

\* The names of the paths that calls use, and what joining paths of the lengths
\* met here gives.
Name == Task \cup {"/", "project", ".factory", "worktrees", "file", ".."}

LEMMA Joined ==
    ASSUME NEW p \in Seq(Name), NEW q \in Seq(Name)
    PROVE  /\ p \o q \in Seq(Name) /\ Len(p \o q) = Len(p) + Len(q)
           /\ Len(p) >= 1 => (p \o q)[1] = p[1]
           /\ Len(p) = 3 /\ Len(q) = 2 => Len(p \o q) = 5 /\ (p \o q)[5] = q[2]
           /\ Len(p) = 4 /\ Len(q) = 2 => Len(p \o q) = 6 /\ (p \o q)[5] = q[1]
           /\ Len(p) = 5 /\ Len(q) = 1 => Len(p \o q) = 6 /\ (p \o q)[5] = p[5]
<1>1. Len(p) \in Nat /\ Len(q) \in Nat
  BY LenProperties
<1>2. p \o q \in Seq(Name) /\ Len(p \o q) = Len(p) + Len(q)
  BY ConcatProperties
<1>3. \A i \in 1..(Len(p) + Len(q)) : (p \o q)[i] = IF i <= Len(p) THEN p[i] ELSE q[i - Len(p)]
  BY ConcatProperties
<1>4. ASSUME NEW i \in Nat \ {0}, i <= Len(p) PROVE (p \o q)[i] = p[i]
  BY <1>1, <1>3, <1>4
<1>5. ASSUME NEW i \in Nat, NEW j \in 1..Len(q), i = Len(p) + j PROVE (p \o q)[i] = q[j]
  <2>1. i \in 1..(Len(p) + Len(q)) /\ ~(i <= Len(p)) /\ i - Len(p) = j
    BY <1>1, <1>5
  <2> QED
    BY <1>3, <2>1
<1>6. ASSUME Len(p) = 3, Len(q) = 2 PROVE Len(p \o q) = 5 /\ (p \o q)[5] = q[2]
  <2>1. Len(p) + Len(q) = 5 /\ 2 \in 1..Len(q) /\ 5 = Len(p) + 2
    BY <1>6
  <2> QED
    BY <1>2, <1>5, <2>1
<1>7. ASSUME Len(p) = 4, Len(q) = 2 PROVE Len(p \o q) = 6 /\ (p \o q)[5] = q[1]
  <2>1. Len(p) + Len(q) = 6 /\ 1 \in 1..Len(q) /\ 5 = Len(p) + 1
    BY <1>7
  <2> QED
    BY <1>2, <1>5, <2>1
<1>8. ASSUME Len(p) = 5, Len(q) = 1 PROVE Len(p \o q) = 6 /\ (p \o q)[5] = p[5]
  <2>1. Len(p) + Len(q) = 6 /\ 5 <= Len(p)
    BY <1>8
  <2> QED
    BY <1>2, <1>4, <2>1
<1> QED
  BY <1>2, <1>4, <1>6, <1>7, <1>8

LEMMA TreePath ==
    ASSUME NEW t \in Task
    PROVE  Worktree(t) \in Seq(Name) /\ Len(Worktree(t)) = 5 /\ Worktree(t)[1] = "/" /\ Worktree(t)[5] = t
<1> DEFINE tree == <<"worktrees", t>>
<1>1. Factory \in Seq(Name) /\ Len(Factory) = 3 /\ Factory[1] = "/"
  BY DEF Factory, Name
<1>2. tree \in Seq(Name) /\ Len(tree) = 2 /\ tree[2] = t
  BY DEF Name
<1> HIDE DEF tree
<1>3. Worktree(t) = Factory \o tree
  BY DEF Worktree, tree
<1>4. /\ Factory \o tree \in Seq(Name) /\ Len(Factory \o tree) = 5
      /\ (Factory \o tree)[1] = Factory[1] /\ (Factory \o tree)[5] = tree[2]
  BY <1>1, <1>2, Joined
<1> QED
  BY <1>1, <1>2, <1>3, <1>4

\* A path with another task's name where the worktree has its own.
LEMMA NotInside ==
    ASSUME NEW t \in Task, NEW path \in Seq(Name), Len(path) = 6, path[5] # t
    PROVE  ~PathInsideAny(path, {Worktree(t)})
<1> DEFINE start == SubSeq(path, 1, 5)
<1>1. ASSUME NEW i \in 1..5 PROVE path[i] \in Name
  <2>1. i \in 1..Len(path)
    OBVIOUS
  <2> QED
    BY <2>1, ElementOfSeq
<1>2. \A i \in 1..5 : start[i] = path[i]
  BY <1>1, SubSeqProperties
<1> HIDE DEF start
<1>3. start # Worktree(t)
  BY <1>2, TreePath
<1> QED
  BY <1>3, TreePath DEF PathInsideAny, start

\* A call that writes outside of the worktree is denied, with the configuration
\* there and with it gone.
LEMMA OutsideDenied ==
    ASSUME NEW t \in Task, NEW request, request.tool \in WriteTools,
           ~PathInsideAny(ResolveAgainst(request.cwd, CandidatePath(request)), {Worktree(t)})
    PROVE  ~Permitted(request, SandboxConfig(Worktree(t))) /\ ~Permitted(request, NoConfig)
<1> DEFINE gate == SandboxConfig(Worktree(t))
<1>1. Roots(request.tool, gate) = {Worktree(t)}
  BY DEF Roots, SandboxConfig
<1>2. ~InScope(request, CandidatePath(request), gate)
  BY <1>1 DEF InScope
<1> HIDE DEF gate
<1>3. HookRuntime(request, gate) = "deny" /\ HookRuntime(request, NoConfig) = "deny"
  BY <1>2 DEF HookRuntime, RunHook, EvaluateToolCall, FileTools, ValidConfig
<1> QED
  BY <1>3 DEF Permitted, FileTools, gate

LEMMA AbsoluteOutside ==
    ASSUME NEW t \in Task, NEW u \in Task, u # t
    PROVE  LET path == Worktree(u) \o <<"file">> IN
           path # NoPath /\ ~PathInsideAny(ResolveAgainst(Worktree(t), path), {Worktree(t)})
<1> DEFINE file == <<"file">>
           path == Worktree(u) \o file
<1>1. file \in Seq(Name) /\ Len(file) = 1
  BY DEF Name
<1> HIDE DEF file
<1>2. path \in Seq(Name) /\ Len(path) = 6 /\ path[1] = "/" /\ path[5] = u
  BY <1>1, TreePath, Joined
<1> HIDE DEF path
<1>3. path # NoPath /\ path # Here /\ Head(path) = "/"
  <2>1. Len(NoPath) # 6 /\ Len(Here) # 6
    BY DEF NoPath, Here
  <2>2. path # NoPath /\ path # Here
    BY <1>2, <2>1, Zenon
  <2> QED
    BY <1>2, <2>2, HeadTailProperties DEF NoPath
<1>4. ResolveAgainst(Worktree(t), path) = path
  BY <1>3 DEF ResolveAgainst
<1> QED
  BY <1>2, <1>3, <1>4, NotInside DEF path, file

LEMMA RelativeOutside ==
    ASSUME NEW t \in Task, NEW u \in Task, u # t
    PROVE  LET path == <<"..", u, "file">> IN
           path # NoPath /\ ~PathInsideAny(ResolveAgainst(Worktree(t), path), {Worktree(t)})
<1> DEFINE path == <<"..", u, "file">>
           up == SubSeq(Worktree(t), 1, 4)
           down == SubSeq(path, 2, 3)
<1>1. path \in Seq(Name) /\ Len(path) = 3 /\ path[1] = ".." /\ path[2] = u /\ path[3] = "file" /\ Head(path) = ".."
      /\ DOMAIN path = 1..3
  BY DEF Name
<1> HIDE DEF path
<1>2. path # NoPath /\ path # Here
  BY <1>1 DEF NoPath, Here
<1>3. {i \in DOMAIN path : path[i] = ".."} = {1}
  BY <1>1, WorkerAssumption
<1>4. Cardinality({1}) = 1
  BY FS_Singleton
<1>5. ResolveAgainst(Worktree(t), path) = up \o down
  <2>1. Len(Worktree(t)) = 5 /\ Len(path) = 3 /\ Head(path) # "/"
    BY <1>1, TreePath
  <2>2. \A n : n = 1 => (IF n < 5 THEN n ELSE 5 - 1) = 1 /\ 5 - 1 = 4 /\ n + 1 = 2
    OBVIOUS
  <2>3. ~(path # NoPath /\ Head(path) = "/")
    BY <2>1
  <2> QED
    BY <1>2, <1>3, <1>4, <2>1, <2>2, <2>3, Zenon DEF ResolveAgainst, up, down
<1>6. up \in Seq(Name) /\ Len(up) = 4
  <2>1. \A i \in 1..4 : Worktree(t)[i] \in Name
    BY TreePath, ElementOfSeq
  <2> QED
    BY <2>1, SubSeqProperties
<1>7. down \in Seq(Name) /\ Len(down) = 2 /\ down[1] = u
  <2>1. \A i \in 2..3 : path[i] \in Name
    BY <1>1, ElementOfSeq
  <2> QED
    BY <1>1, <2>1, SubSeqProperties
<1> HIDE DEF up, down
<1>8. up \o down \in Seq(Name) /\ Len(up \o down) = 6 /\ (up \o down)[5] = u
  BY <1>6, <1>7, Joined
<1> QED
  BY <1>2, <1>5, <1>8, NotInside DEF path

\* An agent whose hook is on reaches no worktree but its own.
LEMMA OwnTreeOnly ==
    ASSUME Sandboxed, NEW t \in Task, NEW u \in Task, Reaches(t, u) PROVE u = t
<1> SUFFICES ASSUME u # t PROVE FALSE
  OBVIOUS
<1>1. PICK request \in Calls(t, u) :
          Permitted(request, IF "sandbox" \in config[t] THEN SandboxConfig(Worktree(t)) ELSE NoConfig)
  BY DEF Reaches
<1>2. /\ request.tool \in WriteTools /\ request.cwd = Worktree(t)
      /\ request.path \in {Worktree(u) \o <<"file">>, <<"..", u, "file">>}
  BY DEF Calls, Call, WriteTools
<1>3. request.path # NoPath /\ ~PathInsideAny(ResolveAgainst(Worktree(t), request.path), {Worktree(t)})
  BY <1>2, AbsoluteOutside, RelativeOutside
<1>4. CandidatePath(request) = request.path
  BY <1>3 DEF CandidatePath
<1> QED
  BY <1>1, <1>2, <1>3, <1>4, OutsideDenied

-----------------------------------------------------------------------------
(* Types.                                                                  *)

LEMMA OwnerActs ==
    ASSUME TypeOK, NEW p \in {owner[t] : t \in Task} PROVE p \in Process
  BY DEF TypeOK

LEMMA TypesInitially == Init => TypeOK
  BY WorkerAssumption DEF Init, TypeOK, InitialConfig, PCs

LEMMA PreparationTyped ==
    ASSUME TypeOK, NEW t \in Task, BuildContext(t) \/ RunReadOnly(t) \/ Allocate(t) \/ PrepareSandbox(t)
    PROVE  TypeOK'
<1> USE DEF TypeOK, PCs, InMerge, Alive, Starts, Fault, NoFault, MayFail, Goto, Result, agentVars, treeVars, queueVars, repoVars, runVars
<1>1. CASE BuildContext(t)
  BY <1>1, WorkerAssumption DEF BuildContext
<1>2. CASE RunReadOnly(t)
  BY <1>2, WorkerAssumption DEF RunReadOnly
<1>3. CASE Allocate(t)
  <2>1. CASE dir[t] \/ branch[t]
    <3> HIDE DEF TypeOK
    <3>1. /\ pc' = [pc EXCEPT ![t] = "done"] /\ result' = [result EXCEPT ![t] = "failed"]
          /\ landed' = [landed EXCEPT ![t] = FALSE]
          /\ UNCHANGED <<treeVars, agentVars, queueVars, base, baseConfig, head, preMerge, merging, runVars, faults>>
      BY <1>3, <2>1 DEF Allocate
    <3> QED
      BY <3>1 DEF TypeOK
  <2>2. CASE ~dir[t] /\ ~branch[t]
    <3>1. [merged |-> Merged, config |-> baseConfig] \in [merged : SUBSET Task, config : SUBSET {"own", "sandbox"}]
      BY DEF Merged
    <3> HIDE DEF TypeOK
    <3>2. /\ pc' = [pc EXCEPT ![t] = "sandbox"]
          /\ dir' = [dir EXCEPT ![t] = TRUE] /\ branch' = [branch EXCEPT ![t] = TRUE]
          /\ edits' = [edits EXCEPT ![t] = base[t]] /\ saved' = [saved EXCEPT ![t] = base[t]]
          /\ config' = [config EXCEPT ![t] = baseConfig]
          /\ since' = [since EXCEPT ![t] = [merged |-> Merged, config |-> baseConfig]]
          /\ landed' = [landed EXCEPT ![t] = FALSE]
          /\ UNCHANGED <<result, agentVars, queueVars, base, baseConfig, head, preMerge, merging, runVars, faults>>
      BY <1>3, <2>2 DEF Allocate
    <3> QED
      BY <3>1, <3>2 DEF TypeOK
  <2> QED
    BY <2>1, <2>2
<1>4. CASE PrepareSandbox(t)
  <2> HIDE DEF TypeOK
  <2>1. /\ UNCHANGED <<dir, branch, edits, saved, since, queueVars, repoVars, runVars>>
        /\ \/ pc' = [pc EXCEPT ![t] = "done"] /\ result' = [result EXCEPT ![t] = "failed"] /\ UNCHANGED <<config, agentVars>>
           \/ WriteSandbox(t) /\ StartStream(t)
    BY <1>4 DEF PrepareSandbox
  <2>2. faults' \in {faults, faults + 1} /\ (faults' # faults => faults < MaxFaults)
    BY <1>4 DEF PrepareSandbox
  <2>3. faults' \in 0..MaxFaults
    BY <2>2, WorkerAssumption DEF TypeOK
  <2>4. CASE WriteSandbox(t) /\ StartStream(t)
    <3>1. config' \in [Task -> SUBSET {"own", "sandbox"}]
      BY <2>4 DEF WriteSandbox, TypeOK
    <3>2. pc' \in [Task -> PCs] /\ result' = result /\ cut' \in [Task -> BOOLEAN]
      BY <2>4 DEF StartStream, TypeOK
    <3>3. child' \in [Task -> {"none", "gone"} \cup Alive] /\ stream' \in [Task -> {"open", "end", "error"}]
      <4>1. \E c \in Alive, i \in {"open", "error"} : child' = [child EXCEPT ![t] = c] /\ stream' = [stream EXCEPT ![t] = i]
        BY <2>4 DEF StartStream
      <4> QED
        BY <4>1 DEF TypeOK
    <3> QED
      BY <2>1, <2>3, <3>1, <3>2, <3>3 DEF TypeOK
  <2>5. CASE ~(WriteSandbox(t) /\ StartStream(t))
    <3>1. pc' \in [Task -> PCs] /\ result' \in [Task -> {"none", "ok", "failed", "state", "removal"}]
      BY <2>1, <2>5 DEF TypeOK
    <3> QED
      BY <2>1, <2>3, <2>5, <3>1 DEF TypeOK
  <2> QED
    BY <2>4, <2>5
<1> QED
  BY <1>1, <1>2, <1>3, <1>4

LEMMA StreamTyped ==
    ASSUME TypeOK, NEW t \in Task, Edit(t) \/ Report(t) \/ ChildCloses(t) \/ Timeout(t) \/ Watchdog(t) \/ Consume(t) \/ Close(t)
    PROVE  TypeOK'
<1> USE DEF TypeOK, PCs, InMerge, Alive, Fault, NoFault, MayFail, Goto, Settles, agentVars, treeVars, queueVars, repoVars, runVars
<1>1. CASE Edit(t)
  <2>1. PICK u \in Task :
            /\ edits[u] < MaxEdits
            /\ \/ /\ edits' = [edits EXCEPT ![u] = @ + 1]
                  /\ \E commits \in BOOLEAN : saved' = [saved EXCEPT ![u] = IF commits /\ branch[u] THEN edits[u] + 1 ELSE @]
                  /\ UNCHANGED dir
               \/ dir' = [dir EXCEPT ![u] = TRUE] /\ UNCHANGED <<edits, saved>>
    BY <1>1 DEF Edit
  <2>2. edits[u] + 1 \in 0..MaxEdits /\ saved[u] \in 0..MaxEdits
    BY <2>1, WorkerAssumption
  <2>3. edits' \in [Task -> 0..MaxEdits]
    BY <2>1, <2>2
  <2>4. saved' \in [Task -> 0..MaxEdits]
    <3> HIDE DEF TypeOK
    <3>1. \E n \in {edits[u] + 1, saved[u]} : saved' \in {saved, [saved EXCEPT ![u] = n]}
      BY <2>1
    <3> QED
      BY <2>2, <3>1 DEF TypeOK
  <2>5. dir' \in [Task -> BOOLEAN]
    BY <2>1
  <2>6. UNCHANGED <<pc, result, agentVars, branch, config, since, queueVars, repoVars, runVars, faults>>
    BY <1>1 DEF Edit
  <2> QED
    BY <2>3, <2>4, <2>5, <2>6
<1>2. CASE Report(t)
  <2>1. child' \in [Task -> {"none", "gone"} \cup Alive]
    BY <1>2 DEF Report
  <2>2. stream' \in [Task -> {"open", "end", "error"}]
    BY <1>2 DEF Report
  <2>4. faults' \in 0..MaxFaults
    BY <1>2, WorkerAssumption DEF Report
  <2>3. UNCHANGED <<pc, result, cut, treeVars, queueVars, repoVars, runVars>>
    BY <1>2 DEF Report
  <2> QED
    BY <2>1, <2>2, <2>3, <2>4
<1>3. CASE ChildCloses(t)
  BY <1>3, WorkerAssumption DEF ChildCloses
<1>4. CASE Timeout(t)
  BY <1>4, WorkerAssumption DEF Timeout
<1>5. CASE Watchdog(t)
  BY <1>5, WorkerAssumption DEF Watchdog
<1>6. CASE Consume(t)
  BY <1>6, WorkerAssumption DEF Consume
<1>7. CASE Close(t)
  BY <1>7, WorkerAssumption DEF Close
<1> QED
  BY <1>1, <1>2, <1>3, <1>4, <1>5, <1>6, <1>7

LEMMA MergeTyped ==
    ASSUME TypeOK, NEW t \in Task,
           Decide(t) \/ Discard(t) \/ MergeTurn(t) \/ CommitRest(t) \/ CountAhead(t) \/ Merge(t)
           \/ CheckMergeHead(t) \/ AbortMerge(t) \/ Remove(t)
    PROVE  TypeOK'
<1> USE DEF TypeOK, PCs, InMerge, Alive, Fault, NoFault, MayFail, Goto, Result, Finish, agentVars, treeVars, queueVars, repoVars, runVars
<1>1. CASE Decide(t)
  <2> HIDE DEF TypeOK
  <2>1. /\ UNCHANGED <<agentVars, treeVars, repoVars, runVars>>
    BY <1>1 DEF Decide
  <2>2. \/ /\ pc' = [pc EXCEPT ![t] = "queued"] /\ UNCHANGED result
           /\ prev' = [prev EXCEPT ![t] = tail[owner[t]]] /\ tail' = [tail EXCEPT ![owner[t]] = t]
        \/ pc' = [pc EXCEPT ![t] = "discard"] /\ UNCHANGED <<result, queueVars>>
        \/ /\ pc' = [pc EXCEPT ![t] = "done"] /\ result' = [result EXCEPT ![t] = "failed"]
           /\ UNCHANGED queueVars
    BY <1>1 DEF Decide, CleanupWorktree, QueueMerge
  <2>3. pc' \in [Task -> PCs] /\ result' \in [Task -> {"none", "ok", "failed", "state", "removal"}]
    BY <2>2 DEF TypeOK
  <2>4. prev' \in [Task -> Task \cup {None}] /\ tail' \in [Process -> Task \cup {None}]
    <3>1. /\ owner[t] \in Process /\ tail[owner[t]] \in Task \cup {None}
          /\ prev \in [Task -> Task \cup {None}] /\ tail \in [Process -> Task \cup {None}]
      BY DEF TypeOK
    <3>2. \/ UNCHANGED <<prev, tail>>
          \/ prev' = [prev EXCEPT ![t] = tail[owner[t]]] /\ tail' = [tail EXCEPT ![owner[t]] = t]
      BY <2>2
    <3>3. CASE UNCHANGED <<prev, tail>>
      BY <3>1, <3>3
    <3>4. CASE prev' = [prev EXCEPT ![t] = tail[owner[t]]] /\ tail' = [tail EXCEPT ![owner[t]] = t]
      BY <3>1, <3>4
    <3> QED
      BY <3>2, <3>3, <3>4
  <2>5. faults' \in {faults, faults + 1} /\ (faults' # faults => faults < MaxFaults)
    BY <1>1 DEF Decide
  <2>6. faults' \in 0..MaxFaults
    BY <2>5, WorkerAssumption DEF TypeOK
  <2> QED
    BY <2>1, <2>3, <2>4, <2>6 DEF TypeOK
<1>2. CASE Discard(t)
  BY <1>2, WorkerAssumption DEF Discard, RemoveTree
<1>3. CASE MergeTurn(t)
  BY <1>3, WorkerAssumption DEF MergeTurn
<1>f. ASSUME NEW r \in {"ok", "failed", "state", "removal"}, Finish(t, r)
      PROVE  /\ pc' \in [Task -> PCs] /\ result' \in [Task -> {"none", "ok", "failed", "state", "removal"}]
             /\ prev' \in [Task -> Task \cup {None}] /\ tail' \in [Process -> Task \cup {None}]
  BY <1>f
<1>g. ASSUME NEW step \in PCs, Goto(t, step) PROVE pc' \in [Task -> PCs]
  BY <1>g
<1>4. CASE CommitRest(t)
  <2>1. saved' \in [Task -> 0..MaxEdits]
    BY <1>4 DEF CommitRest
  <2> HIDE DEF Finish, Goto
  <2>2. Finish(t, "state") \/ (Goto(t, "count") /\ UNCHANGED <<result, queueVars>>)
    BY <1>4 DEF CommitRest
  <2>3. UNCHANGED <<agentVars, dir, branch, edits, config, since, repoVars, runVars, faults>>
    BY <1>4 DEF CommitRest
  <2> QED
    BY <1>f, <1>g, <2>1, <2>2, <2>3
<1>5. CASE CountAhead(t)
  <2>1. preMerge' \in [Task -> Nat]
    BY <1>5 DEF CountAhead
  <2> HIDE DEF Finish, Goto
  <2>2. Finish(t, "state") \/ ((Goto(t, "merge") \/ Goto(t, "purge")) /\ UNCHANGED <<result, queueVars>>)
    BY <1>5 DEF CountAhead
  <2>3. UNCHANGED <<agentVars, treeVars, landed, base, baseConfig, head, merging, runVars, faults>>
    BY <1>5 DEF CountAhead
  <2> QED
    BY <1>f, <1>g, <2>1, <2>2, <2>3
<1>6. CASE Merge(t)
  <2>1. MergedConfig(t) \in SUBSET {"own", "sandbox"}
    BY DEF MergedConfig
  <2> HIDE DEF TypeOK
  <2>2. /\ UNCHANGED <<preMerge, result, agentVars, treeVars, queueVars, runVars, faults>>
        /\ \E step \in {"conflict", "returned"} : pc' = [pc EXCEPT ![t] = step]
        /\ \/ merging' \in {merging, t} /\ UNCHANGED <<landed, base, baseConfig, head>>
           \/ /\ head' = head + 1 /\ base' = [base EXCEPT ![t] = saved[t]] /\ baseConfig' = MergedConfig(t)
              /\ landed' = [landed EXCEPT ![t] = TRUE] /\ UNCHANGED merging
    BY <1>6 DEF Merge
  <2>3. pc' \in [Task -> PCs] /\ merging' \in Task \cup {None}
    BY <2>2 DEF TypeOK
  <2>4. base' \in [Task -> 0..MaxEdits] /\ head' \in Nat
    <3>1. base' \in {base, [base EXCEPT ![t] = saved[t]]} /\ head' \in {head, head + 1}
      BY <2>2
    <3>2. base' \in [Task -> 0..MaxEdits]
      <4>1. base \in [Task -> 0..MaxEdits] /\ saved[t] \in 0..MaxEdits
        BY DEF TypeOK
      <4>2. [base EXCEPT ![t] = saved[t]] \in [Task -> 0..MaxEdits]
        BY <4>1
      <4> QED
        BY <3>1, <4>1, <4>2
    <3>3. head' \in Nat
      BY <3>1 DEF TypeOK
    <3> QED
      BY <3>2, <3>3
  <2>5. landed' \in [Task -> BOOLEAN] /\ baseConfig' \in SUBSET {"own", "sandbox"}
    BY <2>1, <2>2 DEF TypeOK
  <2> QED
    BY <2>2, <2>3, <2>4, <2>5 DEF TypeOK
<1>7. CASE CheckMergeHead(t)
  <2>1. preMerge' \in [Task -> Nat] /\ merging' \in Task \cup {None}
    BY <1>7 DEF CheckMergeHead
  <2> HIDE DEF Finish, Goto
  <2>2. Finish(t, "state") \/ (Goto(t, "purge") /\ UNCHANGED <<result, queueVars>>)
    BY <1>7 DEF CheckMergeHead
  <2>3. UNCHANGED <<agentVars, treeVars, landed, base, baseConfig, head, runVars, faults>>
    BY <1>7 DEF CheckMergeHead
  <2> QED
    BY <1>f, <1>g, <2>1, <2>2, <2>3
<1>8. CASE AbortMerge(t)
  BY <1>8, WorkerAssumption DEF AbortMerge
<1>9. CASE Remove(t)
  BY <1>9, WorkerAssumption DEF Remove, RemoveTree
<1> QED
  BY <1>1, <1>2, <1>3, <1>4, <1>5, <1>6, <1>7, <1>8, <1>9

LEMMA ProcessTyped ==
    ASSUME TypeOK, NEW p \in Process, Cancel(p) \/ Crash(p) \/ NextRun(p)
    PROVE  TypeOK'
<1> USE DEF TypeOK, PCs, InMerge, Alive, Fault, agentVars, treeVars, queueVars, repoVars, runVars
<1>1. CASE Cancel(p)
  BY <1>1, WorkerAssumption DEF Cancel
<1>2. CASE Crash(p)
  BY <1>2, WorkerAssumption DEF Crash
<1>3. CASE NextRun(p)
  BY <1>3, WorkerAssumption DEF NextRun
<1> QED
  BY <1>1, <1>2, <1>3

LEMMA PlanTyped ==
    ASSUME TypeOK, Replan \/ CleanupCommand PROVE TypeOK'
<1> USE DEF TypeOK, Fault, agentVars, treeVars, queueVars, repoVars, runVars
<1>1. CASE Replan
  BY <1>1, WorkerAssumption DEF Replan
<1>2. CASE CleanupCommand
  BY <1>2, WorkerAssumption DEF CleanupCommand
<1> QED
  BY <1>1, <1>2

LEMMA TypesStep ==
    ASSUME TypeOK, [Next]_vars PROVE TypeOK'
<1>1. CASE UNCHANGED vars
  BY <1>1 DEF TypeOK, vars, agentVars, treeVars, queueVars, repoVars, runVars
<1> QED
  BY <1>1, OwnerActs, PreparationTyped, StreamTyped, MergeTyped, ProcessTyped, PlanTyped DEF Next, Agent, Worker
-----------------------------------------------------------------------------
(* What a step of a task leaves alone.                                     *)

Moves(t) == Agent(t) \/ Worker(t) \/ Timeout(t) \/ Watchdog(t)

\* The state of another task.
Aside(u) == /\ pc'[u] = pc[u] /\ result'[u] = result[u] /\ landed'[u] = landed[u]
            /\ child'[u] = child[u] /\ stream'[u] = stream[u] /\ cut'[u] = cut[u]
            /\ base'[u] = base[u] /\ preMerge'[u] = preMerge[u]

LEMMA Others ==
    ASSUME TypeOK, NEW t \in Task, Moves(t)
    PROVE  /\ \A u \in Task : u # t => Aside(u)
           /\ UNCHANGED runVars
<1>t. /\ DOMAIN pc = Task /\ DOMAIN result = Task /\ DOMAIN landed = Task /\ DOMAIN child = Task
      /\ DOMAIN stream = Task /\ DOMAIN cut = Task /\ DOMAIN base = Task /\ DOMAIN preMerge = Task
  BY DEF TypeOK
<1> USE DEF Aside, agentVars, treeVars, queueVars, repoVars
<1>1. CASE BuildContext(t)
  BY <1>t, <1>1 DEF BuildContext, Result
<1>2. CASE RunReadOnly(t)
  BY <1>t, <1>2 DEF RunReadOnly, Result
<1>3. CASE Allocate(t)
  BY <1>t, <1>3 DEF Allocate, Result, Goto
<1>4. CASE PrepareSandbox(t)
  BY <1>t, <1>4 DEF PrepareSandbox, Result, StartStream, Goto
<1>5. CASE Edit(t)
  BY <1>t, <1>5 DEF Edit
<1>6. CASE Report(t)
  BY <1>t, <1>6 DEF Report, Settles
<1>7. CASE ChildCloses(t)
  BY <1>t, <1>7 DEF ChildCloses
<1>8. CASE Timeout(t)
  BY <1>t, <1>8 DEF Timeout, Settles
<1>9. CASE Watchdog(t)
  BY <1>t, <1>9 DEF Watchdog, Goto
<1>10. CASE Consume(t)
  BY <1>t, <1>10 DEF Consume, Goto
<1>11. CASE Close(t)
  BY <1>t, <1>11 DEF Close, Goto
<1>12. CASE Decide(t)
  BY <1>t, <1>12 DEF Decide, CleanupWorktree, QueueMerge, Result, Goto
<1>13. CASE Discard(t)
  BY <1>t, <1>13 DEF Discard, Result
<1>14. CASE MergeTurn(t)
  BY <1>t, <1>14 DEF MergeTurn, Goto
<1>15. CASE CommitRest(t)
  BY <1>t, <1>15 DEF CommitRest, Goto, Finish, Result
<1>16. CASE CountAhead(t)
  BY <1>t, <1>16 DEF CountAhead, Goto, Finish, Result
<1>17. CASE Merge(t)
  BY <1>t, <1>17 DEF Merge, Goto
<1>18. CASE CheckMergeHead(t)
  BY <1>t, <1>18 DEF CheckMergeHead, Goto, Finish, Result
<1>19. CASE AbortMerge(t)
  BY <1>t, <1>19 DEF AbortMerge, Finish, Result
<1>20. CASE Remove(t)
  BY <1>t, <1>20 DEF Remove, Finish, Result
<1> QED
  BY <1>1, <1>2, <1>3, <1>4, <1>5, <1>6, <1>7, <1>8, <1>9, <1>10, <1>11, <1>12, <1>13, <1>14, <1>15, <1>16, <1>17, <1>18, <1>19, <1>20 DEF Moves, Agent, Worker

-----------------------------------------------------------------------------
(* An agent has closed before its worktree is committed.                   *)

Settling == {"stream", "closing", "checking"}
Merging == {"queued"} \cup InMerge

AgentClosed(t) ==
    (pc[t] \in Settling /\ stream[t] = "end") \/ pc[t] \in Merging => child[t] = "gone" \/ cut[t]

AgentInv == \A t \in Task : AgentClosed(t)

LEMMA AgentStep ==
    ASSUME TypeOK, NEW t \in Task, Moves(t), AgentClosed(t) PROVE AgentClosed(t)'
<1>t. DOMAIN pc = Task /\ DOMAIN child = Task /\ DOMAIN stream = Task /\ DOMAIN cut = Task
  BY DEF TypeOK
<1> USE DEF AgentClosed, Settling, Merging, InMerge, agentVars, treeVars, queueVars, repoVars
<1>1. CASE BuildContext(t)
  BY <1>t, <1>1 DEF BuildContext, Result
<1>2. CASE RunReadOnly(t)
  BY <1>t, <1>2 DEF RunReadOnly, Result
<1>3. CASE Allocate(t)
  BY <1>t, <1>3 DEF Allocate, Result, Goto
<1>4. CASE PrepareSandbox(t)
  BY <1>t, <1>4 DEF PrepareSandbox, Result, StartStream, Goto
<1>5. CASE Edit(t)
  BY <1>t, <1>5 DEF Edit
<1>6. CASE Report(t)
  BY <1>t, <1>6 DEF Report, Settles
<1>7. CASE ChildCloses(t)
  BY <1>t, <1>7 DEF ChildCloses
<1>8. CASE Timeout(t)
  BY <1>t, <1>8 DEF Timeout, Settles
<1>9. CASE Watchdog(t)
  BY <1>t, <1>9 DEF Watchdog, Goto
<1>10. CASE Consume(t)
  BY <1>t, <1>10 DEF Consume, Goto
<1>11. CASE Close(t)
  BY <1>t, <1>11 DEF Close, Goto
<1>12. CASE Decide(t)
  BY <1>t, <1>12 DEF Decide, CleanupWorktree, QueueMerge, Result, Goto
<1>13. CASE Discard(t)
  BY <1>t, <1>13 DEF Discard, Result
<1>14. CASE MergeTurn(t)
  BY <1>t, <1>14 DEF MergeTurn, Goto
<1>15. CASE CommitRest(t)
  BY <1>t, <1>15 DEF CommitRest, Goto, Finish, Result
<1>16. CASE CountAhead(t)
  BY <1>t, <1>16 DEF CountAhead, Goto, Finish, Result
<1>17. CASE Merge(t)
  BY <1>t, <1>17 DEF Merge, Goto
<1>18. CASE CheckMergeHead(t)
  BY <1>t, <1>18 DEF CheckMergeHead, Goto, Finish, Result
<1>19. CASE AbortMerge(t)
  BY <1>t, <1>19 DEF AbortMerge, Finish, Result
<1>20. CASE Remove(t)
  BY <1>t, <1>20 DEF Remove, Finish, Result
<1> QED
  BY <1>1, <1>2, <1>3, <1>4, <1>5, <1>6, <1>7, <1>8, <1>9, <1>10, <1>11, <1>12, <1>13, <1>14, <1>15, <1>16, <1>17, <1>18, <1>19, <1>20 DEF Moves, Agent, Worker

LEMMA AgentInvKept ==
    ASSUME TypeOK, AgentInv, [Next]_vars PROVE AgentInv'
<1> SUFFICES ASSUME NEW u \in Task PROVE AgentClosed(u)'
  BY DEF AgentInv
<1>1. AgentClosed(u)
  BY DEF AgentInv
<1>2. ASSUME NEW t \in Task, Moves(t) PROVE AgentClosed(u)'
  <2>1. CASE u = t
    BY <1>1, <1>2, <2>1, AgentStep
  <2>2. CASE u # t
    BY <1>1, <1>2, <2>2, Others DEF Aside, AgentClosed
  <2> QED
    BY <2>1, <2>2
<1>3. ASSUME NEW p, Cancel(p) \/ Crash(p) \/ NextRun(p) PROVE AgentClosed(u)'
  <2> USE DEF AgentClosed, Settling, Merging, InMerge, agentVars, runVars
  <2>1. CASE Cancel(p)
    BY <1>1, <2>1 DEF Cancel
  <2>2. CASE Crash(p)
    BY <1>1, <2>2 DEF Crash
  <2>3. CASE NextRun(p)
    BY <1>1, <2>3 DEF NextRun
  <2> QED
    BY <1>3, <2>1, <2>2, <2>3
<1>4. CASE Replan \/ CleanupCommand \/ UNCHANGED vars
  BY <1>1, <1>4 DEF Replan, CleanupCommand, vars, agentVars, AgentClosed
<1> QED
  BY <1>2, <1>3, <1>4 DEF Next, Moves

-----------------------------------------------------------------------------
(* The merge queue of each process.                                        *)

Queue(p) == {t \in Task : owner[t] = p /\ pc[t] \in Merging}

\* The tasks of the queue in order: each waits for the promise before it, and
\* the map has the last one.
Chain(p, s) ==
    /\ \A i \in 1..Len(s) : s[i] \in Queue(p)
    /\ \A t \in Queue(p) : \E i \in 1..Len(s) : s[i] = t
    /\ \A i, j \in 1..Len(s) : s[i] = s[j] => i = j
    /\ \A i \in 1..Len(s) : prev[s[i]] = IF i = 1 THEN None ELSE s[i - 1]
    /\ tail[p] = IF Len(s) = 0 THEN None ELSE s[Len(s)]

QueueInv ==
    /\ \A p \in Process : \E s \in Seq(Task) : Chain(p, s)
    /\ \A t \in Task : pc[t] \in InMerge => prev[t] = None

\* One merge at a time.
LEMMA OneMerge ==
    ASSUME TypeOK, QueueInv, NEW t \in Task, NEW u \in Task, owner[t] = owner[u],
           pc[t] \in InMerge, pc[u] \in InMerge
    PROVE  t = u
<1>1. owner[t] \in Process
  BY DEF TypeOK
<1>2. PICK s \in Seq(Task) : Chain(owner[t], s)
  BY <1>1 DEF QueueInv
<1>3. t \in Queue(owner[t]) /\ u \in Queue(owner[t])
  BY DEF Queue, Merging
<1>4. PICK i \in 1..Len(s) : s[i] = t
  BY <1>2, <1>3 DEF Chain
<1>5. PICK j \in 1..Len(s) : s[j] = u
  BY <1>2, <1>3 DEF Chain
<1>6. prev[t] = None /\ prev[u] = None
  BY DEF QueueInv
<1>7. \A k \in 1..Len(s) : s[k] # None
  BY <1>2, WorkerAssumption DEF Chain, Queue
<1>8. Len(s) \in Nat
  BY LenProperties
<1>9. ASSUME NEW k \in 1..Len(s), prev[s[k]] = None PROVE k = 1
  <2>1. prev[s[k]] = IF k = 1 THEN None ELSE s[k - 1]
    BY <1>2 DEF Chain
  <2>2. k # 1 => k - 1 \in 1..Len(s)
    BY <1>8
  <2>3. k # 1 => s[k - 1] # None
    BY <1>7, <2>2
  <2> QED
    BY <1>9, <2>1, <2>3
<1>10. i = 1 /\ j = 1
  BY <1>4, <1>5, <1>6, <1>9
<1> QED
  BY <1>4, <1>5, <1>10

\* A queue that is left alone.
LEMMA ChainStays ==
    ASSUME NEW p, NEW s \in Seq(Task), Chain(p, s), Queue(p)' = Queue(p), tail'[p] = tail[p],
           \A t \in Queue(p) : prev'[t] = prev[t]
    PROVE  Chain(p, s)'
<1>1. \A i \in 1..Len(s) : s[i] \in Queue(p) /\ prev[s[i]] = IF i = 1 THEN None ELSE s[i - 1]
  BY DEF Chain
<1>2. \A i \in 1..Len(s) : s[i] \in Queue(p)' /\ prev'[s[i]] = IF i = 1 THEN None ELSE s[i - 1]
  BY <1>1
<1>3. \A t \in Queue(p)' : \E i \in 1..Len(s) : s[i] = t
  BY DEF Chain
<1>4. \A i, j \in 1..Len(s) : s[i] = s[j] => i = j
  BY DEF Chain
<1>5. tail'[p] = IF Len(s) = 0 THEN None ELSE s[Len(s)]
  BY DEF Chain
<1> QED
  BY <1>2, <1>3, <1>4, <1>5 DEF Chain

\* A task queues up.
LEMMA ChainGrows ==
    ASSUME NEW p, NEW s \in Seq(Task), Chain(p, s), NEW t \in Task, t \notin Queue(p),
           Queue(p)' = Queue(p) \cup {t}, tail'[p] = t, prev'[t] = tail[p],
           \A u \in Queue(p) : prev'[u] = prev[u]
    PROVE  \E r \in Seq(Task) : Chain(p, r)'
<1> DEFINE r == Append(s, t)
           n == Len(s)
<1>1. n \in Nat /\ r \in Seq(Task) /\ Len(r) = n + 1 /\ r[n + 1] = t /\ \A i \in 1..n : r[i] = s[i]
  BY AppendProperties, LenProperties
<1> HIDE DEF r
<1>2. 1..(n + 1) = 1..n \cup {n + 1} /\ n + 1 \notin 1..n /\ (n # 0 => n \in 1..n /\ n + 1 # 1) /\ (n + 1) - 1 = n
  BY <1>1
<1>3. \A i \in 1..(n + 1) : r[i] \in Queue(p)'
  BY <1>1, <1>2 DEF Chain
<1>4. \A u \in Queue(p)' : \E i \in 1..(n + 1) : r[i] = u
  BY <1>1, <1>2 DEF Chain
<1>5. \A i, j \in 1..(n + 1) : r[i] = r[j] => i = j
  BY <1>1, <1>2 DEF Chain
<1>6. ASSUME NEW i \in 1..(n + 1) PROVE prev'[r[i]] = IF i = 1 THEN None ELSE r[i - 1]
  <2>1. CASE i \in 1..n
    <3>1. s[i] \in Queue(p) /\ prev[s[i]] = IF i = 1 THEN None ELSE s[i - 1]
      BY <2>1 DEF Chain
    <3>2. i # 1 => i - 1 \in 1..n
      BY <1>1, <2>1
    <3>3. i # 1 => r[i - 1] = s[i - 1]
      BY <1>1, <3>2
    <3> QED
      BY <1>1, <2>1, <3>1, <3>3
  <2>2. CASE i = n + 1
    <3>1. n = 0 => i = 1
      BY <2>2
    <3>2. n # 0 => i # 1 /\ i - 1 = n /\ n \in 1..n
      BY <1>1, <2>2
    <3> QED
      BY <1>1, <2>2, <3>1, <3>2 DEF Chain
  <2> QED
    BY <1>2, <2>1, <2>2
<1>7. tail'[p] = IF Len(r) = 0 THEN None ELSE r[Len(r)]
  BY <1>1
<1>8. Chain(p, r)'
  BY <1>1, <1>3, <1>4, <1>5, <1>6, <1>7 DEF Chain
<1> QED
  BY <1>1, <1>8

\* The first one's merge ends.
LEMMA ChainShrinks ==
    ASSUME NEW p, NEW s \in Seq(Task), Chain(p, s), NEW t \in Queue(p), prev[t] = None,
           Queue(p)' = Queue(p) \ {t}, tail'[p] = IF tail[p] = t THEN None ELSE tail[p],
           \A u \in Queue(p) : prev'[u] = IF prev[u] = t THEN None ELSE prev[u]
    PROVE  \E r \in Seq(Task) : Chain(p, r)'
<1> DEFINE r == Tail(s)
           n == Len(s)
<1>0. n \in Nat
  BY LenProperties
<1>1. PICK k \in 1..n : s[k] = t
  BY DEF Chain
<1>2. n \in Nat /\ \A i \in 1..n : s[i] # None
  BY LenProperties, WorkerAssumption DEF Chain, Queue
<1>3. k = 1
  <2>1. k # 1 => k - 1 \in 1..n
    BY <1>2
  <2> QED
    BY <1>1, <1>2, <2>1 DEF Chain
<1>4. n >= 1 /\ s[1] = t /\ s # <<>>
  BY <1>1, <1>2, <1>3
<1>5. r \in Seq(Task) /\ Len(r) = n - 1 /\ \A i \in 1..(n - 1) : r[i] = s[i + 1]
  BY <1>2, <1>4, HeadTailProperties
<1> HIDE DEF r
<1>6. /\ \A i \in 1..(n - 1) : i + 1 \in 2..n /\ (i + 1) - 1 = i
      /\ \A j \in 2..n : j - 1 \in 1..(n - 1) /\ (j - 1) + 1 = j
      /\ \A j \in 1..n : j = 1 \/ j \in 2..n
      /\ \A j \in 2..n : j \in 1..n /\ j # 1
  BY <1>2
<1>7. \A j \in 2..n : s[j] \in Queue(p)' /\ s[j] # t
  BY <1>4, <1>6 DEF Chain
<1>8. \A i \in 1..(n - 1) : r[i] \in Queue(p)'
  BY <1>5, <1>6, <1>7
<1>9. ASSUME NEW u \in Queue(p)' PROVE \E i \in 1..(n - 1) : r[i] = u
  <2>1. PICK j \in 1..n : s[j] = u
    BY <1>9 DEF Chain
  <2>2. j \in 2..n
    BY <1>4, <1>6, <1>9, <2>1
  <2> QED
    BY <1>5, <1>6, <2>1, <2>2
<1>10. ASSUME NEW i \in 1..(n - 1), NEW j \in 1..(n - 1), r[i] = r[j] PROVE i = j
  <2>1. i + 1 = j + 1
    BY <1>5, <1>6, <1>10 DEF Chain
  <2> QED
    BY <2>1
<1>11. ASSUME NEW i \in 1..(n - 1) PROVE prev'[r[i]] = IF i = 1 THEN None ELSE r[i - 1]
  <2>1. r[i] = s[i + 1] /\ s[i + 1] \in Queue(p) /\ prev[s[i + 1]] = s[i]
    BY <1>5, <1>6 DEF Chain
  <2>2. CASE i = 1
    BY <1>4, <2>1, <2>2
  <2>3. CASE i # 1
    <3>1. i \in 2..n /\ i - 1 \in 1..(n - 1) /\ (i - 1) + 1 = i
      BY <1>2, <2>3
    <3>2. s[i] # t /\ r[i - 1] = s[i]
      BY <1>5, <1>7, <3>1
    <3> QED
      BY <2>1, <2>3, <3>2
  <2> QED
    BY <2>2, <2>3
<1>12. tail'[p] = IF Len(r) = 0 THEN None ELSE r[Len(r)]
  <2>1. CASE n = 1
    BY <1>4, <1>5, <2>1 DEF Chain
  <2>2. CASE n # 1
    <3>0. n >= 2
      <4>1. n >= 1
        BY <1>4
      <4> HIDE DEF n
      <4> QED
        BY <1>0, <2>2, <4>1
    <3>1. n \in 2..n /\ n - 1 \in 1..(n - 1) /\ (n - 1) + 1 = n /\ n # 0 /\ n - 1 # 0
      BY <1>2, <3>0
    <3>2. tail[p] = s[n] /\ s[n] # t /\ r[n - 1] = s[n]
      BY <1>5, <1>7, <3>1 DEF Chain
    <3> QED
      BY <1>5, <3>1, <3>2
  <2> QED
    BY <2>1, <2>2
<1>13. Chain(p, r)'
  BY <1>5, <1>8, <1>9, <1>10, <1>11, <1>12 DEF Chain
<1> QED
  BY <1>5, <1>13

\* What a step of a task does with the queue: nothing, or the task joins it
\* at the end, or it leaves it as its merge ends.
LEMMA QueueMove ==
    ASSUME TypeOK, NEW t \in Task, Moves(t)
    PROVE  \/ /\ UNCHANGED queueVars /\ (pc'[t] \in Merging <=> pc[t] \in Merging)
              /\ pc'[t] \in InMerge => pc[t] \in InMerge \/ prev[t] = None
           \/ /\ pc[t] \notin Merging /\ pc'[t] = "queued"
              /\ prev' = [prev EXCEPT ![t] = tail[owner[t]]] /\ tail' = [tail EXCEPT ![owner[t]] = t]
           \/ /\ pc[t] \in InMerge /\ pc'[t] = "done"
              /\ tail' = [tail EXCEPT ![owner[t]] = IF @ = t THEN None ELSE @]
              /\ prev' = [u \in Task |-> IF prev[u] = t THEN None ELSE prev[u]]
<1>t. DOMAIN pc = Task
  BY DEF TypeOK
<1> USE DEF Merging, InMerge, agentVars, treeVars, queueVars, repoVars
<1>1. CASE BuildContext(t)
  BY <1>t, <1>1 DEF BuildContext, Result, Starts
<1>2. CASE RunReadOnly(t)
  BY <1>t, <1>2 DEF RunReadOnly, Result, Starts
<1>3. CASE Allocate(t)
  BY <1>t, <1>3 DEF Allocate, Result, Goto, Starts
<1>4. CASE PrepareSandbox(t)
  BY <1>t, <1>4 DEF PrepareSandbox, Result, StartStream, Goto
<1>5. CASE Edit(t)
  BY <1>t, <1>5 DEF Edit
<1>6. CASE Report(t)
  BY <1>t, <1>6 DEF Report
<1>7. CASE ChildCloses(t)
  BY <1>t, <1>7 DEF ChildCloses
<1>8. CASE Timeout(t)
  BY <1>t, <1>8 DEF Timeout
<1>9. CASE Watchdog(t)
  BY <1>t, <1>9 DEF Watchdog, Goto
<1>10. CASE Consume(t)
  BY <1>t, <1>10 DEF Consume, Goto
<1>11. CASE Close(t)
  BY <1>t, <1>11 DEF Close, Goto
<1>12. CASE Decide(t)
  BY <1>t, <1>12 DEF Decide, CleanupWorktree, QueueMerge, Result, Goto
<1>13. CASE Discard(t)
  BY <1>t, <1>13 DEF Discard, Result
<1>14. CASE MergeTurn(t)
  BY <1>t, <1>14 DEF MergeTurn, Goto
<1>15. CASE CommitRest(t)
  BY <1>t, <1>15 DEF CommitRest, Goto, Finish, Result
<1>16. CASE CountAhead(t)
  BY <1>t, <1>16 DEF CountAhead, Goto, Finish, Result
<1>17. CASE Merge(t)
  BY <1>t, <1>17 DEF Merge, Goto
<1>18. CASE CheckMergeHead(t)
  BY <1>t, <1>18 DEF CheckMergeHead, Goto, Finish, Result
<1>19. CASE AbortMerge(t)
  BY <1>t, <1>19 DEF AbortMerge, Finish, Result
<1>20. CASE Remove(t)
  BY <1>t, <1>20 DEF Remove, Finish, Result
<1> QED
  BY <1>1, <1>2, <1>3, <1>4, <1>5, <1>6, <1>7, <1>8, <1>9, <1>10, <1>11, <1>12, <1>13, <1>14, <1>15, <1>16, <1>17, <1>18, <1>19, <1>20 DEF Moves, Agent, Worker

LEMMA QueueMoveKept ==
    ASSUME TypeOK, QueueInv, NEW t \in Task, Moves(t) PROVE QueueInv'
<1>o. owner' = owner /\ owner[t] \in Process
  BY Others DEF runVars, TypeOK
<1>a. \A u \in Task : u # t => pc'[u] = pc[u]
  BY Others DEF Aside
<1>t. prev \in [Task -> Task \cup {None}] /\ tail \in [Process -> Task \cup {None}]
  BY DEF TypeOK
<1>1. CASE UNCHANGED queueVars /\ (pc'[t] \in Merging <=> pc[t] \in Merging)
           /\ (pc'[t] \in InMerge => pc[t] \in InMerge \/ prev[t] = None)
  <2>1. UNCHANGED <<prev, tail>>
    BY <1>1 DEF queueVars
  <2>2. ASSUME NEW p \in Process PROVE \E s \in Seq(Task) : Chain(p, s)'
    <3>1. PICK s \in Seq(Task) : Chain(p, s)
      BY DEF QueueInv
    <3>2. Queue(p)' = Queue(p)
      BY <1>1, <1>o, <1>a DEF Queue
    <3> QED
      BY <2>1, <3>1, <3>2, ChainStays
  <2>3. \A u \in Task : pc'[u] \in InMerge => prev'[u] = None
    BY <1>1, <1>a, <2>1 DEF QueueInv
  <2> QED
    BY <2>2, <2>3 DEF QueueInv
<1>2. CASE /\ pc[t] \notin Merging /\ pc'[t] = "queued"
           /\ prev' = [prev EXCEPT ![t] = tail[owner[t]]] /\ tail' = [tail EXCEPT ![owner[t]] = t]
  <2>1. prev'[t] = tail[owner[t]] /\ tail'[owner[t]] = t /\ \A u \in Task : u # t => prev'[u] = prev[u]
    BY <1>2, <1>o, <1>t
  <2>3. ASSUME NEW p \in Process PROVE \E s \in Seq(Task) : Chain(p, s)'
    <3>1. PICK s \in Seq(Task) : Chain(p, s)
      BY DEF QueueInv
    <3>2. CASE p = owner[t]
      <4>1. t \notin Queue(p) /\ Queue(p)' = Queue(p) \cup {t}
        BY <1>2, <1>o, <1>a, <3>2 DEF Queue, Merging
      <4>2. \A u \in Queue(p) : prev'[u] = prev[u]
        BY <2>1, <4>1 DEF Queue
      <4>3. tail'[p] = t /\ prev'[t] = tail[p]
        BY <2>1, <3>2
      <4> QED
        BY <3>1, <4>1, <4>2, <4>3, ChainGrows
    <3>3. CASE p # owner[t]
      <4>1. Queue(p)' = Queue(p) /\ tail'[p] = tail[p] /\ \A u \in Queue(p) : prev'[u] = prev[u]
        BY <1>2, <1>o, <1>a, <1>t, <2>1, <3>3 DEF Queue
      <4> QED
        BY <3>1, <4>1, ChainStays
    <3> QED
      BY <3>2, <3>3
  <2>4. \A u \in Task : pc'[u] \in InMerge => prev'[u] = None
    BY <1>2, <1>a, <2>1 DEF QueueInv, InMerge
  <2> QED
    BY <2>3, <2>4 DEF QueueInv
<1>3. CASE /\ pc[t] \in InMerge /\ pc'[t] = "done"
           /\ tail' = [tail EXCEPT ![owner[t]] = IF @ = t THEN None ELSE @]
           /\ prev' = [u \in Task |-> IF prev[u] = t THEN None ELSE prev[u]]
  <2>1. tail'[owner[t]] = (IF tail[owner[t]] = t THEN None ELSE tail[owner[t]])
        /\ \A u \in Task : prev'[u] = IF prev[u] = t THEN None ELSE prev[u]
    BY <1>3, <1>o, <1>t
  <2>2. prev[t] = None
    BY <1>3 DEF QueueInv
  <2>3. ASSUME NEW p \in Process PROVE \E s \in Seq(Task) : Chain(p, s)'
    <3>1. PICK s \in Seq(Task) : Chain(p, s)
      BY DEF QueueInv
    <3>2. CASE p = owner[t]
      <4>1. t \in Queue(p) /\ Queue(p)' = Queue(p) \ {t}
        BY <1>3, <1>o, <1>a, <3>2 DEF Queue, Merging, InMerge
      <4>2. \A u \in Queue(p) : prev'[u] = IF prev[u] = t THEN None ELSE prev[u]
        BY <2>1 DEF Queue
      <4>3. tail'[p] = IF tail[p] = t THEN None ELSE tail[p]
        BY <2>1, <3>2
      <4> QED
        BY <2>2, <3>1, <4>1, <4>2, <4>3, ChainShrinks
    <3>3. CASE p # owner[t]
      <4>1. Queue(p)' = Queue(p) /\ tail'[p] = tail[p]
        BY <1>3, <1>o, <1>a, <1>t, <3>3 DEF Queue
      <4>2. ASSUME NEW u \in Queue(p) PROVE prev[u] # t
        <5>1. PICK i \in 1..Len(s) : s[i] = u
          BY <3>1 DEF Chain
        <5>2. i # 1 => i - 1 \in 1..Len(s)
          BY LenProperties
        <5>3. i # 1 => s[i - 1] \in Queue(p)
          BY <3>1, <5>2 DEF Chain
        <5>4. prev[u] = IF i = 1 THEN None ELSE s[i - 1]
          BY <3>1, <5>1 DEF Chain
        <5> QED
          BY <3>3, <5>3, <5>4, WorkerAssumption DEF Queue
      <4>3. \A u \in Queue(p) : prev'[u] = prev[u]
        BY <2>1, <4>2 DEF Queue
      <4> QED
        BY <3>1, <4>1, <4>3, ChainStays
    <3> QED
      BY <3>2, <3>3
  <2>4. \A u \in Task : pc'[u] \in InMerge => prev'[u] = None
    BY <1>3, <1>a, <2>1 DEF QueueInv, InMerge
  <2> QED
    BY <2>3, <2>4 DEF QueueInv
<1> QED
  BY <1>1, <1>2, <1>3, QueueMove

LEMMA QueueInvKept ==
    ASSUME TypeOK, QueueInv, [Next]_vars PROVE QueueInv'
<1>1. ASSUME NEW p \in Process, Crash(p) PROVE QueueInv'
  <2>1. /\ pc' = [t \in Task |-> IF owner[t] = p /\ pc[t] # "done" THEN "lost" ELSE pc[t]]
        /\ tail' = [tail EXCEPT ![p] = None] /\ owner' = owner
        /\ prev' = [t \in Task |-> IF owner[t] = p THEN None ELSE prev[t]]
    BY <1>1 DEF Crash, runVars
  <2>2. ASSUME NEW q \in Process PROVE \E s \in Seq(Task) : Chain(q, s)'
    <3>1. CASE q = p
      <4>1. Queue(q)' = {} /\ tail'[q] = None
        BY <2>1, <3>1 DEF Queue, Merging, InMerge, TypeOK
      <4>2. <<>> \in Seq(Task) /\ Len(<<>>) = 0 /\ 1..0 = {}
        BY EmptySeq
      <4> QED
        BY <4>1, <4>2 DEF Chain
    <3>2. CASE q # p
      <4>1. PICK s \in Seq(Task) : Chain(q, s)
        BY DEF QueueInv
      <4>2. Queue(q)' = Queue(q) /\ tail'[q] = tail[q] /\ \A u \in Queue(q) : prev'[u] = prev[u]
        BY <2>1, <3>2 DEF Queue, TypeOK
      <4> QED
        BY <4>1, <4>2, ChainStays
    <3> QED
      BY <3>1, <3>2
  <2>3. \A t \in Task : pc'[t] \in InMerge => prev'[t] = None
    BY <2>1 DEF QueueInv, InMerge
  <2> QED
    BY <2>2, <2>3 DEF QueueInv
<1>2. ASSUME UNCHANGED <<prev, tail>>, \A p \in Process : Queue(p)' = Queue(p),
             \A t \in Task : pc'[t] \in InMerge => pc[t] \in InMerge
      PROVE  QueueInv'
  <2>1. ASSUME NEW p \in Process PROVE \E s \in Seq(Task) : Chain(p, s)'
    <3>1. PICK s \in Seq(Task) : Chain(p, s)
      BY DEF QueueInv
    <3> QED
      BY <1>2, <3>1, ChainStays
  <2> QED
    BY <1>2, <2>1 DEF QueueInv
<1>3. ASSUME NEW p \in Process, NextRun(p) PROVE QueueInv'
  <2>1. /\ UNCHANGED <<prev, tail, owner>>
        /\ \A t \in Task : pc'[t] = pc[t] \/ (pc[t] \in {"done", "lost", "idle"} /\ pc'[t] = "idle")
    BY <1>3 DEF NextRun, queueVars
  <2> QED
    BY <1>2, <2>1 DEF Queue, Merging, InMerge
<1>4. ASSUME UNCHANGED <<prev, tail, owner, pc>> PROVE QueueInv'
  BY <1>2, <1>4 DEF Queue
<1>5. ASSUME NEW p \in Process, Cancel(p) PROVE QueueInv'
  BY <1>4, <1>5 DEF Cancel, queueVars
<1>6. CASE Replan \/ CleanupCommand \/ UNCHANGED vars
  BY <1>4, <1>6 DEF Replan, CleanupCommand, vars, queueVars, runVars
<1> QED
  BY <1>1, <1>3, <1>5, <1>6, QueueMoveKept, OwnerActs DEF Next, Moves

-----------------------------------------------------------------------------
(* The base branch.                                                        *)

OneOwner == \A t, u \in Task : owner[t] = owner[u]
Foreign(t) == \E u \in Task : owner[u] # owner[t]
Ended == {"idle", "done", "lost"}

\* A merge is remembered until the task is attempted again, and the task's end
\* tells of it.
Landing(t) ==
    /\ landed[t] => pc[t] \in {"returned", "purge"} \cup Ended
    /\ pc[t] = "done" /\ landed[t] => result[t] \in {"ok", "removal"} \cup (IF Foreign(t) THEN {"state"} ELSE {})

\* The head noted before a merge is behind the head once it has landed.
HeadNoted(t) == preMerge[t] <= head /\ (pc[t] = "returned" /\ landed[t] => preMerge[t] < head)

\* With one process, MERGE_HEAD after a merge tells whether this one landed.
OwnOutcome(t) == OneOwner /\ pc[t] = "returned" => IF landed[t] THEN merging = None ELSE merging = t

\* A conflict is open while its merge is, or is left by a process that died.
OwnConflict(t) == merging = t /\ runs[owner[t]] = 1 => pc[t] \in {"conflict", "returned", "lost"}

Toolless(t) == t \in readOnly => ~landed[t] /\ pc[t] \in Ended /\ child[t] = "none"
Discarding(t) == pc[t] = "discard" => owner[t] \in cancelled

RepoOf(t) == Landing(t) /\ HeadNoted(t) /\ OwnOutcome(t) /\ OwnConflict(t) /\ Toolless(t) /\ Discarding(t)

RepoInv == \A t \in Task : RepoOf(t)

LEMMA RepoMove ==
    ASSUME TypeOK, NEW t \in Task, Moves(t)
    PROVE  /\ head' \in {head, head + 1}
           /\ merging' = merging \/ (pc[t] \in InMerge /\ merging' \in {t, None})
<1> USE DEF InMerge, repoVars
<1>1. CASE BuildContext(t)
  BY <1>1 DEF BuildContext
<1>2. CASE RunReadOnly(t)
  BY <1>2 DEF RunReadOnly
<1>3. CASE Allocate(t)
  BY <1>3 DEF Allocate
<1>4. CASE PrepareSandbox(t)
  BY <1>4 DEF PrepareSandbox
<1>5. CASE Edit(t)
  BY <1>5 DEF Edit
<1>6. CASE Report(t)
  BY <1>6 DEF Report
<1>7. CASE ChildCloses(t)
  BY <1>7 DEF ChildCloses
<1>8. CASE Timeout(t)
  BY <1>8 DEF Timeout
<1>9. CASE Watchdog(t)
  BY <1>9 DEF Watchdog
<1>10. CASE Consume(t)
  BY <1>10 DEF Consume
<1>11. CASE Close(t)
  BY <1>11 DEF Close
<1>12. CASE Decide(t)
  BY <1>12 DEF Decide
<1>13. CASE Discard(t)
  BY <1>13 DEF Discard
<1>14. CASE MergeTurn(t)
  BY <1>14 DEF MergeTurn
<1>15. CASE CommitRest(t)
  BY <1>15 DEF CommitRest
<1>16. CASE CountAhead(t)
  BY <1>16 DEF CountAhead
<1>17. CASE Merge(t)
  BY <1>17 DEF Merge
<1>18. CASE CheckMergeHead(t)
  BY <1>18 DEF CheckMergeHead
<1>19. CASE AbortMerge(t)
  BY <1>19 DEF AbortMerge
<1>20. CASE Remove(t)
  BY <1>20 DEF Remove
<1> QED
  BY <1>1, <1>2, <1>3, <1>4, <1>5, <1>6, <1>7, <1>8, <1>9, <1>10, <1>11, <1>12, <1>13, <1>14, <1>15, <1>16, <1>17, <1>18, <1>19, <1>20 DEF Moves, Agent, Worker

LEMMA RepoAside ==
    ASSUME TypeOK, QueueInv, NEW t \in Task, Moves(t), NEW u \in Task, u # t, RepoOf(u) PROVE RepoOf(u)'
<1>1. Aside(u) /\ UNCHANGED runVars
  BY Others
<1>2. Landing(u)' /\ Toolless(u)' /\ Discarding(u)'
  BY <1>1 DEF RepoOf, Landing, Toolless, Discarding, Foreign, Aside, runVars
<1>3. HeadNoted(u)'
  <2>1. head \in Nat /\ preMerge[u] \in Nat
    BY DEF TypeOK
  <2>2. head' = head \/ head' = head + 1
    BY RepoMove
  <2>3. preMerge'[u] = preMerge[u] /\ pc'[u] = pc[u] /\ landed'[u] = landed[u]
    BY <1>1 DEF Aside
  <2> QED
    BY <2>1, <2>2, <2>3 DEF RepoOf, HeadNoted
<1>4. OwnOutcome(u)'
  <2>1. OneOwner /\ pc[u] = "returned" => merging' = merging
    BY RepoMove, OneMerge DEF OneOwner, InMerge
  <2> QED
    BY <1>1, <2>1 DEF RepoOf, OwnOutcome, OneOwner, Aside, runVars
<1>5. OwnConflict(u)'
  <2>1. merging' = u => merging = u
    BY RepoMove, WorkerAssumption
  <2> QED
    BY <1>1, <2>1 DEF RepoOf, OwnConflict, Aside, runVars
<1> QED
  BY <1>2, <1>3, <1>4, <1>5 DEF RepoOf

LEMMA RepoStep ==
    ASSUME TypeOK, NEW t \in Task, Moves(t), RepoOf(t) PROVE RepoOf(t)'
<1>t. /\ DOMAIN pc = Task /\ DOMAIN result = Task /\ DOMAIN landed = Task /\ DOMAIN child = Task
      /\ DOMAIN preMerge = Task
      /\ landed[t] \in BOOLEAN /\ head \in Nat /\ preMerge[t] \in Nat
  BY DEF TypeOK
<1>r. UNCHANGED runVars
  BY Others
<1>u. (Foreign(t))' = Foreign(t) /\ OneOwner' = OneOwner /\ (OneOwner \/ Foreign(t))
  BY <1>r DEF runVars, Foreign, OneOwner
<1> USE DEF RepoOf, Landing, HeadNoted, OwnOutcome, OwnConflict, Toolless, Discarding, Ended, InMerge,
            agentVars, treeVars, queueVars, repoVars, runVars
<1>1. CASE BuildContext(t)
  BY <1>t, <1>r, <1>u, <1>1 DEF BuildContext, Result, Starts
<1>2. CASE RunReadOnly(t)
  BY <1>t, <1>r, <1>u, <1>2 DEF RunReadOnly, Result, Starts
<1>3. CASE Allocate(t)
  BY <1>t, <1>r, <1>u, <1>3 DEF Allocate, Result, Goto, Starts
<1>4. CASE PrepareSandbox(t)
  BY <1>t, <1>r, <1>u, <1>4 DEF PrepareSandbox, Result, StartStream, Goto
<1>5. CASE Edit(t)
  BY <1>t, <1>r, <1>u, <1>5 DEF Edit
<1>6. CASE Report(t)
  BY <1>t, <1>r, <1>u, <1>6 DEF Report, Settles
<1>7. CASE ChildCloses(t)
  BY <1>t, <1>r, <1>u, <1>7 DEF ChildCloses, Alive
<1>8. CASE Timeout(t)
  BY <1>t, <1>r, <1>u, <1>8 DEF Timeout, Settles
<1>9. CASE Watchdog(t)
  BY <1>t, <1>r, <1>u, <1>9 DEF Watchdog, Goto
<1>10. CASE Consume(t)
  BY <1>t, <1>r, <1>u, <1>10 DEF Consume, Goto
<1>11. CASE Close(t)
  BY <1>t, <1>r, <1>u, <1>11 DEF Close, Goto
<1>12. CASE Decide(t)
  BY <1>t, <1>r, <1>u, <1>12 DEF Decide, CleanupWorktree, QueueMerge, Result, Goto
<1>13. CASE Discard(t)
  BY <1>t, <1>r, <1>u, <1>13 DEF Discard, Result
<1>14. CASE MergeTurn(t)
  BY <1>t, <1>r, <1>u, <1>14 DEF MergeTurn, Goto
<1>15. CASE CommitRest(t)
  BY <1>t, <1>r, <1>u, <1>15 DEF CommitRest, Goto, Finish, Result
<1>16. CASE CountAhead(t)
  BY <1>t, <1>r, <1>u, <1>16 DEF CountAhead, Goto, Finish, Result
<1>17. CASE Merge(t)
  BY <1>t, <1>r, <1>u, <1>17 DEF Merge, Goto
<1>18. CASE CheckMergeHead(t)
  BY <1>t, <1>r, <1>u, <1>18, WorkerAssumption DEF CheckMergeHead, Goto, Finish, Result
<1>19. CASE AbortMerge(t)
  BY <1>t, <1>r, <1>u, <1>19, WorkerAssumption DEF AbortMerge, Finish, Result
<1>20. CASE Remove(t)
  BY <1>t, <1>r, <1>u, <1>20 DEF Remove, Finish, Result
<1> QED
  BY <1>1, <1>2, <1>3, <1>4, <1>5, <1>6, <1>7, <1>8, <1>9, <1>10, <1>11, <1>12, <1>13, <1>14, <1>15, <1>16, <1>17, <1>18, <1>19, <1>20 DEF Moves, Agent, Worker

LEMMA RepoInvKept ==
    ASSUME TypeOK, QueueInv, RepoInv, [Next]_vars PROVE RepoInv'
<1> SUFFICES ASSUME NEW u \in Task PROVE RepoOf(u)'
  BY DEF RepoInv
<1>r. RepoOf(u)
  BY DEF RepoInv
<1>1. ASSUME NEW t \in Task, Moves(t) PROVE RepoOf(u)'
  <2>1. CASE u = t
    BY <1>r, <1>1, <2>1, RepoStep
  <2>2. CASE u # t
    BY <1>r, <1>1, <2>2, RepoAside
  <2> QED
    BY <2>1, <2>2
<1> USE DEF RepoOf, Landing, HeadNoted, OwnOutcome, OwnConflict, Toolless, Discarding, Ended, OneOwner, Foreign
<1>2. ASSUME NEW p \in Process, Cancel(p) PROVE RepoOf(u)'
  <2>1. /\ UNCHANGED <<pc, result, landed, preMerge, head, merging, owner, readOnly, runs>> /\ cancelled' = cancelled \cup {p}
        /\ child'[u] = (IF pc[u] = "stream" /\ owner[u] = p /\ stream[u] = "open" THEN "dying" ELSE child[u])
    BY <1>2 DEF Cancel, repoVars
  <2> QED
    BY <1>r, <2>1
<1>3. ASSUME NEW p \in Process, Crash(p) PROVE RepoOf(u)'
  <2>1. /\ UNCHANGED <<result, landed, preMerge, head, merging, child, owner, readOnly, runs, cancelled>>
        /\ pc'[u] = (IF owner[u] = p /\ pc[u] # "done" THEN "lost" ELSE pc[u])
    BY <1>3 DEF Crash, repoVars, runVars, agentVars
  <2> QED
    BY <1>r, <2>1
<1>4. ASSUME NEW p \in Process, NextRun(p) PROVE RepoOf(u)'
  <2>1. /\ UNCHANGED <<result, landed, preMerge, head, merging, child, owner, readOnly>>
        /\ cancelled' = cancelled \ {p}
        /\ IF owner[u] = p
           THEN /\ pc[u] \in Ended /\ pc'[u] \in {pc[u], "idle"} /\ runs'[owner[u]] = runs[owner[u]] + 1
           ELSE pc'[u] = pc[u] /\ runs'[owner[u]] = runs[owner[u]]
    BY <1>4 DEF NextRun, repoVars, agentVars, TypeOK
  <2>2. runs[owner[u]] \in 1..MaxRuns
    BY DEF TypeOK
  <2>3. owner[u] = p => runs'[owner'[u]] # 1
    BY <2>1, <2>2, WorkerAssumption
  <2> QED
    BY <1>r, <2>1, <2>3
<1>5. CASE Replan \/ CleanupCommand \/ UNCHANGED vars
  BY <1>r, <1>5 DEF Replan, CleanupCommand, vars, agentVars, repoVars, runVars
<1> QED
  BY <1>1, <1>2, <1>3, <1>4, <1>5, OwnerActs DEF Next, Moves

-----------------------------------------------------------------------------
(* The work: an agent's edits, committed, then merged.                     *)

Counted(t) == saved[t] <= edits[t] /\ base[t] <= edits[t]
Committed(t) == pc[t] \in {"count", "merge", "returned", "purge"} /\ ~cut[t] => saved[t] = edits[t]

Succeeds(t) == (pc[t] = "returned" /\ landed[t]) \/ pc[t] = "purge" \/ (pc[t] = "done" /\ result[t] = "ok")
AllMerged(t) == OneOwner /\ Succeeds(t) /\ ~cut[t] => base[t] = edits[t]
Quiet(t) == pc[t] = "done" /\ result[t] = "ok" /\ ~cut[t] => child[t] \notin {"working", "dying"}
Untouched(t) == t \in readOnly => edits[t] = 0 /\ base[t] = 0

WorkOf(t) == Counted(t) /\ Committed(t) /\ AllMerged(t) /\ Quiet(t) /\ Untouched(t)

WorkInv == \A t \in Task : WorkOf(t)

LEMMA TreeAside ==
    ASSUME Sandboxed, TypeOK, NEW t \in Task, Moves(t), NEW u \in Task, u # t
    PROVE  edits'[u] = edits[u] /\ saved'[u] = saved[u]
<1>t. DOMAIN edits = Task /\ DOMAIN saved = Task
  BY DEF TypeOK
<1> USE DEF treeVars
<1>1. CASE BuildContext(t)
  BY <1>t, <1>1 DEF BuildContext
<1>2. CASE RunReadOnly(t)
  BY <1>t, <1>2 DEF RunReadOnly
<1>3. CASE Allocate(t)
  BY <1>t, <1>3 DEF Allocate
<1>4. CASE PrepareSandbox(t)
  BY <1>t, <1>4 DEF PrepareSandbox
<1>5. CASE Edit(t)
  <2>1. PICK v \in Task :
            /\ Reaches(t, v)
            /\ \/ /\ edits' = [edits EXCEPT ![v] = @ + 1]
                  /\ \E commits \in BOOLEAN : saved' = [saved EXCEPT ![v] = IF commits /\ branch[v] THEN edits[v] + 1 ELSE @]
               \/ UNCHANGED <<edits, saved>>
    BY <1>5 DEF Edit
  <2>2. v = t
    BY <2>1, OwnTreeOnly
  <2> QED
    BY <1>t, <2>1, <2>2
<1>6. CASE Report(t)
  BY <1>t, <1>6 DEF Report
<1>7. CASE ChildCloses(t)
  BY <1>t, <1>7 DEF ChildCloses
<1>8. CASE Timeout(t)
  BY <1>t, <1>8 DEF Timeout
<1>9. CASE Watchdog(t)
  BY <1>t, <1>9 DEF Watchdog
<1>10. CASE Consume(t)
  BY <1>t, <1>10 DEF Consume
<1>11. CASE Close(t)
  BY <1>t, <1>11 DEF Close
<1>12. CASE Decide(t)
  BY <1>t, <1>12 DEF Decide
<1>13. CASE Discard(t)
  BY <1>t, <1>13 DEF Discard
<1>14. CASE MergeTurn(t)
  BY <1>t, <1>14 DEF MergeTurn
<1>15. CASE CommitRest(t)
  BY <1>t, <1>15 DEF CommitRest
<1>16. CASE CountAhead(t)
  BY <1>t, <1>16 DEF CountAhead
<1>17. CASE Merge(t)
  BY <1>t, <1>17 DEF Merge
<1>18. CASE CheckMergeHead(t)
  BY <1>t, <1>18 DEF CheckMergeHead
<1>19. CASE AbortMerge(t)
  BY <1>t, <1>19 DEF AbortMerge
<1>20. CASE Remove(t)
  BY <1>t, <1>20 DEF Remove
<1> QED
  BY <1>1, <1>2, <1>3, <1>4, <1>5, <1>6, <1>7, <1>8, <1>9, <1>10, <1>11, <1>12, <1>13, <1>14, <1>15, <1>16, <1>17, <1>18, <1>19, <1>20 DEF Moves, Agent, Worker

LEMMA WorkStep ==
    ASSUME Sandboxed, TypeOK, NEW t \in Task, Moves(t), AgentClosed(t), RepoOf(t), WorkOf(t) PROVE WorkOf(t)'
<1>t. /\ DOMAIN pc = Task /\ DOMAIN result = Task /\ DOMAIN landed = Task /\ DOMAIN child = Task /\ DOMAIN cut = Task
      /\ DOMAIN edits = Task /\ DOMAIN saved = Task /\ DOMAIN base = Task /\ landed[t] \in BOOLEAN
      /\ edits[t] \in Nat /\ saved[t] \in Nat /\ base[t] \in Nat
  BY DEF TypeOK
<1>r. OneOwner' = OneOwner /\ readOnly' = readOnly
  BY Others DEF runVars, OneOwner
<1>c. /\ pc[t] \in InMerge /\ ~cut[t] => child[t] = "gone"
      /\ t \in readOnly => pc[t] \in Ended /\ child[t] = "none"
      /\ landed[t] => pc[t] \in {"returned", "purge"} \cup Ended
  BY DEF AgentClosed, Merging, RepoOf, Toolless, Landing
<1> USE DEF WorkOf, Counted, Committed, Succeeds, AllMerged, Quiet, Untouched, Ended, InMerge,
            agentVars, treeVars, queueVars, repoVars, runVars
<1>1. CASE BuildContext(t)
  BY <1>t, <1>r, <1>c, <1>1 DEF BuildContext, Result, Starts
<1>2. CASE RunReadOnly(t)
  BY <1>t, <1>r, <1>c, <1>2 DEF RunReadOnly, Result, Starts
<1>3. CASE Allocate(t)
  BY <1>t, <1>r, <1>c, <1>3 DEF Allocate, Result, Goto, Starts
<1>4. CASE PrepareSandbox(t)
  BY <1>t, <1>r, <1>c, <1>4 DEF PrepareSandbox, Result, StartStream, Goto
<1>5. CASE Edit(t)
  <2>1. PICK v \in Task :
            /\ Reaches(t, v)
            /\ \/ /\ edits' = [edits EXCEPT ![v] = @ + 1]
                  /\ \E commits \in BOOLEAN : saved' = [saved EXCEPT ![v] = IF commits /\ branch[v] THEN edits[v] + 1 ELSE @]
               \/ UNCHANGED <<edits, saved>>
    BY <1>5 DEF Edit
  <2>2. v = t
    BY <2>1, OwnTreeOnly
  <2>3. edits'[t] \in {edits[t], edits[t] + 1} /\ saved'[t] \in {saved[t], edits[t] + 1}
        /\ (edits'[t] = edits[t] => saved'[t] = saved[t])
    BY <1>t, <2>1, <2>2
  <2>4. child[t] \in {"working", "dying"} /\ UNCHANGED <<pc, result, cut, child, landed, base>>
    BY <1>5 DEF Edit
  <2> QED
    BY <1>t, <1>r, <1>c, <2>3, <2>4
<1>6. CASE Report(t)
  BY <1>t, <1>r, <1>c, <1>6 DEF Report, Settles
<1>7. CASE ChildCloses(t)
  BY <1>t, <1>r, <1>c, <1>7 DEF ChildCloses
<1>8. CASE Timeout(t)
  BY <1>t, <1>r, <1>c, <1>8 DEF Timeout, Settles
<1>9. CASE Watchdog(t)
  BY <1>t, <1>r, <1>c, <1>9 DEF Watchdog, Goto
<1>10. CASE Consume(t)
  BY <1>t, <1>r, <1>c, <1>10 DEF Consume, Goto
<1>11. CASE Close(t)
  BY <1>t, <1>r, <1>c, <1>11 DEF Close, Goto
<1>12. CASE Decide(t)
  BY <1>t, <1>r, <1>c, <1>12 DEF Decide, CleanupWorktree, QueueMerge, Result, Goto
<1>13. CASE Discard(t)
  BY <1>t, <1>r, <1>c, <1>13 DEF Discard, Result
<1>14. CASE MergeTurn(t)
  BY <1>t, <1>r, <1>c, <1>14 DEF MergeTurn, Goto
<1>15. CASE CommitRest(t)
  BY <1>t, <1>r, <1>c, <1>15 DEF CommitRest, Goto, Finish, Result
<1>16. CASE CountAhead(t)
  BY <1>t, <1>r, <1>c, <1>16 DEF CountAhead, Goto, Finish, Result
<1>17. CASE Merge(t)
  BY <1>t, <1>r, <1>c, <1>17 DEF Merge, Goto
<1>18. CASE CheckMergeHead(t)
  <2>1. UNCHANGED <<agentVars, treeVars, landed, base>> /\ pc[t] = "returned"
        /\ \/ pc'[t] = "done" /\ result'[t] = "state"
           \/ pc'[t] = "purge" /\ merging = None
    BY <1>t, <1>18 DEF CheckMergeHead, Goto, Finish, Result
  <2>2. OneOwner /\ pc'[t] = "purge" => landed[t]
    BY <2>1, WorkerAssumption DEF RepoOf, OwnOutcome
  <2> QED
    BY <1>t, <1>r, <1>c, <2>1, <2>2
<1>19. CASE AbortMerge(t)
  BY <1>t, <1>r, <1>c, <1>19 DEF AbortMerge, Finish, Result
<1>20. CASE Remove(t)
  BY <1>t, <1>r, <1>c, <1>20 DEF Remove, Finish, Result
<1> QED
  BY <1>1, <1>2, <1>3, <1>4, <1>5, <1>6, <1>7, <1>8, <1>9, <1>10, <1>11, <1>12, <1>13, <1>14, <1>15, <1>16, <1>17, <1>18, <1>19, <1>20 DEF Moves, Agent, Worker

LEMMA WorkInvKept ==
    ASSUME Sandboxed, TypeOK, AgentInv, RepoInv, WorkInv, [Next]_vars PROVE WorkInv'
<1> SUFFICES ASSUME NEW u \in Task PROVE WorkOf(u)'
  BY DEF WorkInv
<1>w. WorkOf(u)
  BY DEF WorkInv
<1>1. ASSUME NEW t \in Task, Moves(t) PROVE WorkOf(u)'
  <2>1. CASE u = t
    BY <1>w, <1>1, <2>1, WorkStep DEF AgentInv, RepoInv
  <2>2. CASE u # t
    <3>1. Aside(u) /\ UNCHANGED runVars /\ edits'[u] = edits[u] /\ saved'[u] = saved[u]
      BY <1>1, <2>2, Others, TreeAside
    <3> QED
      BY <1>w, <3>1 DEF Aside, runVars, OneOwner, WorkOf, Counted, Committed, Succeeds, AllMerged, Quiet, Untouched
  <2> QED
    BY <2>1, <2>2
<1> USE DEF WorkOf, Counted, Committed, Succeeds, AllMerged, Quiet, Untouched, OneOwner, agentVars, treeVars, repoVars, runVars
<1>2. ASSUME NEW p \in Process, Cancel(p) PROVE WorkOf(u)'
  BY <1>w, <1>2 DEF Cancel
<1>3. ASSUME NEW p \in Process, Crash(p) PROVE WorkOf(u)'
  BY <1>w, <1>3 DEF Crash
<1>4. ASSUME NEW p \in Process, NextRun(p) PROVE WorkOf(u)'
  BY <1>w, <1>4 DEF NextRun
<1>5. CASE Replan \/ CleanupCommand \/ UNCHANGED vars
  BY <1>w, <1>5 DEF Replan, CleanupCommand, vars
<1> QED
  BY <1>1, <1>2, <1>3, <1>4, <1>5, OwnerActs DEF Next, Moves

-----------------------------------------------------------------------------
(* The theorems.                                                           *)

Inv == TypeOK /\ AgentInv /\ QueueInv /\ RepoInv

LEMMA InvInitially == Init => Inv
<1> SUFFICES ASSUME Init PROVE Inv
  OBVIOUS
<1>1. TypeOK /\ AgentInv
  BY TypesInitially DEF Init, AgentInv, AgentClosed, Settling, Merging, InMerge
<1>2. QueueInv
  <2>1. ASSUME NEW p \in Process PROVE Chain(p, <<>>)
    <3>1. Queue(p) = {} /\ tail[p] = None
      BY DEF Init, Queue, Merging, InMerge
    <3>2. Len(<<>>) = 0 /\ 1..0 = {}
      BY EmptySeq
    <3> QED
      BY <3>1, <3>2 DEF Chain
  <2>2. <<>> \in Seq(Task)
    BY EmptySeq
  <2> QED
    BY <2>1, <2>2 DEF Init, QueueInv, InMerge
<1>3. RepoInv
  BY WorkerAssumption DEF Init, RepoInv, RepoOf, Landing, HeadNoted, OwnOutcome, OwnConflict, Toolless, Discarding, Ended
<1> QED
  BY <1>1, <1>2, <1>3 DEF Inv

LEMMA InvKept == Inv /\ [Next]_vars => Inv'
  BY TypesStep, AgentInvKept, QueueInvKept, RepoInvKept DEF Inv

LEMMA InvAlways == Spec => []Inv
  BY InvInitially, InvKept, PTL DEF Spec

LEMMA WorkAlways ==
    ASSUME Sandboxed PROVE Spec => [](Inv /\ WorkInv)
<1>1. Init => WorkInv
  BY DEF Init, WorkInv, WorkOf, Counted, Committed, Succeeds, AllMerged, Quiet, Untouched
<1>2. Inv /\ WorkInv /\ [Next]_vars => (Inv /\ WorkInv)'
  BY InvKept, WorkInvKept DEF Inv
<1> QED
  BY <1>1, <1>2, InvInitially, PTL DEF Spec

\* Every variable has its type throughout.
THEOREM TypesKept == Spec => []TypeOK
<1>1. Inv => TypeOK
  BY DEF Inv
<1> QED
  BY <1>1, InvAlways, PTL

\* The agent of a task that is being merged has closed, or the watchdog cut
\* it off (run-worker.ts:678-759, claude-cli.ts:476-600).
THEOREM AgentsClosedFirst == Spec => []MergedAfterAgent
<1>1. Inv => MergedAfterAgent
  BY DEF Inv, AgentInv, AgentClosed, Merging, MergedAfterAgent
<1> QED
  BY <1>1, InvAlways, PTL

\* A process merges one branch at a time (worktree.ts:259-275): each merge
\* waits for the promise of the one before it.
OneMergeEach == \A t, u \in Task : owner[t] = owner[u] /\ pc[t] \in InMerge /\ pc[u] \in InMerge => t = u

THEOREM MergesInTurn == Spec => []OneMergeEach
<1>1. Inv => OneMergeEach
  BY OneMerge DEF Inv, OneMergeEach
<1> QED
  BY <1>1, InvAlways, PTL

\* A failed task is in the base branch only if its removal failed after the
\* merge, or another process merges beside it (worktree.ts:332, 364).
THEOREM FailuresUnmerged == Spec => []FailureIsUnmerged
<1>1. Inv => FailureIsUnmerged
  BY DEF Inv, RepoInv, RepoOf, Landing, Foreign, FailureIsUnmerged
<1> QED
  BY <1>1, InvAlways, PTL

\* A merge that ends in its process's first run leaves no conflict of its own
\* open in the checkout (worktree.ts:316, 332).
THEOREM ConflictsClosed == Spec => ConflictIsClosed
<1>1. Inv /\ Inv' /\ [Next]_vars =>
          [\A t \in Task : pc[t] \in InMerge /\ pc'[t] = "done" /\ runs[owner[t]] = 1 => merging' # t]_vars
  <2> SUFFICES ASSUME Inv, Inv', Next, NEW t \in Task,
                      pc[t] \in InMerge, pc'[t] = "done", runs[owner[t]] = 1
               PROVE  merging' # t
    BY DEF vars
  <2>1. owner' = owner /\ (runs'[owner[t]] = 1 \/ pc'[t] # "done")
    <3>1. ASSUME NEW p \in Process, NextRun(p) PROVE pc'[t] # "done"
      BY <3>1 DEF NextRun, InMerge
    <3>2. ASSUME NEW p \in Process, Cancel(p) \/ Crash(p) PROVE UNCHANGED <<owner, runs>>
      BY <3>2 DEF Cancel, Crash, runVars
    <3>3. ASSUME NEW p \in Process, NextRun(p) PROVE owner' = owner
      BY <3>3 DEF NextRun
    <3>4. CASE Replan \/ CleanupCommand
      BY <3>4 DEF Replan, CleanupCommand, runVars
    <3>5. ASSUME NEW u \in Task, Moves(u) PROVE UNCHANGED <<owner, runs>>
      BY <3>5, Others DEF Inv, runVars
    <3> QED
      BY <3>1, <3>2, <3>3, <3>4, <3>5, OwnerActs DEF Next, Moves, Inv
  <2> QED
    BY <2>1 DEF Inv, RepoInv, RepoOf, OwnConflict
<1> QED
  BY <1>1, InvAlways, PTL DEF Spec, ConflictIsClosed

\* With the sandbox on, a task that succeeded has all its agent's edits in the
\* base branch (run-worker.ts:834), the watchdog and other processes apart.
THEOREM SuccessesMerged ==
    ASSUME Sandboxed PROVE Spec => []SuccessIsMerged
<1>1. Inv /\ WorkInv => SuccessIsMerged
  BY DEF WorkInv, WorkOf, AllMerged, Succeeds, OneOwner, SuccessIsMerged
<1> QED
  BY <1>1, WorkAlways, PTL

\* With the sandbox on, a worktree is removed when its work is merged, for a
\* cancelled run, or by hand when no plan names it (worktree.ts:355-369, 426-459).
THEOREM WorkNeverDropped ==
    ASSUME Sandboxed PROVE Spec => WorkIsKept
<1>1. Inv /\ WorkInv /\ [Next]_vars =>
          [\A t \in Task : dir[t] /\ ~dir'[t] =>
              \/ base[t] = edits[t] \/ cut[t] \/ owner[t] \in cancelled \/ t \notin planned
              \/ \E u \in Task : owner[u] # owner[t]]_vars
  <2> SUFFICES ASSUME Inv, WorkInv, Next, NEW u \in Task, dir[u], ~dir'[u]
               PROVE  \/ base[u] = edits[u] \/ cut[u] \/ owner[u] \in cancelled \/ u \notin planned
                      \/ Foreign(u)
    BY DEF vars, Foreign
  <2>t. DOMAIN dir = Task
    BY DEF Inv, TypeOK
  <2>1. ASSUME NEW t \in Task, Discard(t) PROVE owner[u] \in cancelled
    BY <2>t, <2>1 DEF Discard, RemoveTree, Inv, RepoInv, RepoOf, Discarding
  <2>2. ASSUME NEW t \in Task, Remove(t) PROVE base[u] = edits[u] \/ cut[u] \/ Foreign(u)
    <3>1. u = t /\ pc[u] = "purge"
      BY <2>t, <2>2 DEF Remove, RemoveTree
    <3> QED
      BY <3>1 DEF WorkInv, WorkOf, AllMerged, Succeeds, OneOwner, Foreign
  <2>3. CASE CleanupCommand
    BY <2>3 DEF CleanupCommand, Abandoned
  <2>4. ASSUME NEW t \in Task, Moves(t) PROVE Discard(t) \/ Remove(t)
    <3> SUFFICES ASSUME ~Discard(t), ~Remove(t) PROVE dir'[u] = dir[u] \/ dir'[u] = TRUE
      OBVIOUS
    <3>1. CASE Allocate(t) \/ Edit(t)
      BY <2>t, <3>1 DEF Allocate, Edit, treeVars
    <3>2. CASE \/ BuildContext(t) \/ RunReadOnly(t) \/ PrepareSandbox(t) \/ Report(t) \/ ChildCloses(t)
               \/ Timeout(t) \/ Watchdog(t) \/ Consume(t) \/ Close(t) \/ Decide(t)
      BY <3>2 DEF BuildContext, RunReadOnly, PrepareSandbox, Report, ChildCloses, Timeout, Watchdog, Consume, Close, Decide, treeVars
    <3>3. CASE MergeTurn(t) \/ CommitRest(t) \/ CountAhead(t) \/ Merge(t) \/ CheckMergeHead(t) \/ AbortMerge(t)
      BY <3>3 DEF MergeTurn, CommitRest, CountAhead, Merge, CheckMergeHead, AbortMerge, treeVars
    <3> QED
      BY <2>4, <3>1, <3>2, <3>3 DEF Moves, Agent, Worker
  <2>5. CASE Replan \/ \E p \in Process : Cancel(p) \/ Crash(p) \/ NextRun(p)
    BY <2>5 DEF Replan, Cancel, Crash, NextRun, treeVars
  <2> QED
    BY <2>1, <2>2, <2>3, <2>4, <2>5, OwnerActs DEF Next, Moves, Inv
<1> QED
  BY <1>1, WorkAlways, PTL DEF Spec, WorkIsKept
=============================================================================
