------------------------------ MODULE Sandbox ------------------------------
(***************************************************************************)
(* The gate before a worker's file tools (worker-sandbox/src).  Settings   *)
(* written into the worktree name rules and a hook; the claude command     *)
(* reads them when it starts, runs the hook with each call of a file tool, *)
(* and the hook, which reads its configuration anew each time, allows the  *)
(* call or denies it.                                                      *)
(*                                                                         *)
(* A path is the sequence of its names, "/" first when it is absolute.     *)
(* Separators, trailing slashes and, on Windows, the case of letters are   *)
(* not told apart, as normaliseForCompare has it.                          *)
(***************************************************************************)
EXTENDS Integers, Sequences, FiniteSets

WriteTools == {"Write", "Edit"}
ReadTools == {"Read", "Glob", "Grep"}
FileTools == WriteTools \cup ReadTools

Factory == <<"/", "project", ".factory">>
Worktree(task) == Factory \o <<"worktrees", task>>

\* A worker writes in its worktree only, and reads .factory and the templates
\* besides.
SandboxConfig(tree) ==
    [workspaceRoots |-> {tree},
     readOnlyRoots |-> {Factory, <<"/", "templates">>},
     allowSymlinks |-> FALSE]

\* A root is a prefix that ends where a name ends.
PathInsideAny(path, roots) ==
    \E root \in roots : Len(root) <= Len(path) /\ SubSeq(path, 1, Len(root)) = root

NoPath == <<>>
Here == <<".">>

\* A path as seen from cwd; names for the parent come first in it.
ResolveAgainst(cwd, path) ==
    LET ups == {i \in DOMAIN path : path[i] = ".."}
        up == IF Cardinality(ups) < Len(cwd) THEN Cardinality(ups) ELSE Len(cwd) - 1
    IN  IF path = Here THEN cwd
        ELSE IF path # NoPath /\ Head(path) = "/" THEN path
        ELSE SubSeq(cwd, 1, Len(cwd) - up) \o SubSeq(path, Cardinality(ups) + 1, Len(path))

\* The path of a call: a Glob's is the fixed part of its pattern, a Grep
\* without one searches the directory it runs in.
CandidatePath(call) ==
    IF call.path # NoPath THEN call.path
    ELSE IF call.tool = "Grep" \/ (call.tool = "Glob" /\ call.hasPattern) THEN Here
    ELSE NoPath

Roots(tool, config) == config.workspaceRoots \cup (IF tool \in WriteTools THEN {} ELSE config.readOnlyRoots)

InScope(call, candidate, config) ==
    /\ candidate # NoPath
    /\ ~call.symlink \/ config.allowSymlinks
    /\ PathInsideAny(ResolveAgainst(call.cwd, candidate), Roots(call.tool, config))

EvaluateToolCall(call, config) ==
    IF call.tool \in FileTools => InScope(call, CandidatePath(call), config) THEN "allow" ELSE "deny"

\* An event the hook cannot read is denied.
IsHookInput(event) == event.tool # "" /\ event.cwd # NoPath
RunHook(event, config) == IF IsHookInput(event) THEN EvaluateToolCall(event, config) ELSE "deny"

\* So is every call once the configuration is gone.
NoConfig == [workspaceRoots |-> {}, readOnlyRoots |-> {}, allowSymlinks |-> FALSE]
ValidConfig(config) == config # NoConfig
HookRuntime(event, config) == IF ValidConfig(config) THEN RunHook(event, config) ELSE "deny"

\* The rules written into the settings, whatever the hook says.
Home == <<"/", "home">>
Secrets == {Append(Home, name) : name \in {".ssh", ".aws", ".gnupg", ".config", ".netrc"}}
System == {<<"/", "etc">>, <<"/", "Windows">>}
StaticDeny(call) ==
    LET path == ResolveAgainst(call.cwd, call.path)
    IN  call.path # NoPath /\
        CASE call.tool \in WriteTools -> PathInsideAny(path, Secrets \cup System)
          [] call.tool = "Read" -> PathInsideAny(path, Secrets \cup System \cup {<<"/", "proc">>, <<"/", "sys">>, <<"/", "root">>})
          [] call.tool = "Bash" -> PathInsideAny(path, Secrets \cup System)
          [] OTHER -> FALSE

\* The settings: rules, and the hook for the file tools.
Permitted(call, config) ==
    /\ ~StaticDeny(call)
    /\ call.tool \in FileTools => HookRuntime(call, config) = "allow"

\* Before a worker starts, its gate must let it read a file of its worktree.
SmokeCheck(tree) ==
    EvaluateToolCall([tool |-> "Read", cwd |-> tree, path |-> tree \o <<"smoke">>, hasPattern |-> FALSE, symlink |-> FALSE],
                     SandboxConfig(tree)) = "allow"
=============================================================================
