---------------------------- MODULE MCWorkerRun ----------------------------
(* Two tasks whose edits conflict, each run by the daemon or by an inline   *)
(* build on the same project.                                               *)
EXTENDS WorkerRun, TLC

CONSTANTS a, b, daemon, inline

MCTask == {a, b}
MCProcess == {daemon, inline}
MCConflict == {<<a, b>>, <<b, a>>}
Symmetric == Permutations(MCTask) \cup Permutations(MCProcess)
=============================================================================
