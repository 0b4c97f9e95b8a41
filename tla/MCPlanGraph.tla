---------------------------- MODULE MCPlanGraph ----------------------------
(***************************************************************************)
(* Small instances of PlanGraph for TLC.  Init ranges over every graph the *)
(* planner can answer with, self-references and unknown indexes included.  *)
(***************************************************************************)
EXTENDS PlanGraph

CONSTANTS f1, f2
=============================================================================
