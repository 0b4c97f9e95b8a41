----------------------------- MODULE MCTaskPool -----------------------------
(***************************************************************************)
(* Small instances of TaskPool for TLC.  Init already ranges over every    *)
(* acyclic dependency relation on the tasks.  Tasks are not symmetric:     *)
(* their numbers are the order of the sort.                                *)
(***************************************************************************)
EXTENDS TaskPool

\* The tasks that draw on the turn pool; a reviewer draws nothing.
Builders1 == {1}
Builders2 == {1, 2}
Builders3 == {1, 2, 3}
=============================================================================
