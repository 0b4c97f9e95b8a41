--------------------------- MODULE MCProjectFiles ---------------------------
(* New findings and resolutions, under directives with a project id and     *)
(* without, and a backfill beside a claim, two new projects, a deletion and *)
(* two budget edits; any four of the jobs are called.                       *)
EXTENDS ProjectFiles
=============================================================================
