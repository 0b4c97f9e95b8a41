----------------------------- MODULE MCBuildRun -----------------------------
(* Small instances of BuildRun: the projects' languages are named in the cfg. *)
EXTENDS BuildRun
=============================================================================
