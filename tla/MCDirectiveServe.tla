-------------------------- MODULE MCDirectiveServe --------------------------
(***************************************************************************)
(* Small instances of DirectiveServe for TLC.  A directive is a model      *)
(* value, its kind and autonomy given by the sets the .cfg puts it in.     *)
(* In the runs that search every state, directives differ in kind,         *)
(* autonomy or executor, so no symmetry is declared.                       *)
(***************************************************************************)
EXTENDS DirectiveServe

CONSTANTS b1, b2,       \* Build directives, of the same project
          c1            \* a Chat directive
=============================================================================
