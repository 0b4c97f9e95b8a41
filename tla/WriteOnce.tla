------------------------------ MODULE WriteOnce ------------------------------
(***************************************************************************)
(* What ADR 0030 promises of an answer: "Once `answered_by` is non-NULL,   *)
(* the row is final" and "the answer log is immutable post-write".  A cell *)
(* is empty until somebody writes it and keeps that value for ever; who    *)
(* reads gets the value of a written cell, never a placeholder.            *)
(***************************************************************************)
CONSTANTS Cell, Reader, Value, Empty

VARIABLES cell,     \* the value of each cell, or Empty
          seen      \* what each reader read last, or Empty

vars == <<cell, seen>>

Init ==
    /\ cell = [c \in Cell |-> Empty]
    /\ seen = [r \in Reader |-> Empty]

Write(c, v) ==
    /\ cell[c] = Empty
    /\ cell' = [cell EXCEPT ![c] = v]
    /\ UNCHANGED seen

Read(r, c) ==
    /\ cell[c] # Empty
    /\ seen' = [seen EXCEPT ![r] = cell[c]]
    /\ UNCHANGED cell

\* A reader starts anew, or all do when their process dies.
Forget(R) ==
    /\ seen' = [r \in Reader |-> IF r \in R THEN Empty ELSE seen[r]]
    /\ UNCHANGED cell

Next ==
    \/ \E c \in Cell, v \in Value : Write(c, v)
    \/ \E r \in Reader, c \in Cell : Read(r, c)
    \/ \E R \in SUBSET Reader : Forget(R)

Spec == Init /\ [][Next]_vars
=============================================================================
