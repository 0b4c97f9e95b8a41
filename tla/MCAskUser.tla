------------------------------ MODULE MCAskUser ------------------------------
(***************************************************************************)
(* A small instance of AskUser for TLC: the pipeline p, the worker w1, one *)
(* text r1 of a reply; the failure of an automatic answer is another text, *)
(* so an overwritten answer differs from the first.                        *)
(***************************************************************************)
EXTENDS AskUser

CONSTANTS p, w1, r1
=============================================================================
