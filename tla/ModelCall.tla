----------------------------- MODULE ModelCall -----------------------------
(***************************************************************************)
(* One call of a model, as the agents of the pipeline make it              *)
(* (providers/src): the category is resolved to a provider that is there,  *)
(* the claude command is spawned and collected, its envelope is read.      *)
(* Prompts, texts and prices are left out: what matters is how a call may  *)
(* come to nothing.                                                        *)
(***************************************************************************)
EXTENDS Naturals

\* What the host has: the binary, and how `claude --version` ends.
Host == [binary : BOOLEAN, version : {"zero", "nonzero", "throws"}]

Available(host) == host.binary /\ host.version = "zero"

\* An entry of a category's chain: an override of it, then its fall-backs.
Entry == [registered : BOOLEAN, host : Host]
ChainLength == 2   \* bound
Chains == [1..ChainLength -> Entry]

\* resolve: the first entry whose provider is registered and available.
Resolves(chain) == \E i \in DOMAIN chain : chain[i].registered /\ Available(chain[i].host)

\* Arguments for a Windows batch file are refused when one holds a line break.
Spawns == {"refused", "error", "started"}

\* A child that was started closes with an exit code, unless its standard input
\* breaks, its deadline comes or its caller aborts.
Ending == {"zero", "nonzero", "unfed", "timeout", "aborted"}

\* Standard output: nothing, no JSON, an envelope of an error or of a result.
Envelope == {"empty", "unparsable", "error", "result"}

Child == [spawn : Spawns, end : Ending, out : Envelope]

Answered(child) == child = [spawn |-> "started", end |-> "zero", out |-> "result"]

Outcome(chain, child) == CASE ~Resolves(chain) -> "unresolved"
                           [] Answered(child) -> "answered"
                           [] OTHER -> "failed"

Outcomes == {Outcome(chain, child) : chain \in Chains, child \in Child}

\* The text of an answer: no balanced object, one of another shape, or the one
\* that was asked for.
Replies == {"no object", "other shape", "object"}
Usable(reply) == reply = "object"

=============================================================================
