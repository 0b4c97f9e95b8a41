----------------------------- MODULE Coherence -----------------------------
(***************************************************************************)
(* The validator of a project's knowledge area (coherence-validator/src):  *)
(* the pages of features and decisions, and what the features refer to.  A *)
(* page is the set of the fields and sections of it that are in order.     *)
(***************************************************************************)
EXTENDS FiniteSets

FeatureFields == {"yaml", "kind", "id", "status", "documented_in"}
DecisionFields == {"yaml", "kind", "id", "made_by_task", "date", "modifies", "sections"}

\* Of a page whose front matter is not YAML nothing else is said.
Errors(page, fields) == IF "yaml" \in page THEN fields \ page ELSE {"yaml"}

FeatureErrors(page) == Errors(page, FeatureFields)
DecisionErrors(page) == Errors(page, DecisionFields)

\* An entry of documented_in or implements: it holds, it is no text (and is
\* passed over), or the document, the heading or the task is not there.
Reference == {"holds", "no text", "no file", "no anchor", "no task"}
ReferenceErrors(refs) == refs \ {"holds", "no text"}

\* Bound: at most one page of a kind.
Features == [page : SUBSET FeatureFields, refs : SUBSET Reference]
Areas == [there : BOOLEAN,
          features : {{}} \cup {{f} : f \in Features},
          decisions : {{}} \cup {{d} : d \in SUBSET DecisionFields}]

\* References are followed from the features that are in order only.
Findings(area) ==
    UNION {FeatureErrors(f.page) : f \in area.features}
    \cup UNION {DecisionErrors(d) : d \in area.decisions}
    \cup UNION {ReferenceErrors(f.refs) : f \in {g \in area.features : FeatureErrors(g.page) = {}}}

\* validateKnowledgeGraph: a project without the area is in order.
Coherent(area) == area.there => Findings(area) = {}

Verdicts == {Coherent(area) : area \in Areas}

=============================================================================
