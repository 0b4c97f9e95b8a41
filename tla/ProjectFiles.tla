---------------------------- MODULE ProjectFiles ----------------------------
(***************************************************************************)
(* A project's files under .factory and the rows that mirror them:         *)
(* findings.json (wiki/src/findings.ts) with the findings registry         *)
(* (state/src/queries/findings-registry.ts), and project.json              *)
(* (wiki/src/project-metadata.ts) with the projects table.  Tasks of the   *)
(* daemon, its routes and the cli read a file whole, change what they read *)
(* and write it whole; nothing orders them.  "writeFileAtomic" truncates   *)
(* the file and writes it, in two steps, because a rename does not replace *)
(* a file on Windows.                                                      *)
(*                                                                         *)
(* A job is one call; findings are named by the job that adds them, the    *)
(* ids F1, F2, ... are numbers.                                            *)
(***************************************************************************)
EXTENDS Integers, FiniteSets

CONSTANTS
    Add,        \* jobs: addFinding by a worker, under a directive
    PostMerge,  \* jobs: addFinding by the brain, of what it finds after a merge
    Mark,       \* jobs: updateFindingStatus, a worker's RESOLUTION marker
    CliMark,    \* jobs: `factory findings mark`, which starts from the registry
    Backfill,   \* jobs: `factory findings backfill`
    Claim,      \* jobs: loadOrCreateProjectMetadata, then the projects row
    Create,     \* jobs: a new project from the web interface
    InitCmd,    \* jobs: `factory init`
    Delete,     \* jobs: `factory project delete`
    Edit,       \* jobs: a budget edit, by the web interface or the cli
    Bump,       \* jobs: bumpProjectCap, by a task that hit its cap
    Nameless,   \* which of Add and Mark work under a directive without a project id
    MaxJobs,    \* bound: how many of the jobs are ever called
    MaxFaults,  \* bound: failing mirrors and crashes
    None

Adders == Add \cup PostMerge
Finders == Adders \cup Mark \cup CliMark
Scaffolders == Create \cup InitCmd
Claimers == Claim \cup Scaffolders
Editors == Edit \cup Bump
Job == Finders \cup Backfill \cup Claimers \cup Editors \cup Delete
JsonFile == {"findings", "project"}
FileOf(j) == IF j \in Finders \cup Backfill THEN "findings" ELSE "project"

\* A job is one call, of one kind.
ASSUME FilesAssumption ==
    /\ IsFiniteSet(Job) /\ None \notin Job
    /\ Add \cap PostMerge = {} /\ Mark \cap CliMark = {} /\ Adders \cap (Mark \cup CliMark) = {}
    /\ Finders \cap Backfill = {} /\ Claim \cap Scaffolders = {} /\ Create \cap InitCmd = {}
    /\ Edit \cap Bump = {} /\ Claimers \cap Editors = {} /\ Delete \cap (Claimers \cup Editors) = {}
    /\ (Finders \cup Backfill) \cap (Claimers \cup Editors \cup Delete) = {}
    /\ Nameless \subseteq Add \cup Mark
    /\ MaxJobs \in Nat /\ MaxFaults \in Nat

Id == 1..Cardinality(Adders)
Status == {"OPEN", "FIXED"}
Finding == [of : Adders, status : Status]
Row == [of : Adders, status : Status]
Meta == [id : Claimers, cap : 0..1, auto : BOOLEAN]
NoFindings == [next |-> 1, items |-> <<>>]

ASSUME NoneAssumption == None \notin Meta

VARIABLES
    pc,        \* of each job: "never" called, "idle", "loaded", "open", "written",
               \* "done", "purged" the directory, "failed" or "dead"
    copy,      \* what the job read, then what it writes
    id,        \* the finding id a finder works on; 1 for a scaffolder under way
    file,      \* each file: "absent", "empty" (truncated), "garbled" or "whole"
    data,      \* what a whole file says
    registry,  \* findings_registry of this project: ids to rows
    projects,  \* ids in the projects table
    claudeMd,  \* CLAUDE.md exists
    overlap,   \* the files two jobs have worked on at once
    faults     \* mirrors that failed and crashes so far

fileVars == <<pc, copy, id, file, data, registry, projects, claudeMd, overlap, faults>>

Busy(j) == pc[j] \in {"loaded", "open", "written"}
Writing(f) == \E j \in Job : FileOf(j) = f /\ pc[j] = "open"
AtRest == \A j \in Job : pc[j] \in {"never", "idle", "done", "purged", "failed", "dead"}

IdsIn(findings) == DOMAIN findings.items

FilesTypeOK ==
    /\ pc \in [Job -> {"never", "idle", "loaded", "open", "written", "done", "purged", "failed", "dead"}]
    /\ id \in [Job -> Id \cup {1, None}]
    /\ file \in [JsonFile -> {"absent", "empty", "garbled", "whole"}]
    /\ file["findings"] = "whole" => \A i \in IdsIn(data.findings) : i \in Id /\ data.findings.items[i] \in Finding
    /\ file["project"] = "whole" => data.project \in Meta
    /\ DOMAIN registry \subseteq Id /\ \A i \in DOMAIN registry : registry[i] \in Row
    /\ projects \subseteq Claimers /\ claudeMd \in BOOLEAN
    /\ overlap \subseteq JsonFile /\ faults \in 0..MaxFaults

-----------------------------------------------------------------------------
(* Reading and writing a file.                                             *)

Fault == /\ faults < MaxFaults
         /\ faults' = faults + 1

Goto(j, step) == pc' = [pc EXCEPT ![j] = step]

\* A file that is there and does not parse throws; one that is not there is
\* empty to the findings, undefined to the metadata.
Unreadable(f) == file[f] \in {"empty", "garbled"}

\* Another job of the file has begun and not ended.
Overlaps(j) == \E k \in Job \ (Delete \cup {j}) : FileOf(k) = FileOf(j) /\ Busy(k)

Loads(j, what) ==
    /\ copy' = [copy EXCEPT ![j] = what]
    /\ Goto(j, "loaded")
    /\ overlap' = overlap \cup (IF Overlaps(j) THEN {FileOf(j)} ELSE {})

\* The longer of two texts shows how much is left of it under the other.
Longer(a, b) == IF DOMAIN a = {"next", "items"} THEN Cardinality(IdsIn(a)) > Cardinality(IdsIn(b))
                ELSE FALSE

\* writeFile truncates the file ...
Open(j) ==
    /\ pc[j] = "loaded" /\ j \notin Backfill \cup Delete
    /\ Goto(j, "open")
    /\ file' = [file EXCEPT ![FileOf(j)] = "empty"]
    /\ UNCHANGED <<copy, id, data, registry, projects, claudeMd, overlap, faults>>

\* ... and writes.  Over a text another job has written since the truncation,
\* the end of a longer one stays, and the file no longer parses.
Write(j) ==
    LET f == FileOf(j)
        mine == copy[j]
        tails == IF file[f] # "whole" \/ data[f] = mine \/ Longer(mine, data[f]) THEN {FALSE}
                 ELSE IF Longer(data[f], mine) THEN {TRUE} ELSE BOOLEAN
    IN  /\ pc[j] = "open"
        /\ Goto(j, "written")
        /\ \E tail \in tails : file' = [file EXCEPT ![f] = IF tail \/ @ = "garbled" THEN "garbled" ELSE "whole"]
        /\ data' = [data EXCEPT ![f] = mine]
        /\ UNCHANGED <<copy, id, registry, projects, claudeMd, overlap, faults>>

-----------------------------------------------------------------------------
(* Findings.                                                               *)

Readable(f) == IF file[f] = "absent" THEN NoFindings ELSE data[f]

Put(items, i, finding) == [k \in DOMAIN items \cup {i} |-> IF k = i THEN finding ELSE items[k]]

Added(old, j) == [next |-> old.next + 1,
                  items |-> Put(old.items, old.next, [of |-> j, status |-> "OPEN"])]

Resolved(findings, i) == [findings EXCEPT !.items = Put(@, i, [@[i] EXCEPT !.status = "FIXED"])]

Throws(j) == /\ Goto(j, "failed")
             /\ UNCHANGED <<copy, id, overlap>>

\* A bug: a file that does not parse is taken for a missing one.
DamagedIsMissing(j) ==
    LET old == IF Unreadable("findings") THEN NoFindings ELSE Readable("findings") IN
    /\ j \in Add /\ pc[j] = "idle"
    /\ Loads(j, Added(old, j))
    /\ id' = [id EXCEPT ![j] = old.next]
    /\ UNCHANGED <<file, data, registry, projects, claudeMd, faults>>

LoadsToAdd(j) ==
    LET old == Readable("findings") IN
    IF Unreadable("findings") THEN Throws(j)
    ELSE /\ Loads(j, Added(old, j))
         /\ id' = [id EXCEPT ![j] = old.next]

\* A FINDING marker of a worker's answer; one that throws ends the worker.
LoadToAdd(j) ==
    /\ j \in Add /\ pc[j] = "idle"
    /\ LoadsToAdd(j)
    /\ UNCHANGED <<file, data, registry, projects, claudeMd, faults>>

\* A finding about the merged project, as after each task and at the end of a
\* directive; one that throws is skipped.
LoadPostMerge(j) ==
    /\ j \in PostMerge /\ pc[j] = "idle"
    /\ LoadsToAdd(j)
    /\ UNCHANGED <<file, data, registry, projects, claudeMd, faults>>

LoadsToMark(j, i) ==
    LET old == Readable("findings") IN
    IF Unreadable("findings") \/ i \notin IdsIn(old) THEN Throws(j)
    ELSE /\ Loads(j, Resolved(old, i))
         /\ id' = [id EXCEPT ![j] = i]

\* A RESOLUTION marker names any id; one that throws is skipped.
LoadToMark(j) ==
    /\ j \in Mark /\ pc[j] = "idle"
    /\ \E i \in Id : LoadsToMark(j, i)
    /\ UNCHANGED <<file, data, registry, projects, claudeMd, faults>>

\* The cli takes an id of the registry.
LoadToCliMark(j) ==
    /\ j \in CliMark /\ pc[j] = "idle"
    /\ \E i \in DOMAIN registry : LoadsToMark(j, i)
    /\ UNCHANGED <<file, data, registry, projects, claudeMd, faults>>

\* A bug: the mirror inserts a row but never updates it.
MirrorOnce(j) ==
    /\ pc[j] = "written" /\ j \in Finders \ PostMerge
    /\ Goto(j, "done")
    /\ \/ /\ registry' = IF j \in Nameless \/ id[j] \in DOMAIN registry THEN registry
                          ELSE Put(registry, id[j], copy[j].items[id[j]])
          /\ UNCHANGED faults
       \/ /\ j \notin Nameless
          /\ Fault
          /\ UNCHANGED registry
    /\ UNCHANGED <<copy, id, file, data, projects, claudeMd, overlap>>

\* mirrorToRegistry: one upsert, best effort; none at all for a directive that
\* carries no project id, as those begun from a chat.
Mirror(j) ==
    /\ pc[j] = "written" /\ j \in Finders \ PostMerge
    /\ Goto(j, "done")
    /\ \/ /\ j \notin Nameless
          /\ registry' = Put(registry, id[j], copy[j].items[id[j]])
          /\ UNCHANGED faults
       \/ /\ j \notin Nameless
          /\ Fault
          /\ UNCHANGED registry
       \/ /\ j \in Nameless
          /\ UNCHANGED <<registry, faults>>
    /\ UNCHANGED <<copy, id, file, data, projects, claudeMd, overlap>>

\* The brain's calls name no registry.
PostMergeEnds(j) ==
    /\ pc[j] = "written" /\ j \in PostMerge
    /\ Goto(j, "done")
    /\ UNCHANGED <<copy, id, file, data, registry, projects, claudeMd, overlap, faults>>

\* backfill reads the file, then project.json, then upserts what it read.
BackfillReads(j) ==
    /\ j \in Backfill /\ pc[j] = "idle"
    /\ file["findings"] # "absent"
    /\ IF Unreadable("findings") THEN Throws(j)
       ELSE Loads(j, data["findings"]) /\ UNCHANGED id
    /\ UNCHANGED <<file, data, registry, projects, claudeMd, faults>>

BackfillUpserts(j) ==
    /\ j \in Backfill /\ pc[j] = "loaded"
    /\ IF file["project"] # "whole" THEN Goto(j, "failed") /\ UNCHANGED registry
       ELSE /\ Goto(j, "done")
            /\ registry' = [i \in IdsIn(copy[j]) \cup DOMAIN registry |->
                               IF i \in IdsIn(copy[j]) THEN copy[j].items[i] ELSE registry[i]]
    /\ UNCHANGED <<copy, id, file, data, projects, claudeMd, overlap, faults>>

-----------------------------------------------------------------------------
(* project.json.                                                           *)

\* createProject refuses a project that has an identity or a CLAUDE.md; a
\* project.json it cannot read is none.
Scaffold(j) ==
    /\ j \in Scaffolders /\ pc[j] = "idle" /\ id[j] = None
    /\ IF file["project"] = "whole" \/ claudeMd
       THEN Goto(j, "failed") /\ UNCHANGED <<id, claudeMd>>
       ELSE /\ claudeMd' = TRUE
            /\ id' = [id EXCEPT ![j] = 1]
            /\ UNCHANGED pc
    /\ UNCHANGED <<copy, file, data, registry, projects, overlap, faults>>

\* A bug: an identity that is there is claimed anew.
AlwaysClaim(j) ==
    /\ j \in Claimers /\ pc[j] = "idle"
    /\ j \in Scaffolders => id[j] # None
    /\ IF Unreadable("project") THEN Throws(j)
       ELSE Loads(j, [id |-> j, cap |-> 0, auto |-> FALSE])
    /\ UNCHANGED <<id, file, data, registry, projects, claudeMd, faults>>

\* An identity there is adopted, never replaced; a damaged one throws.
LoadToClaim(j) ==
    /\ j \in Claimers /\ pc[j] = "idle"
    /\ j \in Scaffolders => id[j] # None
    /\ IF Unreadable("project") THEN Throws(j)
       ELSE IF file["project"] = "whole"
            THEN /\ copy' = [copy EXCEPT ![j] = data["project"]]
                 /\ Goto(j, "written")
                 /\ UNCHANGED overlap
            ELSE Loads(j, [id |-> j, cap |-> 0, auto |-> FALSE])
    /\ UNCHANGED <<id, file, data, registry, projects, claudeMd, faults>>

\* upsert: one row per identity; the rest of a row is not told apart.
Enlisted(j) ==
    /\ pc[j] = "written"
    /\ Goto(j, "done")
    /\ projects' = projects \cup {copy[j].id}
    /\ UNCHANGED <<copy, id, file, data, registry, claudeMd, overlap, faults>>

\* A build, from any front end, enlists the project it claimed ...
EnlistBuild(j) == j \in Claim /\ Enlisted(j)

\* ... and so does a new project.
EnlistProject(j) == j \in Create /\ Enlisted(j)

\* `factory init` does not enlist it: its first build will.
InitEnds(j) ==
    /\ pc[j] = "written" /\ j \in InitCmd
    /\ Goto(j, "done")
    /\ UNCHANGED <<copy, id, file, data, registry, projects, claudeMd, overlap, faults>>

\* `factory project delete` takes the row of one project first ...
Unregister(j) ==
    /\ j \in Delete /\ pc[j] = "idle"
    /\ \E p \in projects, purge \in BOOLEAN :
          /\ projects' = projects \ {p}
          /\ Goto(j, IF purge THEN "loaded" ELSE "done")
          /\ copy' = [copy EXCEPT ![j] = p]
    /\ UNCHANGED <<id, file, data, registry, claudeMd, overlap, faults>>

\* ... and with --purge its directory then, which may fail.  What is being
\* written goes to a file that is no longer there.
Purge(j) ==
    /\ j \in Delete /\ pc[j] = "loaded"
    /\ \/ /\ pc' = [k \in Job |-> IF k = j THEN "purged" ELSE IF pc[k] = "open" THEN "written" ELSE pc[k]]
          /\ file' = [f \in JsonFile |-> "absent"]
          /\ data' = [f \in JsonFile |-> None]
          /\ claudeMd' = FALSE
          /\ UNCHANGED faults
       \/ /\ Fault
          /\ Goto(j, "failed")
          /\ UNCHANGED <<file, data, claudeMd>>
    /\ UNCHANGED <<copy, id, registry, projects, overlap>>

\* The three edits.  The web interface's replaces the budget keys; the cli's
\* keeps those it does not set; a task that hit its cap raises one key.
Replaced(old, cap, auto) == [old EXCEPT !.cap = cap, !.auto = auto]
Merged(old, cap) == [old EXCEPT !.cap = cap]
RaisedCap(old) == [old EXCEPT !.cap = 1]

\* updateProjectMetadata, for a project in the table.
LoadToEdit(j) ==
    LET old == data["project"] IN
    /\ j \in Editors /\ pc[j] = "idle" /\ projects # {}
    /\ IF file["project"] # "whole" THEN Throws(j)
       ELSE \/ j \in Edit /\ \E cap \in 0..1, auto \in BOOLEAN : Loads(j, Replaced(old, cap, auto))
            \/ j \in Edit /\ \E cap \in 0..1 : Loads(j, Merged(old, cap))
            \/ j \in Bump /\ Loads(j, RaisedCap(old))
    /\ UNCHANGED <<id, file, data, registry, projects, claudeMd, faults>>

EditDone(j) ==
    /\ pc[j] = "written" /\ j \in Editors
    /\ Goto(j, "done")
    /\ UNCHANGED <<copy, id, file, data, registry, projects, claudeMd, overlap, faults>>

\* The process of a job dies: what it truncated stays empty.
Dies(j) ==
    /\ pc[j] \in {"loaded", "open", "written"}
    /\ Fault
    /\ Goto(j, "dead")
    /\ UNCHANGED <<copy, id, file, data, registry, projects, claudeMd, overlap>>

-----------------------------------------------------------------------------
FilesInit ==
    /\ \E called \in SUBSET Job :
          /\ Cardinality(called) = MaxJobs
          /\ pc = [j \in Job |-> IF j \in called THEN "idle" ELSE "never"]
    /\ copy = [j \in Job |-> None]
    /\ id = [j \in Job |-> None]
    /\ file = [f \in JsonFile |-> "absent"]
    /\ data = [f \in JsonFile |-> None]
    /\ registry = <<>>
    /\ projects = {} /\ claudeMd = FALSE
    /\ overlap = {} /\ faults = 0

Step(j) == \/ Open(j) \/ Write(j) \/ Dies(j)
           \/ LoadToAdd(j) \/ LoadPostMerge(j) \/ PostMergeEnds(j)
           \/ LoadToMark(j) \/ LoadToCliMark(j) \/ Mirror(j) \/ BackfillReads(j) \/ BackfillUpserts(j)
           \/ Scaffold(j) \/ LoadToClaim(j) \/ EnlistBuild(j) \/ EnlistProject(j) \/ InitEnds(j)
           \/ Unregister(j) \/ Purge(j) \/ LoadToEdit(j) \/ EditDone(j)

FilesNext == \E j \in Job : Step(j)

FilesSpec == FilesInit /\ [][FilesNext]_fileVars

-----------------------------------------------------------------------------
(* What holds while no two calls on a file overlap, and what holds anyway. *)

\* `factory project delete --purge` has taken the directory away.
Purged == \E j \in Delete : pc[j] = "purged"

\* A findings.json that parses has every finding under the id its adder was
\* told, crashes or not, if no two calls on it overlapped (findings.ts:36-45,
\* 164-204): a file that a crash truncated is never taken for a missing one.
FindingsKept ==
    "findings" \notin overlap /\ file["findings"] = "whole" /\ ~Purged =>
        \A j \in Adders : pc[j] \in {"written", "done"} =>
            id[j] \in IdsIn(data["findings"]) /\ data["findings"].items[id[j]].of = j

Items == IF file["findings"] = "whole" THEN data["findings"].items ELSE <<>>

\* A call under a directive without a project id has changed this finding,
\* and told the file only.
Unmirrored(i) == \E j \in Mark \cap Nameless : pc[j] = "done" /\ id[j] = i

\* The registry follows the file once every call has ended, if no two
\* overlapped and none failed (findings.ts:93-125): it has every finding of a
\* worker whose directive carries a project id, nothing the file has not, and
\* what it has is as in the file but where a directive without one changed it.
MirrorAgrees ==
    "findings" \notin overlap /\ faults = 0 /\ AtRest /\ ~Purged =>
        /\ \A i \in DOMAIN Items : Items[i].of \in Add \ Nameless => i \in DOMAIN registry
        /\ \A i \in DOMAIN registry : i \in DOMAIN Items /\ (registry[i] # Items[i] => Unmirrored(i))

\* A project's identity does not change, nor does a crash in the middle of a
\* write give it a new one (project-metadata.ts:105-152), unless two jobs were
\* at project.json at once; only a purge takes it away.
IdentityKept ==
    [][data["project"] # None /\ "project" \notin overlap' =>
          \/ data'["project"] # None /\ data'["project"].id = data["project"].id
          \/ \E j \in Delete : pc[j] # "purged" /\ pc'[j] = "purged"]_fileVars

=============================================================================
