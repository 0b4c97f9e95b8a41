------------------------------- MODULE AskUser -------------------------------
(***************************************************************************)
(* The question rows of one directive: askUser (brain/src/ask-user.ts),    *)
(* which finds or creates a row and polls it; the humans who answer; the   *)
(* automatic answer (brain/src/auto-answer.ts), which claims a row with a  *)
(* placeholder and writes the real answer after an LLM call; the orphan    *)
(* sweep; and the task rows that a worker's question marks as waiting.     *)
(*                                                                         *)
(* All askers ask the same text, the case in which rows can be mistaken:   *)
(* the pipeline without a task id, the workers each with theirs.  A worker *)
(* has one question at a time, and a task id one worker (TaskPool.Register *)
(* refuses a second).  A poll by a worker has a deadline, which            *)
(* daemon/src/index.ts passes; the pipeline passes none.  The deadline of  *)
(* a resumed poll is not that of its row, so the two pass independently.   *)
(***************************************************************************)
EXTENDS Naturals

CONSTANTS Pipeline,     \* askers of the directive's own run
          Worker,       \* askers that are tasks
          Reply,        \* texts that humans and the LLM may answer
          MaxQuestions, \* bound: question rows
          MaxBoots      \* bound: restarts of the daemon

Asker == Pipeline \cup Worker
Question == 1..MaxQuestions

\* Texts written by the program: the claim, a failed call, the orphan sweep.
InFlight == "[in flight]"
Failed == "[auto-answer failed]"
Orphaned == "[orphaned]"
Null == "null"

Answer == Reply \cup {Failed, Orphaned}

ASSUME AskAssumption ==
    /\ Pipeline \cap Worker = {}
    /\ Reply \cap {InFlight, Failed, Orphaned, Null} = {}
    /\ MaxQuestions \in Nat
    /\ MaxBoots \in Nat

VARIABLES
    asked,      \* rows of pending_questions: 1..asked, oldest first
    owner,      \* task_id of a row, as its asker
    answer,     \* answer; answered_at is set with it
    by,         \* answered_by
    late,       \* deadline_at has passed
    dispatch,   \* an auto-answer of this daemon is between claim and finalise
    on,         \* the row an asker polls, 0 when it does not poll
    clock,      \* of that poll: "early", "due", "grace" or "over"
    got,        \* what the last call returned
    task,       \* a worker's tasks_inflight row
    alive,      \* the worker process runs
    orphans,    \* rows that a running cleanup has still to update
    active,     \* the directive's status is not terminal
    aborted,    \* the abort signal of the directive's run fired
    up,         \* the daemon runs
    boots

table == <<asked, owner, answer, by, late>>
polls == <<on, clock, got>>
tasks == <<task, alive>>
outside == <<active, aborted, up, boots>>
vars == <<table, dispatch, polls, tasks, orphans, outside>>

TypeOK ==
    /\ asked \in 0..MaxQuestions
    /\ owner \in [Question -> Asker \cup {Null}]
    /\ answer \in [Question -> Answer \cup {InFlight, Null}]
    /\ by \in [Question -> {Null, "user", "agent", "agent-failed", "orphan-sweep"}]
    /\ late \in [Question -> BOOLEAN]
    /\ dispatch \in [Question -> BOOLEAN]
    /\ on \in [Asker -> 0..MaxQuestions]
    /\ clock \in [Asker -> {"early", "due", "grace", "over"}]
    /\ got \in [Asker -> Answer \cup {Null}]
    /\ task \in [Worker -> {"running", "waiting", "ended", "aborted"}]
    /\ alive \in [Worker -> BOOLEAN]
    /\ orphans \subseteq Question
    /\ active \in BOOLEAN
    /\ aborted \in BOOLEAN
    /\ up \in BOOLEAN
    /\ boots \in 0..MaxBoots

-----------------------------------------------------------------------------
Rows == {q \in Question : q <= asked}
Open == {q \in Rows : answer[q] = Null}
Claimed == {q \in Rows : answer[q] = InFlight}
Decided == {q \in Rows : answer[q] \in Answer}

\* ORDER BY created_at DESC LIMIT 1, and ASC.
Newest(q, S) == q \in S /\ \A r \in S : r <= q
Oldest(q, S) == q \in S /\ \A r \in S : q <= r

(* The three look-ups.  Two of them take the newest row of the question    *)
(* first and compare the task afterwards.                                  *)
AnsweredMatchAny(a, q) == Newest(q, Decided \cup Claimed)
AnsweredMatch(a, q) == Newest(q, Decided) /\ owner[q] = a
OpenMatch(a, q) == Oldest(q, {r \in Open : owner[r] = a})
InFlightMatch(a, q) == Newest(q, Claimed) /\ owner[q] = a

\* The next value of the row q that s writes.
Put(q, text, s) ==
    /\ answer' = [answer EXCEPT ![q] = text]
    /\ by' = [by EXCEPT ![q] = s]
    /\ UNCHANGED <<asked, owner, late>>

Init ==
    /\ asked = 0
    /\ owner = [q \in Question |-> Null]
    /\ answer = [q \in Question |-> Null]
    /\ by = [q \in Question |-> Null]
    /\ late = [q \in Question |-> FALSE]
    /\ dispatch = [q \in Question |-> FALSE]
    /\ on = [a \in Asker |-> 0]
    /\ clock = [a \in Asker |-> "early"]
    /\ got = [a \in Asker |-> Null]
    /\ task = [a \in Worker |-> "running"]
    /\ alive = [a \in Worker |-> TRUE]
    /\ orphans = {}
    /\ active = TRUE
    /\ aborted = FALSE
    /\ up = TRUE
    /\ boots = 0

-----------------------------------------------------------------------------
(* askUser.                                                                *)

CanAsk(a) ==
    /\ up
    /\ on[a] = 0
    /\ a \in Worker => alive[a]

\* The poll starts; a worker's row is marked if it is still running.
Wait(a, q) ==
    /\ on' = [on EXCEPT ![a] = q]
    /\ clock' = [clock EXCEPT ![a] = "early"]
    /\ got' = [got EXCEPT ![a] = Null]
    /\ task' = [w \in Worker |->
                  IF w = a /\ task[w] = "running" THEN "waiting" ELSE task[w]]
    /\ UNCHANGED alive

\* The call returns; a worker's row goes back only if it is still waiting.
ReturnUnguarded(a, text) ==
    /\ on' = [on EXCEPT ![a] = 0]
    /\ clock' = [clock EXCEPT ![a] = "early"]
    /\ got' = [got EXCEPT ![a] = text]
    /\ task' = [w \in Worker |-> IF w = a THEN "running" ELSE task[w]]
    /\ UNCHANGED alive

Return(a, text) ==
    /\ on' = [on EXCEPT ![a] = 0]
    /\ clock' = [clock EXCEPT ![a] = "early"]
    /\ got' = [got EXCEPT ![a] = text]
    /\ task' = [w \in Worker |->
                  IF w = a /\ task[w] = "waiting" THEN "running" ELSE task[w]]
    /\ UNCHANGED alive

\* The answer is already on record.
Recall(a) ==
    /\ CanAsk(a)
    /\ \E q \in Question : AnsweredMatch(a, q) /\ Return(a, answer[q])
    /\ UNCHANGED <<table, dispatch, orphans, outside>>

\* The question is open, or its automatic answer on the way: poll that row.
Resume(a) ==
    /\ CanAsk(a)
    /\ ~\E q \in Question : AnsweredMatch(a, q)
    /\ \/ \E q \in Question : OpenMatch(a, q) /\ Wait(a, q)
       \/ /\ ~\E q \in Question : OpenMatch(a, q)
          /\ \E q \in Question : InFlightMatch(a, q) /\ Wait(a, q)
    /\ UNCHANGED <<table, dispatch, orphans, outside>>

\* Otherwise a row is created, and announced, and polled.
Create(a) ==
    /\ CanAsk(a)
    /\ ~\E q \in Question : AnsweredMatch(a, q)
    /\ ~\E q \in Question : OpenMatch(a, q)
    /\ ~\E q \in Question : InFlightMatch(a, q)
    /\ asked < MaxQuestions
    /\ asked' = asked + 1
    /\ owner' = [owner EXCEPT ![asked + 1] = a]
    /\ Wait(a, asked + 1)
    /\ UNCHANGED <<answer, by, late, dispatch, orphans, outside>>

(* One look of the poll loop at the row: an answer that is not the         *)
(* placeholder is returned; at the deadline a claimed row gets one         *)
(* extension, and then, or when nobody claimed it, the call times out.     *)
LookExtend(a) ==
    /\ up
    /\ on[a] # 0
    /\ \/ answer[on[a]] \in Answer /\ Return(a, answer[on[a]])
       \/ /\ answer[on[a]] = InFlight
          /\ clock[a] \in {"due", "over"}
          /\ clock' = [clock EXCEPT ![a] = "grace"]
          /\ UNCHANGED <<on, got, tasks>>
       \/ answer[on[a]] = Null /\ clock[a] \in {"due", "over"} /\ Return(a, Null)
    /\ UNCHANGED <<table, dispatch, orphans, outside>>

Look(a) ==
    /\ up
    /\ on[a] # 0
    /\ \/ answer[on[a]] \in Answer /\ Return(a, answer[on[a]])
       \/ /\ answer[on[a]] = InFlight
          /\ clock[a] = "due"
          /\ clock' = [clock EXCEPT ![a] = "grace"]
          /\ UNCHANGED <<on, got, tasks>>
       \/ /\ answer[on[a]] \notin Answer
          /\ clock[a] = "over" \/ (clock[a] = "due" /\ answer[on[a]] = Null)
          /\ Return(a, Null)
    /\ UNCHANGED <<table, dispatch, orphans, outside>>

\* The signal ends a poll of the directive's own run, and that run with it.
SeeAbort(a) ==
    /\ up
    /\ a \in Pipeline
    /\ aborted
    /\ on[a] # 0
    /\ Return(a, Null)
    /\ aborted' = FALSE
    /\ UNCHANGED <<orphans, table, dispatch, active, up, boots>>

\* A worker's deadline, or the extension, runs out.
TimePasses(a) ==
    /\ a \in Worker
    /\ on[a] # 0
    /\ \/ clock[a] = "early" /\ clock' = [clock EXCEPT ![a] = "due"]
       \/ clock[a] = "grace" /\ clock' = [clock EXCEPT ![a] = "over"]
    /\ UNCHANGED <<table, dispatch, on, got, tasks, orphans, outside>>

-----------------------------------------------------------------------------
(* Who writes answers.                                                     *)

\* pendingQuestions.answer, from the CLI, a channel or the web UI: a row that
\* has an answered_by is left as it is, whatever the caller saw before.
HumanAnswer(q) ==
    /\ q \in Rows
    /\ by[q] = Null
    /\ \E text \in Reply : Put(q, text, "user")
    /\ UNCHANGED <<dispatch, polls, tasks, orphans, outside>>

\* deadline_at of the row passes, which askUser sets for every row.
RowLate(q) ==
    /\ q \in Open
    /\ ~late[q]
    /\ late' = [late EXCEPT ![q] = TRUE]
    /\ UNCHANGED <<asked, owner, answer, by, dispatch, polls, tasks, orphans, outside>>

\* A sweep of the serve loop finds the row and wins the claim.
ClaimUnmarked(q) ==
    /\ up /\ active
    /\ q \in Open
    /\ late[q]
    /\ by[q] = Null
    /\ Put(q, InFlight, Null)
    /\ dispatch' = [dispatch EXCEPT ![q] = TRUE]
    /\ UNCHANGED <<polls, tasks, orphans, outside>>

Claim(q) ==
    /\ up /\ active
    /\ q \in Open
    /\ late[q]
    /\ by[q] = Null
    /\ Put(q, InFlight, "agent")
    /\ dispatch' = [dispatch EXCEPT ![q] = TRUE]
    /\ UNCHANGED <<polls, tasks, orphans, outside>>

\* After the LLM call, or its second failure: an unconditional update.
Finalize(q) ==
    /\ up
    /\ dispatch[q]
    /\ dispatch' = [dispatch EXCEPT ![q] = FALSE]
    /\ \/ \E text \in Reply : Put(q, text, "agent")
       \/ Put(q, Failed, "agent-failed")
    /\ UNCHANGED <<polls, tasks, orphans, outside>>

\* A database error before the final write is swallowed by allSettled.
DispatchThrows(q) ==
    /\ up
    /\ dispatch[q]
    /\ dispatch' = [dispatch EXCEPT ![q] = FALSE]
    /\ UNCHANGED <<table, polls, tasks, orphans, outside>>

(* `factory questions cleanup`, in a process of its own: it reads the open *)
(* rows of ended directives and then updates them one by one, without      *)
(* looking at the directive again.                                         *)
CleanupRead ==
    /\ ~active
    /\ orphans' = Open
    /\ UNCHANGED <<table, dispatch, polls, tasks, outside>>

Cleanup(q) ==
    /\ q \in orphans
    /\ orphans' = orphans \ {q}
    /\ IF q \in Open THEN Put(q, Orphaned, "orphan-sweep") ELSE UNCHANGED table
    /\ UNCHANGED <<dispatch, polls, tasks, outside>>

-----------------------------------------------------------------------------
(* Around the questions.                                                   *)

\* The worker process ends, its question answered or not: the pool writes the
\* row whatever its status, and the daemon's handler goes on polling.
TaskEnds(a) ==
    /\ up
    /\ alive[a]
    /\ alive' = [alive EXCEPT ![a] = FALSE]
    /\ task' = [task EXCEPT ![a] = "ended"]
    /\ UNCHANGED <<table, dispatch, polls, orphans, outside>>

\* The directive is cancelled (with its signal), parked or marked blocked.
DirectiveEnds ==
    /\ active
    /\ active' = FALSE
    /\ aborted' \in {aborted, TRUE}
    /\ UNCHANGED <<orphans, table, dispatch, polls, tasks, up, boots>>

\* A retry, a raised cap or a resume makes it run again.
DirectiveReopens ==
    /\ ~active
    /\ active' = TRUE
    /\ UNCHANGED <<orphans, table, dispatch, polls, tasks, aborted, up, boots>>

Crash ==
    /\ up
    /\ up' = FALSE
    /\ dispatch' = [q \in Question |-> FALSE]
    /\ on' = [a \in Asker |-> 0]
    /\ clock' = [a \in Asker |-> "early"]
    /\ got' = [a \in Asker |-> Null]
    /\ alive' = [a \in Worker |-> FALSE]
    /\ aborted' = FALSE
    /\ UNCHANGED <<table, task, orphans, active, boots>>

\* startDaemon with recoverFromHumanWaits.
BootUnrecovered ==
    /\ ~up
    /\ boots < MaxBoots
    /\ boots' = boots + 1
    /\ up' = TRUE
    /\ UNCHANGED <<orphans, table, dispatch, polls, tasks, active, aborted>>

Boot ==
    /\ ~up
    /\ boots < MaxBoots
    /\ boots' = boots + 1
    /\ up' = TRUE
    /\ task' = [a \in Worker |-> IF task[a] = "waiting" THEN "aborted" ELSE task[a]]
    /\ UNCHANGED <<orphans, table, dispatch, polls, alive, active, aborted>>

-----------------------------------------------------------------------------
Ask(a) == Recall(a) \/ Resume(a) \/ Create(a)
Polling(a) == Look(a) \/ SeeAbort(a) \/ TimePasses(a)
Writer(q) ==
    \/ HumanAnswer(q) \/ RowLate(q) \/ Claim(q) \/ Finalize(q)
    \/ DispatchThrows(q) \/ Cleanup(q)
Outside == DirectiveEnds \/ DirectiveReopens \/ Crash \/ Boot

Next ==
    \/ \E a \in Asker : Ask(a) \/ Polling(a)
    \/ \E q \in Question : Writer(q)
    \/ CleanupRead
    \/ \E a \in Worker : TaskEnds(a)
    \/ Outside

Spec == Init /\ [][Next]_vars

(***************************************************************************)
(* Fairness.  A poll looks every second, time passes, the sweep of the     *)
(* serve loop runs every five seconds and an LLM call has a time limit.    *)
(* Nobody has to ask, answer, clean up, crash or start anything.           *)
(***************************************************************************)
Fairness ==
    /\ \A a \in Asker : WF_vars(Look(a)) /\ WF_vars(SeeAbort(a))
    /\ \A a \in Worker : WF_vars(TimePasses(a))
    /\ \A q \in Question :
          WF_vars(RowLate(q)) /\ WF_vars(Claim(q)) /\ WF_vars(Finalize(q))

FairSpec == Spec /\ Fairness

-----------------------------------------------------------------------------
(* Properties that hold.                                                   *)

\* The refinement mapping: an open or claimed row is an empty cell.
Cells == INSTANCE WriteOnce WITH
            Cell <- Question, Reader <- Asker, Value <- Answer, Empty <- Null,
            cell <- [q \in Question |->
                        IF answer[q] = InFlight THEN Null ELSE answer[q]],
            seen <- got

(* Four writers race for a row (ADR 0030, 4 and 5), one of them by an      *)
(* update without a guard: still an answer is written once and for ever,   *)
(* and a call returns a written answer, never the placeholder.             *)
AnswersAreFinal == Cells!Spec

\* An asker gets the answer to its own question, not that of another task
\* with the same text, and what it got stays what the row says.
OwnAnswer ==
    \A a \in Asker :
        got[a] # Null => \E q \in Rows : owner[q] = a /\ answer[q] = got[a]

\* A restart that asks again resumes the open row: no asker has two.
OneOpenRow ==
    \A q, r \in Open : owner[q] = owner[r] => q = r

\* While the daemon runs, a task that waits for a human has a live poll that
\* will set it running again (ADR 0024, 4).
WaitingIsPolled ==
    up => \A a \in Worker : task[a] = "waiting" => on[a] # 0

\* A task that has ended or was aborted is not revived by the handler that
\* outlives its worker.
DeadTaskStays ==
    [][\A a \in Worker :
          task[a] \in {"ended", "aborted"} => task'[a] = task[a]]_vars

\* A worker's call ends, also when the claim it waits for is never finalised.
WorkerCallEnds == \A a \in Worker : on[a] # 0 ~> on[a] = 0

-----------------------------------------------------------------------------
(* What a comment says, and some behaviour violates.                       *)

\* ask-user.ts:58 "still bounding the wait so a wedged dispatcher can't park
\* the directive indefinitely".
WaitIsBounded ==
    \A a \in Pipeline : on[a] # 0 ~> on[a] = 0 \/ ~active
=============================================================================
