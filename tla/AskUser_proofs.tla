---------------------------- MODULE AskUser_proofs ----------------------------
(***************************************************************************)
(* Theorems about AskUser, for any askers, texts and bounds.  The types    *)
(* are inductive as they stand.  The rest needs two facts about the        *)
(* writers: answered_by is empty exactly when the answer is, so the guards *)
(* of the human, the claim and the sweep ask the same thing; and a         *)
(* dispatch that is running still has its placeholder in the row, so its   *)
(* unguarded update overwrites nothing else.                               *)
(***************************************************************************)
EXTENDS AskUser, TLAPS

\* An automatic answer runs on a row that holds its placeholder.
Dispatching == \A q \in Question : dispatch[q] => answer[q] = InFlight

\* The two guards of the writers agree.
Unclaimed == \A q \in Question : answer[q] = Null <=> by[q] = Null

\* A poll looks at a row of its asker.
PollsOwn == \A a \in Asker : on[a] # 0 => on[a] \in Rows /\ owner[on[a]] = a

RowInv == TypeOK /\ Dispatching /\ Unclaimed
PollInv == PollsOwn /\ OwnAnswer /\ OneOpenRow /\ WaitingIsPolled
AskInv == RowInv /\ PollInv

LEMMA TextsDiffer ==
    /\ InFlight \notin Answer
    /\ Null \notin Answer
    /\ InFlight # Null
    /\ Reply \subseteq Answer
    /\ Failed \in Answer
    /\ Orphaned \in Answer
BY AskAssumption DEF AskAssumption, InFlight, Null, Answer, Failed, Orphaned

LEMMA QuestionsAreNumbers ==
    /\ MaxQuestions \in Nat
    /\ MaxBoots \in Nat
    /\ Question = 1..MaxQuestions
    /\ 0 \notin Question
BY AskAssumption DEF AskAssumption, Question

-----------------------------------------------------------------------------
(* What a poll step leaves well typed.                                     *)

LEMMA WaitTyped ==
    ASSUME TypeOK, NEW a \in Asker, NEW q \in Question, Wait(a, q)
    PROVE  /\ on' \in [Asker -> 0..MaxQuestions]
           /\ clock' \in [Asker -> {"early", "due", "grace", "over"}]
           /\ got' \in [Asker -> Answer \cup {Null}]
           /\ task' \in [Worker -> {"running", "waiting", "ended", "aborted"}]
           /\ alive' \in [Worker -> BOOLEAN]
BY QuestionsAreNumbers DEF TypeOK, Wait

LEMMA ReturnTyped ==
    ASSUME TypeOK, NEW a \in Asker, NEW text \in Answer \cup {Null},
           Return(a, text)
    PROVE  /\ on' \in [Asker -> 0..MaxQuestions]
           /\ clock' \in [Asker -> {"early", "due", "grace", "over"}]
           /\ got' \in [Asker -> Answer \cup {Null}]
           /\ task' \in [Worker -> {"running", "waiting", "ended", "aborted"}]
           /\ alive' \in [Worker -> BOOLEAN]
BY QuestionsAreNumbers DEF TypeOK, Return

LEMMA PutTyped ==
    ASSUME TypeOK, NEW q \in Question, NEW text \in Answer \cup {InFlight},
           NEW s \in {"user", "agent", "agent-failed", "orphan-sweep"},
           Put(q, text, s)
    PROVE  /\ asked' \in 0..MaxQuestions
           /\ owner' \in [Question -> Asker \cup {Null}]
           /\ answer' \in [Question -> Answer \cup {InFlight, Null}]
           /\ by' \in [Question ->
                         {Null, "user", "agent", "agent-failed", "orphan-sweep"}]
           /\ late' \in [Question -> BOOLEAN]
BY DEF TypeOK, Put

LEMMA InitTyped == Init => TypeOK
<1> SUFFICES ASSUME Init PROVE TypeOK
  OBVIOUS
<1>1. 0 \in 0..MaxQuestions /\ 0 \in 0..MaxBoots
  BY QuestionsAreNumbers
<1>2. on \in [Asker -> 0..MaxQuestions]
  BY <1>1 DEF Init
<1>3. clock \in [Asker -> {"early", "due", "grace", "over"}]
  BY DEF Init
<1>4. /\ got \in [Asker -> Answer \cup {Null}]
      /\ owner \in [Question -> Asker \cup {Null}]
      /\ answer \in [Question -> Answer \cup {InFlight, Null}]
  BY DEF Init
<1>5. by \in [Question -> {Null, "user", "agent", "agent-failed", "orphan-sweep"}]
  BY DEF Init
<1>6. /\ late \in [Question -> BOOLEAN]
      /\ dispatch \in [Question -> BOOLEAN]
  BY DEF Init
<1>7. /\ task \in [Worker -> {"running", "waiting", "ended", "aborted"}]
      /\ alive \in [Worker -> BOOLEAN]
  BY DEF Init
<1> QED BY <1>1, <1>2, <1>3, <1>4, <1>5, <1>6, <1>7 DEF Init, TypeOK

LEMMA StepTyped == TypeOK /\ [Next]_vars => TypeOK'
<1> SUFFICES ASSUME TypeOK, [Next]_vars PROVE TypeOK'
  OBVIOUS
<1> USE QuestionsAreNumbers, TextsDiffer
<1>1. ASSUME NEW a \in Asker, Recall(a) PROVE TypeOK'
  <2>1. PICK q \in Question : AnsweredMatch(a, q) /\ Return(a, answer[q])
    BY <1>1 DEF Recall
  <2>2. answer[q] \in Answer
    BY <2>1 DEF AnsweredMatch, Newest, Decided
  <2> QED BY <1>1, <2>1, <2>2, ReturnTyped DEF Recall, TypeOK, table, outside
<1>2. ASSUME NEW a \in Asker, Resume(a) PROVE TypeOK'
  <2>1. PICK q \in Question : Wait(a, q)
    BY <1>2 DEF Resume
  <2> QED BY <1>2, <2>1, WaitTyped DEF Resume, TypeOK, table, outside
<1>3. ASSUME NEW a \in Asker, Create(a) PROVE TypeOK'
  <2>1. asked + 1 \in Question /\ Wait(a, asked + 1)
    BY <1>3 DEF Create, TypeOK
  <2>2. owner' \in [Question -> Asker \cup {Null}] /\ asked' \in 0..MaxQuestions
    BY <1>3 DEF Create, TypeOK
  <2> QED BY <1>3, <2>1, <2>2, WaitTyped DEF Create, TypeOK, outside
<1>4. ASSUME NEW a \in Asker, Look(a) PROVE TypeOK'
  <2>1. CASE answer[on[a]] \in Answer /\ Return(a, answer[on[a]])
    BY <1>4, <2>1, ReturnTyped DEF Look, TypeOK, table, outside
  <2>2. CASE clock' = [clock EXCEPT ![a] = "grace"] /\ UNCHANGED <<on, got, tasks>>
    BY <1>4, <2>2 DEF Look, TypeOK, table, outside, tasks
  <2>3. CASE Return(a, Null)
    BY <1>4, <2>3, ReturnTyped DEF Look, TypeOK, table, outside
  <2> QED BY <1>4, <2>1, <2>2, <2>3 DEF Look
<1>5. ASSUME NEW a \in Asker, SeeAbort(a) PROVE TypeOK'
  BY <1>5, ReturnTyped DEF SeeAbort, TypeOK, table
<1>6. ASSUME NEW a \in Asker, TimePasses(a) PROVE TypeOK'
  BY <1>6 DEF TimePasses, TypeOK, table, outside, tasks
<1>7. ASSUME NEW q \in Question, Writer(q) PROVE TypeOK'
  <2>1. CASE HumanAnswer(q)
    BY <2>1, PutTyped DEF HumanAnswer, TypeOK, polls, tasks, outside
  <2>2. CASE RowLate(q)
    BY <2>2 DEF RowLate, TypeOK, polls, tasks, outside
  <2>3. CASE Claim(q)
    BY <2>3, PutTyped DEF Claim, TypeOK, polls, tasks, outside
  <2>4. CASE Finalize(q)
    BY <2>4, PutTyped DEF Finalize, TypeOK, polls, tasks, outside
  <2>5. CASE DispatchThrows(q)
    BY <2>5 DEF DispatchThrows, TypeOK, table, polls, tasks, outside
  <2>6. CASE Cleanup(q) /\ q \in Open
    BY <2>6, PutTyped DEF Cleanup, TypeOK, polls, tasks, outside
  <2>7. CASE Cleanup(q) /\ q \notin Open
    BY <2>7 DEF Cleanup, TypeOK, table, polls, tasks, outside
  <2> QED BY <1>7, <2>1, <2>2, <2>3, <2>4, <2>5, <2>6, <2>7 DEF Writer
<1>8. CASE CleanupRead
  BY <1>8 DEF CleanupRead, Open, Rows, TypeOK, table, polls, tasks, outside
<1>9. ASSUME NEW a \in Worker, TaskEnds(a) PROVE TypeOK'
  BY <1>9 DEF TaskEnds, TypeOK, table, polls, outside
<1>10. CASE DirectiveEnds \/ DirectiveReopens
  BY <1>10 DEF DirectiveEnds, DirectiveReopens, TypeOK, table, polls, tasks
<1>11. CASE Crash
  <2>1. on' \in [Asker -> 0..MaxQuestions]
    BY <1>11 DEF Crash
  <2>2. clock' \in [Asker -> {"early", "due", "grace", "over"}]
    BY <1>11 DEF Crash
  <2>3. got' \in [Asker -> Answer \cup {Null}]
    BY <1>11 DEF Crash
  <2>4. alive' \in [Worker -> BOOLEAN] /\ dispatch' \in [Question -> BOOLEAN]
    BY <1>11 DEF Crash
  <2> QED BY <1>11, <2>1, <2>2, <2>3, <2>4 DEF Crash, TypeOK, table
<1>12. CASE Boot
  BY <1>12 DEF Boot, TypeOK, table, polls
<1>13. CASE UNCHANGED vars
  BY <1>13 DEF vars, TypeOK, table, polls, tasks, outside
<1> QED
  BY <1>1, <1>2, <1>3, <1>4, <1>5, <1>6, <1>7, <1>8, <1>9, <1>10, <1>11,
     <1>12, <1>13 DEF Next, Ask, Polling, Outside

\* Every reachable state is well typed; in particular a call returns a text
\* that somebody wrote and never the placeholder of the claim.
THEOREM TypeCorrect == Spec => []TypeOK
<1>1. Init => TypeOK
  BY InitTyped
<1>2. TypeOK /\ [Next]_vars => TypeOK'
  BY StepTyped
<1> QED BY <1>1, <1>2, PTL DEF Spec
-----------------------------------------------------------------------------
(* The writers.                                                            *)

\* What a row was, once decided, it is after any step; and a row gets an
\* answer only if it was open or claimed.
LEMMA DecidedStays ==
    ASSUME RowInv, [Next]_vars, NEW q \in Question, answer[q] \in Answer
    PROVE  answer'[q] = answer[q]
<1> USE TextsDiffer, QuestionsAreNumbers
<1>1. ~dispatch[q] /\ by[q] # Null /\ q \notin Open
  BY DEF RowInv, Dispatching, Unclaimed, Open
<1>2. ASSUME NEW r \in Question, NEW text, NEW s, Put(r, text, s), r # q
      PROVE  answer'[q] = answer[q]
  BY <1>2 DEF Put, RowInv, TypeOK
<1>3. ASSUME NEW r \in Question, Writer(r) PROVE answer'[q] = answer[q]
  <2>1. CASE HumanAnswer(r)
    BY <1>1, <1>2, <2>1 DEF HumanAnswer
  <2>2. CASE RowLate(r)
    BY <2>2 DEF RowLate
  <2>3. CASE Claim(r)
    BY <1>1, <1>2, <2>3 DEF Claim
  <2>4. CASE Finalize(r)
    BY <1>1, <1>2, <2>4 DEF Finalize
  <2>5. CASE DispatchThrows(r)
    BY <2>5 DEF DispatchThrows, table
  <2>6. CASE Cleanup(r)
    BY <1>1, <1>2, <2>6 DEF Cleanup, table
  <2> QED BY <1>3, <2>1, <2>2, <2>3, <2>4, <2>5, <2>6 DEF Writer
<1>4. ASSUME NEW a \in Asker, Ask(a) \/ Polling(a) PROVE UNCHANGED answer
  BY <1>4 DEF Ask, Polling, Recall, Resume, Create, Look, SeeAbort, TimePasses,
              table
<1>5. CASE CleanupRead \/ (\E a \in Worker : TaskEnds(a)) \/ Outside
  BY <1>5 DEF CleanupRead, TaskEnds, Outside, DirectiveEnds, DirectiveReopens,
              Crash, Boot, table
<1>6. CASE UNCHANGED vars
  BY <1>6 DEF vars, table
<1> QED BY <1>3, <1>4, <1>5, <1>6 DEF Next

LEMMA StepRows == RowInv /\ [Next]_vars => RowInv'
<1> SUFFICES ASSUME RowInv, [Next]_vars PROVE RowInv'
  OBVIOUS
<1> USE TextsDiffer, QuestionsAreNumbers
<1>1. TypeOK'
  BY StepTyped DEF RowInv
<1>2. ASSUME NEW q \in Question, Writer(q)
      PROVE  Dispatching' /\ Unclaimed'
  <2>1. CASE HumanAnswer(q)
    <3>1. PICK text \in Reply : Put(q, text, "user")
      BY <2>1 DEF HumanAnswer
    <3>2. answer[q] = Null /\ ~dispatch[q]
      BY <2>1 DEF HumanAnswer, RowInv, Unclaimed, Dispatching
    <3>3. text # Null /\ "user" # Null
      BY DEF Null
    <3> QED BY <2>1, <3>1, <3>2, <3>3
            DEF HumanAnswer, Put, RowInv, TypeOK, Unclaimed, Dispatching
  <2>2. CASE RowLate(q)
    BY <2>2 DEF RowLate, RowInv, Unclaimed, Dispatching
  <2>3. CASE Claim(q)
    <3>1. "agent" # Null
      BY DEF Null
    <3> QED BY <2>3, <3>1 DEF Claim, Put, RowInv, TypeOK, Unclaimed, Dispatching
  <2>4. CASE Finalize(q)
    <3>1. PICK text \in Answer, s \in {"agent", "agent-failed"} : Put(q, text, s)
      BY <2>4 DEF Finalize
    <3>2. text # Null /\ s # Null
      BY DEF Null
    <3>3. dispatch' = [dispatch EXCEPT ![q] = FALSE]
      BY <2>4 DEF Finalize
    <3> QED BY <3>1, <3>2, <3>3
            DEF Put, RowInv, TypeOK, Unclaimed, Dispatching
  <2>5. CASE DispatchThrows(q)
    BY <2>5 DEF DispatchThrows, table, RowInv, TypeOK, Unclaimed, Dispatching
  <2>6. CASE Cleanup(q)
    <3>1. "orphan-sweep" # Null
      BY DEF Null
    <3>2. CASE q \in Open
      <4>1. answer[q] = Null /\ ~dispatch[q]
        BY <3>2 DEF Open, RowInv, Dispatching
      <4> QED BY <2>6, <3>1, <3>2, <4>1
              DEF Cleanup, Put, RowInv, TypeOK, Unclaimed, Dispatching
    <3>3. CASE q \notin Open
      BY <2>6, <3>3 DEF Cleanup, table, RowInv, Unclaimed, Dispatching
    <3> QED BY <3>2, <3>3
  <2> QED BY <1>2, <2>1, <2>2, <2>3, <2>4, <2>5, <2>6 DEF Writer
<1>3. ASSUME UNCHANGED <<answer, by, dispatch>> PROVE Dispatching' /\ Unclaimed'
  BY <1>3 DEF RowInv, Unclaimed, Dispatching
<1>4. ASSUME NEW a \in Asker, Ask(a) \/ Polling(a)
      PROVE  UNCHANGED <<answer, by, dispatch>>
  BY <1>4 DEF Ask, Polling, Recall, Resume, Create, Look, SeeAbort, TimePasses,
              table
<1>5. ASSUME CleanupRead \/ (\E a \in Worker : TaskEnds(a)) \/ DirectiveEnds
             \/ DirectiveReopens \/ Boot
      PROVE  UNCHANGED <<answer, by, dispatch>>
  BY <1>5 DEF CleanupRead, TaskEnds, DirectiveEnds, DirectiveReopens, Boot, table
<1>6. ASSUME Crash PROVE Dispatching' /\ Unclaimed'
  BY <1>6 DEF Crash, table, RowInv, Unclaimed, Dispatching
<1>7. ASSUME UNCHANGED vars PROVE Dispatching' /\ Unclaimed'
  BY <1>3, <1>7 DEF vars, table
<1>8. Dispatching' /\ Unclaimed'
  BY <1>2, <1>3, <1>4, <1>5, <1>6, <1>7 DEF Next, Outside
<1> QED BY <1>1, <1>8 DEF RowInv

LEMMA InitRows == Init => RowInv
BY InitTyped DEF Init, RowInv, Dispatching, Unclaimed

-----------------------------------------------------------------------------
(* The polls.                                                              *)

\* What the steps that leave the askers alone do to the polls' invariant.
LEMMA OwnAnswerKept ==
    ASSUME RowInv, OwnAnswer, [Next]_vars, UNCHANGED <<owner, asked>>,
           NEW a \in Asker, got'[a] = got[a], got[a] # Null
    PROVE  \E q \in Rows' : owner'[q] = a /\ answer'[q] = got'[a]
<1>1. PICK q \in Rows : owner[q] = a /\ answer[q] = got[a]
  BY DEF OwnAnswer
<1>2. answer[q] \in Answer
  BY <1>1 DEF RowInv, TypeOK
<1>3. answer'[q] = answer[q] /\ q \in Rows'
  BY <1>1, <1>2, DecidedStays DEF Rows
<1> QED BY <1>1, <1>3

\* A row that is written leaves the open rows, and none joins them.
LEMMA PutCloses ==
    ASSUME TypeOK, NEW q \in Question, NEW text, NEW s, text # Null,
           Put(q, text, s)
    PROVE  Open' \subseteq Open
BY DEF TypeOK, Put, Open, Rows

LEMMA WriterCloses ==
    ASSUME TypeOK, NEW q \in Question, Writer(q)
    PROVE  Open' \subseteq Open
<1> USE TextsDiffer
<1>1. CASE HumanAnswer(q)
  BY <1>1, PutCloses DEF HumanAnswer
<1>2. CASE RowLate(q)
  BY <1>2 DEF RowLate, Open, Rows
<1>3. CASE Claim(q)
  BY <1>3, PutCloses DEF Claim
<1>4. CASE Finalize(q)
  BY <1>4, PutCloses DEF Finalize
<1>5. CASE DispatchThrows(q)
  BY <1>5 DEF DispatchThrows, table, Open, Rows
<1>6. CASE Cleanup(q)
  BY <1>6, PutCloses DEF Cleanup, table, Open, Rows
<1> QED BY <1>1, <1>2, <1>3, <1>4, <1>5, <1>6 DEF Writer

\* The polls' invariant survives a step of the writers.
LEMMA WriterKeepsPolls ==
    ASSUME RowInv, PollInv, [Next]_vars, NEW q \in Question, Writer(q)
    PROVE  PollInv'
<1>1. UNCHANGED <<asked, owner, polls, tasks, outside>>
  BY DEF Writer, HumanAnswer, RowLate, Claim, Finalize, DispatchThrows, Cleanup,
         Put, table
<1>2. PollsOwn'
  BY <1>1 DEF polls, PollInv, PollsOwn, Rows
<1>3. OwnAnswer'
  BY <1>1, OwnAnswerKept DEF polls, PollInv, OwnAnswer
<1>4. OneOpenRow'
  BY <1>1, WriterCloses DEF RowInv, PollInv, OneOpenRow
<1>5. WaitingIsPolled'
  BY <1>1 DEF polls, tasks, outside, PollInv, WaitingIsPolled
<1> QED BY <1>2, <1>3, <1>4, <1>5 DEF PollInv

\* A call that returns keeps it, if the text is what its own row says.
LEMMA ReturnKeepsPolls ==
    ASSUME RowInv, PollInv, [Next]_vars, NEW a \in Asker,
           NEW text \in Answer \cup {Null}, Return(a, text),
           UNCHANGED <<table, up>>,
           text # Null => \E q \in Rows : owner[q] = a /\ answer[q] = text
    PROVE  PollInv'
<1>1. Rows' = Rows /\ Open' = Open /\ UNCHANGED <<owner, answer, asked>>
  BY DEF table, Rows, Open
<1>2. /\ got'[a] = text /\ on'[a] = 0
      /\ \A b \in Asker \ {a} : got'[b] = got[b] /\ on'[b] = on[b]
  BY DEF Return, RowInv, TypeOK
<1>3. PollsOwn'
  BY <1>1, <1>2 DEF PollInv, PollsOwn
<1>4. OwnAnswer'
  BY <1>1, <1>2 DEF PollInv, OwnAnswer
<1>5. OneOpenRow'
  BY <1>1 DEF PollInv, OneOpenRow
<1>6. ASSUME NEW w \in Worker, up', task'[w] = "waiting" PROVE on'[w] # 0
  <2>1. w # a /\ task[w] = "waiting"
    BY <1>6 DEF Return
  <2> QED BY <1>2, <1>6, <2>1 DEF PollInv, WaitingIsPolled, Asker
<1> QED BY <1>3, <1>4, <1>5, <1>6 DEF PollInv, WaitingIsPolled

\* A poll that starts on a row of its asker keeps all of it but OneOpenRow.
LEMMA WaitKeepsPolls ==
    ASSUME RowInv, PollInv, [Next]_vars, NEW a \in Asker, NEW q \in Rows',
           Wait(a, q), owner'[q] = a,
           UNCHANGED <<answer, up>>,
           \A r \in Rows : r \in Rows' /\ owner'[r] = owner[r]
    PROVE  PollsOwn' /\ OwnAnswer' /\ WaitingIsPolled'
<1>1. q \in Question /\ q # 0
  BY QuestionsAreNumbers DEF Rows
<1>2. /\ got'[a] = Null /\ on'[a] = q
      /\ \A b \in Asker \ {a} : got'[b] = got[b] /\ on'[b] = on[b]
  BY DEF Wait, RowInv, TypeOK
<1>3. PollsOwn'
  BY <1>2 DEF PollInv, PollsOwn
<1>4. OwnAnswer'
  BY <1>2 DEF PollInv, OwnAnswer
<1>5. ASSUME NEW w \in Worker, up', task'[w] = "waiting" PROVE on'[w] # 0
  <2>1. CASE w = a
    BY <1>1, <1>2, <2>1
  <2>2. CASE w # a
    BY <1>2, <1>5, <2>2 DEF Wait, PollInv, WaitingIsPolled, Asker
  <2> QED BY <2>1, <2>2
<1> QED BY <1>3, <1>4, <1>5 DEF WaitingIsPolled

\* An asker with an open row finds it: by OneOpenRow it is the only one.
LEMMA OpenIsFound ==
    ASSUME TypeOK, OneOpenRow, NEW a \in Asker, NEW q \in Open, owner[q] = a
    PROVE  OpenMatch(a, q)
BY QuestionsAreNumbers DEF OpenMatch, Oldest, OneOpenRow, Open, Rows

LEMMA StepPolls == RowInv /\ PollInv /\ [Next]_vars => PollInv'
<1> SUFFICES ASSUME RowInv, PollInv, [Next]_vars PROVE PollInv'
  OBVIOUS
<1> USE TextsDiffer
<1>1. ASSUME NEW a \in Asker, Recall(a) PROVE PollInv'
  <2>1. PICK q \in Question : AnsweredMatch(a, q) /\ Return(a, answer[q])
    BY <1>1 DEF Recall
  <2>2. q \in Rows /\ owner[q] = a /\ answer[q] \in Answer
    BY <2>1 DEF AnsweredMatch, Newest, Decided
  <2>3. UNCHANGED <<table, up>>
    BY <1>1 DEF Recall, outside
  <2> QED BY <2>1, <2>2, <2>3, ReturnKeepsPolls
<1>2. ASSUME NEW a \in Asker, Resume(a) PROVE PollInv'
  <2>1. PICK q \in Rows : owner[q] = a /\ Wait(a, q)
    BY <1>2 DEF Resume, OpenMatch, Oldest, InFlightMatch, Newest, Claimed, Open
  <2>2. UNCHANGED <<asked, owner, answer, up>>
    BY <1>2 DEF Resume, table, outside
  <2>3. PollsOwn' /\ OwnAnswer' /\ WaitingIsPolled'
    BY <2>1, <2>2, WaitKeepsPolls DEF Rows
  <2>4. OneOpenRow'
    BY <2>2 DEF PollInv, OneOpenRow, Open, Rows
  <2> QED BY <2>3, <2>4 DEF PollInv
<1>3. ASSUME NEW a \in Asker, Create(a) PROVE PollInv'
  <2>1. /\ asked' = asked + 1
        /\ owner' = [owner EXCEPT ![asked + 1] = a]
        /\ Wait(a, asked + 1)
        /\ UNCHANGED <<answer, up>>
    BY <1>3 DEF Create, outside
  <2>2. Rows' = Rows \cup {asked + 1} /\ asked + 1 \notin Rows
    BY <1>3, <2>1, QuestionsAreNumbers DEF Create, Rows, RowInv, TypeOK
  <2>3. owner'[asked + 1] = a /\ \A r \in Rows : owner'[r] = owner[r]
    BY <2>1, <2>2 DEF Rows, RowInv, TypeOK
  <2>4. PollsOwn' /\ OwnAnswer' /\ WaitingIsPolled'
    BY <2>1, <2>2, <2>3, WaitKeepsPolls
  <2>5. \A r \in Open : owner[r] # a
    <3>1. ASSUME NEW r \in Open, owner[r] = a PROVE FALSE
      BY <1>3, <3>1, OpenIsFound DEF Create, RowInv, PollInv, Open, Rows
    <3> QED BY <3>1
  <2>6. Open' \subseteq Open \cup {asked + 1}
    BY <2>1, <2>2 DEF Open
  <2>7. OneOpenRow'
    <3>1. ASSUME NEW q \in Open', NEW r \in Open', owner'[q] = owner'[r]
          PROVE  q = r
      <4>1. CASE q \in Open /\ r \in Open
        BY <2>3, <3>1, <4>1 DEF PollInv, OneOpenRow, Open
      <4>2. CASE q = asked + 1 /\ r \in Open
        BY <2>3, <2>5, <3>1, <4>2 DEF Open
      <4>3. CASE q \in Open /\ r = asked + 1
        BY <2>3, <2>5, <3>1, <4>3 DEF Open
      <4> QED BY <2>6, <4>1, <4>2, <4>3
    <3> QED BY <3>1 DEF OneOpenRow
  <2> QED BY <2>4, <2>7 DEF PollInv
<1>4. ASSUME NEW a \in Asker, Look(a) PROVE PollInv'
  <2>1. UNCHANGED <<table, up>> /\ on[a] # 0
    BY <1>4 DEF Look, outside
  <2>2. on[a] \in Rows /\ owner[on[a]] = a
    BY <2>1 DEF PollInv, PollsOwn
  <2>3. CASE answer[on[a]] \in Answer /\ Return(a, answer[on[a]])
    BY <2>1, <2>2, <2>3, ReturnKeepsPolls
  <2>4. CASE UNCHANGED <<on, got, tasks>>
    BY <2>1, <2>4 DEF table, tasks, PollInv, PollsOwn, OwnAnswer, OneOpenRow,
                      WaitingIsPolled, Open, Rows
  <2>5. CASE Return(a, Null)
    BY <2>1, <2>5, ReturnKeepsPolls
  <2> QED BY <1>4, <2>3, <2>4, <2>5 DEF Look
<1>5. ASSUME NEW a \in Asker, SeeAbort(a) PROVE PollInv'
  BY <1>5, ReturnKeepsPolls DEF SeeAbort
<1>6. ASSUME UNCHANGED <<table, on, got, task, up>> PROVE PollInv'
  BY <1>6 DEF table, PollInv, PollsOwn, OwnAnswer, OneOpenRow, WaitingIsPolled,
              Open, Rows
<1>7. ASSUME NEW a \in Asker, TimePasses(a) PROVE PollInv'
  BY <1>6, <1>7 DEF TimePasses, tasks, outside
<1>8. ASSUME NEW q \in Question, Writer(q) PROVE PollInv'
  BY <1>8, WriterKeepsPolls
<1>9. ASSUME CleanupRead \/ DirectiveEnds \/ DirectiveReopens \/ UNCHANGED vars
      PROVE  PollInv'
  BY <1>6, <1>9 DEF CleanupRead, DirectiveEnds, DirectiveReopens, vars, polls,
                    tasks, outside
<1>10. ASSUME NEW a \in Worker, TaskEnds(a) PROVE PollInv'
  <2>1. UNCHANGED <<table, polls, up>>
    BY <1>10 DEF TaskEnds, outside
  <2>2. \A w \in Worker : task'[w] = "waiting" => task[w] = "waiting"
    BY <1>10 DEF TaskEnds, RowInv, TypeOK
  <2> QED BY <2>1, <2>2 DEF table, polls, PollInv, PollsOwn, OwnAnswer,
                            OneOpenRow, WaitingIsPolled, Open, Rows
<1>11. ASSUME Crash PROVE PollInv'
  <2>1. UNCHANGED table /\ ~up' /\ \A a \in Asker : on'[a] = 0 /\ got'[a] = Null
    BY <1>11 DEF Crash
  <2> QED BY <2>1 DEF table, PollInv, PollsOwn, OwnAnswer, OneOpenRow,
                      WaitingIsPolled, Open, Rows
<1>12. ASSUME Boot PROVE PollInv'
  <2>1. UNCHANGED <<table, polls>> /\ \A w \in Worker : task'[w] # "waiting"
    BY <1>12 DEF Boot
  <2> QED BY <2>1 DEF table, polls, PollInv, PollsOwn, OwnAnswer, OneOpenRow,
                      WaitingIsPolled, Open, Rows
<1> QED
  BY <1>1, <1>2, <1>3, <1>4, <1>5, <1>7, <1>8, <1>9, <1>10, <1>11, <1>12
  DEF Next, Ask, Polling, Outside

LEMMA InitPolls == Init => PollInv
<1> SUFFICES ASSUME Init PROVE PollInv
  OBVIOUS
<1>1. Open = {}
  BY QuestionsAreNumbers DEF Init, Open, Rows
<1>2. \A a \in Asker : on[a] = 0 /\ got[a] = Null
  BY DEF Init
<1>3. \A w \in Worker : task[w] = "running"
  BY DEF Init
<1> QED BY <1>1, <1>2, <1>3
        DEF PollInv, PollsOwn, OwnAnswer, OneOpenRow, WaitingIsPolled

LEMMA InvHolds == Spec => []AskInv
<1>1. Init => AskInv
  BY InitRows, InitPolls DEF AskInv
<1>2. AskInv /\ [Next]_vars => AskInv'
  BY StepRows, StepPolls DEF AskInv
<1> QED BY <1>1, <1>2, PTL DEF Spec

\* An asker has the answer to its own question, as the row still says it.
THEOREM AnswersOwned == Spec => []OwnAnswer
<1>1. AskInv => OwnAnswer
  BY DEF AskInv, PollInv
<1> QED BY <1>1, InvHolds, PTL

\* However often it asks again, an asker has at most one open row.
THEOREM OneOpenRowEach == Spec => []OneOpenRow
<1>1. AskInv => OneOpenRow
  BY DEF AskInv, PollInv
<1> QED BY <1>1, InvHolds, PTL

\* While the daemon runs, a task marked as waiting has a poll that ends it.
THEOREM WaitingPolled == Spec => []WaitingIsPolled
<1>1. AskInv => WaitingIsPolled
  BY DEF AskInv, PollInv
<1> QED BY <1>1, InvHolds, PTL

-----------------------------------------------------------------------------
(* A dead task.                                                            *)

\* A worker that runs has a row that is not ended, and a daemon.
LiveTasks == \A w \in Worker : alive[w] => up /\ task[w] \in {"running", "waiting"}

\* What the askers do to a task row.
LEMMA AskersAndTasks ==
    ASSUME TypeOK, NEW a \in Asker, Ask(a) \/ Polling(a), NEW w \in Worker
    PROVE  /\ task'[w] = task[w] \/ {task[w], task'[w]} \subseteq {"running", "waiting"}
           /\ UNCHANGED <<alive, up>>
<1>1. ASSUME NEW q, Wait(a, q)
      PROVE  task'[w] = task[w] \/ {task[w], task'[w]} \subseteq {"running", "waiting"}
  BY <1>1 DEF Wait
<1>2. ASSUME NEW text, Return(a, text)
      PROVE  task'[w] = task[w] \/ {task[w], task'[w]} \subseteq {"running", "waiting"}
  BY <1>2 DEF Return
<1>3. UNCHANGED <<alive, up>>
  BY DEF Ask, Polling, Recall, Resume, Create, Look, SeeAbort, TimePasses,
         Wait, Return, tasks, outside
<1> QED BY <1>1, <1>2, <1>3 DEF Ask, Polling, Recall, Resume, Create, Look,
                                SeeAbort, TimePasses, tasks

\* The steps that touch no task row.
LEMMA OthersAndTasks ==
    ASSUME \/ \E q \in Question : Writer(q)
           \/ CleanupRead \/ DirectiveEnds \/ DirectiveReopens \/ UNCHANGED vars
    PROVE  UNCHANGED <<task, alive, up>>
BY DEF Writer, HumanAnswer, RowLate, Claim, Finalize, DispatchThrows, Cleanup,
       CleanupRead, DirectiveEnds, DirectiveReopens, vars, tasks, outside

LEMMA StepLive == TypeOK /\ LiveTasks /\ [Next]_vars => LiveTasks'
<1> SUFFICES ASSUME TypeOK, LiveTasks, [Next]_vars PROVE LiveTasks'
  OBVIOUS
<1>1. ASSUME NEW a \in Asker, Ask(a) \/ Polling(a) PROVE LiveTasks'
  BY <1>1, AskersAndTasks DEF LiveTasks
<1>2. ASSUME NEW a \in Worker, TaskEnds(a) PROVE LiveTasks'
  BY <1>2 DEF TaskEnds, TypeOK, LiveTasks, outside
<1>3. ASSUME Crash PROVE LiveTasks'
  BY <1>3 DEF Crash, LiveTasks
<1>4. ASSUME Boot PROVE LiveTasks'
  BY <1>4 DEF Boot, LiveTasks
<1>5. ASSUME UNCHANGED <<task, alive, up>> PROVE LiveTasks'
  BY <1>5 DEF LiveTasks
<1> QED BY <1>1, <1>2, <1>3, <1>4, <1>5, OthersAndTasks DEF Next, Outside

LEMMA DeadStaysStep ==
    ASSUME TypeOK, LiveTasks, [Next]_vars, NEW w \in Worker,
           task[w] \in {"ended", "aborted"}
    PROVE  task'[w] = task[w]
<1>1. ~alive[w]
  BY DEF LiveTasks
<1>2. ASSUME NEW a \in Asker, Ask(a) \/ Polling(a) PROVE task'[w] = task[w]
  BY <1>2, AskersAndTasks
<1>3. ASSUME NEW a \in Worker, TaskEnds(a) PROVE task'[w] = task[w]
  BY <1>1, <1>3 DEF TaskEnds, TypeOK
<1>4. CASE Boot
  BY <1>4 DEF Boot
<1>5. CASE Crash
  BY <1>5 DEF Crash
<1>6. ASSUME UNCHANGED <<task, alive, up>> PROVE task'[w] = task[w]
  BY <1>6
<1> QED BY <1>2, <1>3, <1>4, <1>5, <1>6, OthersAndTasks DEF Next, Outside

\* A handler that outlives its worker never revives the task's row.
THEOREM DeadStays == Spec => DeadTaskStays
<1>1. Init => TypeOK /\ LiveTasks
  BY InitTyped DEF Init, LiveTasks
<1>2. TypeOK /\ LiveTasks /\ [Next]_vars => (TypeOK /\ LiveTasks)'
  BY StepTyped, StepLive
<1>3. TypeOK /\ LiveTasks /\ [Next]_vars
        => [\A a \in Worker :
              task[a] \in {"ended", "aborted"} => task'[a] = task[a]]_vars
  BY DeadStaysStep
<1> QED BY <1>1, <1>2, <1>3, PTL DEF Spec, DeadTaskStays

-----------------------------------------------------------------------------
(* The refinement.                                                         *)

\* The cell of a row.
Shown == [q \in Question |-> IF answer[q] = InFlight THEN Null ELSE answer[q]]

LEMMA ShownValues ==
    ASSUME TypeOK, NEW q \in Question
    PROVE  /\ Shown[q] = Null <=> answer[q] \in {Null, InFlight}
           /\ answer[q] \in Answer => Shown[q] = answer[q]
BY TextsDiffer DEF Shown, TypeOK

LEMMA InitRefines == Init => Cells!Init
BY TextsDiffer DEF Init, Cells!Init

\* The first text a row gets is a Write.
LEMMA PutWrites ==
    ASSUME TypeOK, NEW q \in Question, NEW text \in Answer, NEW s,
           Put(q, text, s), answer[q] \in {Null, InFlight}, UNCHANGED got
    PROVE  Cells!Next
<1>1. Shown[q] = Null
  BY ShownValues
<1>2. Shown' = [Shown EXCEPT ![q] = text]
  BY TextsDiffer DEF Put, Shown, TypeOK
<1>3. Cells!Write(q, text)
  BY <1>1, <1>2 DEF Cells!Write, Shown
<1> QED BY <1>3 DEF Cells!Next

\* The claim writes what the cell does not show.
LEMMA ClaimHides ==
    ASSUME TypeOK, NEW q \in Question, NEW s, Put(q, InFlight, s),
           answer[q] = Null
    PROVE  Shown' = Shown
BY TextsDiffer DEF Put, Shown, TypeOK

\* A call that returns a written answer is a Read, any other a Forget.
LEMMA ReturnReads ==
    ASSUME TypeOK, NEW a \in Asker, NEW q \in Question, answer[q] \in Answer,
           Return(a, answer[q]), UNCHANGED answer
    PROVE  Cells!Next
<1>1. Shown[q] # Null /\ Shown[q] = answer[q]
  BY ShownValues, TextsDiffer
<1>2. Shown' = Shown /\ got' = [got EXCEPT ![a] = Shown[q]]
  BY <1>1 DEF Return, Shown
<1>3. Cells!Read(a, q)
  BY <1>1, <1>2 DEF Cells!Read, Shown
<1> QED BY <1>3 DEF Cells!Next

LEMMA ForgetNext ==
    ASSUME TypeOK, NEW R \in SUBSET Asker, UNCHANGED answer,
           got' = [a \in Asker |-> IF a \in R THEN Null ELSE got[a]]
    PROVE  Cells!Next
<1>1. Cells!Forget(R)
  BY DEF Cells!Forget
<1> QED BY <1>1 DEF Cells!Next

LEMMA OneForgets ==
    ASSUME TypeOK, NEW a \in Asker, UNCHANGED answer,
           got' = [got EXCEPT ![a] = Null]
    PROVE  Cells!Next
<1>1. got' = [b \in Asker |-> IF b \in {a} THEN Null ELSE got[b]]
  BY DEF TypeOK
<1> QED BY <1>1, ForgetNext

\* Every step of the rows and polls is a step of the write-once cells.
LEMMA StepRefines == AskInv /\ [Next]_vars => [Cells!Next]_(Cells!vars)
<1> SUFFICES ASSUME AskInv, [Next]_vars
             PROVE  Cells!Next \/ UNCHANGED <<Shown, got>>
  BY DEF Cells!vars, Shown
<1> USE TextsDiffer
<1>0. TypeOK
  BY DEF AskInv, RowInv
<1>1. ASSUME NEW a \in Asker, Recall(a) PROVE Cells!Next
  <2>1. PICK q \in Question : AnsweredMatch(a, q) /\ Return(a, answer[q])
    BY <1>1 DEF Recall
  <2>2. answer[q] \in Answer /\ UNCHANGED answer
    BY <1>1, <2>1 DEF Recall, AnsweredMatch, Newest, Decided, table
  <2> QED BY <1>0, <2>1, <2>2, ReturnReads
<1>2. ASSUME NEW a \in Asker, Resume(a) \/ Create(a) PROVE Cells!Next
  <2>1. UNCHANGED answer /\ got' = [got EXCEPT ![a] = Null]
    BY <1>2 DEF Resume, Create, Wait, table
  <2> QED BY <1>0, <2>1, OneForgets
<1>3. ASSUME NEW a \in Asker, Look(a) PROVE Cells!Next \/ UNCHANGED <<Shown, got>>
  <2>1. UNCHANGED answer /\ on[a] \in Question
    BY <1>3 DEF Look, table, AskInv, PollInv, PollsOwn, Rows
  <2>2. CASE answer[on[a]] \in Answer /\ Return(a, answer[on[a]])
    BY <1>0, <2>1, <2>2, ReturnReads
  <2>3. CASE UNCHANGED <<on, got, tasks>>
    BY <2>1, <2>3 DEF Shown
  <2>4. CASE Return(a, Null)
    BY <1>0, <2>1, <2>4, OneForgets DEF Return
  <2> QED BY <1>3, <2>2, <2>3, <2>4 DEF Look
<1>4. ASSUME NEW a \in Asker, SeeAbort(a) PROVE Cells!Next
  BY <1>0, <1>4, OneForgets DEF SeeAbort, Return, table
<1>5. ASSUME NEW q \in Question, HumanAnswer(q) PROVE Cells!Next
  <2>1. answer[q] = Null /\ UNCHANGED got
    BY <1>5 DEF HumanAnswer, polls, AskInv, RowInv, Unclaimed
  <2> QED BY <1>0, <1>5, <2>1, PutWrites DEF HumanAnswer
<1>6. ASSUME NEW q \in Question, Claim(q) PROVE UNCHANGED <<Shown, got>>
  BY <1>0, <1>6, ClaimHides DEF Claim, Open, polls
<1>7. ASSUME NEW q \in Question, Finalize(q) PROVE Cells!Next
  <2>1. answer[q] = InFlight /\ UNCHANGED got
    BY <1>7 DEF Finalize, polls, AskInv, RowInv, Dispatching
  <2>2. PICK text \in Answer, s \in {"agent", "agent-failed"} : Put(q, text, s)
    BY <1>7 DEF Finalize
  <2> QED BY <1>0, <2>1, <2>2, PutWrites
<1>8. ASSUME NEW q \in Question, Cleanup(q)
      PROVE  Cells!Next \/ UNCHANGED <<Shown, got>>
  <2>1. CASE q \in Open
    BY <1>0, <1>8, <2>1, PutWrites DEF Cleanup, Open, polls
  <2>2. CASE q \notin Open
    BY <1>8, <2>2 DEF Cleanup, table, polls, Shown
  <2> QED BY <2>1, <2>2
<1>9. ASSUME Crash PROVE Cells!Next
  <2>1. UNCHANGED answer
        /\ got' = [a \in Asker |-> IF a \in Asker THEN Null ELSE got[a]]
    BY <1>9 DEF Crash, table
  <2> QED BY <1>0, <2>1, ForgetNext
<1>10. ASSUME UNCHANGED <<answer, got>> PROVE UNCHANGED <<Shown, got>>
  BY <1>10 DEF Shown
<1>11. ASSUME NEW a \in Asker, TimePasses(a) PROVE UNCHANGED <<answer, got>>
  BY <1>11 DEF TimePasses, table
<1>12. ASSUME NEW q \in Question, RowLate(q) \/ DispatchThrows(q)
       PROVE  UNCHANGED <<answer, got>>
  BY <1>12 DEF RowLate, DispatchThrows, table, polls
<1>13. ASSUME CleanupRead \/ (\E a \in Worker : TaskEnds(a)) \/ DirectiveEnds
              \/ DirectiveReopens \/ Boot \/ UNCHANGED vars
       PROVE  UNCHANGED <<answer, got>>
  BY <1>13 DEF CleanupRead, TaskEnds, DirectiveEnds, DirectiveReopens, Boot,
               vars, table, polls
<1> QED
  BY <1>1, <1>2, <1>3, <1>4, <1>5, <1>6, <1>7, <1>8, <1>9, <1>10, <1>11,
     <1>12, <1>13 DEF Next, Ask, Polling, Writer, Outside

\* The question rows implement write-once cells: whatever the order of human,
\* automatic and sweep, an answer is written once, and is what calls return.
THEOREM RowsAreWriteOnce == Spec => AnswersAreFinal
<1>1. Init => Cells!Init
  BY InitRefines
<1>2. AskInv /\ [Next]_vars => [Cells!Next]_(Cells!vars)
  BY StepRefines
<1> QED BY <1>1, <1>2, InvHolds, PTL DEF Spec, AnswersAreFinal, Cells!Spec
=============================================================================
