------------------------ MODULE DirectiveServe_proofs ------------------------
(***************************************************************************)
(* Theorems about DirectiveServe, for any finite set of directives, any    *)
(* concurrency and any bounds.                                             *)
(***************************************************************************)
EXTENDS DirectiveServe, FiniteSetTheorems, TLAPS

-----------------------------------------------------------------------------
(* Type correctness.                                                       *)

\* What Goto and Leave do to the run tables keeps their type.
LEMMA GotoType ==
    ASSUME TypeOK, NEW x \in Exec, NEW d \in Directive, NEW p \in Phase,
           Goto(x, d, p)
    PROVE  run' \in [Exec -> [Directive -> Phase]]
BY DEF TypeOK, Goto

LEMMA LeaveType ==
    ASSUME TypeOK, NEW x \in Exec, NEW d \in Directive, Leave(x, d)
    PROVE  /\ run' \in [Exec -> [Directive -> Phase]]
           /\ bad' \in [Exec -> [Directive -> BOOLEAN]]
           /\ abort' \in [Directive -> BOOLEAN]
<1>1. "none" \in Phase
  BY DEF Phase
<1>2. run' \in [Exec -> [Directive -> Phase]]
  BY <1>1, GotoType DEF Leave
<1> QED
  BY <1>2 DEF TypeOK, Leave

LEMMA ClientType ==
    ASSUME TypeOK, NEW d \in Directive, Client(d)
    PROVE  TypeOK'
<1>1. CASE Submit(d)
  <2>1. run' \in [Exec -> [Directive -> Phase]]
    BY <1>1, GotoType DEF Submit, TypeOK, Phase, Exec
  <2> QED
    BY <1>1, <2>1 DEF Submit, TypeOK, Status, daemon
<1>2. CASE CliExit(d)
  BY <1>2, LeaveType DEF CliExit, TypeOK, Exec, rows, daemon
<1>3. CASE Cancel(d)
  BY <1>3 DEF Cancel, SetBoth, TypeOK, Status, Terminal, Reason, daemon
<1>4. CASE MarkBlocked(d)
  BY <1>4 DEF MarkBlocked, SetBoth, TypeOK, Status, Terminal, Reason, runs, daemon
<1>5. CASE RetryBegin(d)
  BY <1>5 DEF RetryBegin, TypeOK, rows, runs, daemon
<1>6. CASE RetryCommit(d)
  BY <1>6, BoundAssumption DEF RetryCommit, TypeOK, Status, runs, daemon
<1> QED
  BY <1>1, <1>2, <1>3, <1>4, <1>5, <1>6 DEF Client

LEMMA LoopType ==
    ASSUME TypeOK, NEW d \in Directive, Loop(d)
    PROVE  TypeOK'
<1>1. /\ "import" \in Phase
      /\ "serve" \in Exec
  BY DEF Phase, Exec
<1>2. run' \in [Exec -> [Directive -> Phase]]
  BY <1>1, GotoType DEF Loop, Claim, ReEnter
<1>3. CASE Claim(d)
  BY <1>2, <1>3 DEF Claim, SetStatus, TypeOK, Status
<1>4. CASE ReEnter(d)
  BY <1>2, <1>4, BoundAssumption DEF ReEnter, Signalled, TypeOK
<1> QED
  BY <1>3, <1>4 DEF Loop

LEMMA LifeType ==
    ASSUME TypeOK, Life
    PROVE  TypeOK'
<1>1. CASE RaiseCap
  BY <1>1 DEF RaiseCap, TypeOK, rows, runs
<1>2. CASE Recheck
  BY <1>2 DEF Recheck, TypeOK, Status, Reason, runs
<1>3. CASE Shutdown
  BY <1>3 DEF Shutdown, TypeOK, rows, runs
<1>4. CASE Drained
  BY <1>4 DEF Drained, TypeOK, rows, runs
<1>5. CASE Crash
  BY <1>5 DEF Crash, TypeOK, Phase, rows
<1>6. CASE Boot
  BY <1>6, BoundAssumption DEF Boot, TypeOK, Status, Terminal, Reason, runs
<1> QED
  BY <1>1, <1>2, <1>3, <1>4, <1>5, <1>6 DEF Life

\* A pipeline that goes on, or ends, with a plain status update.
LEMMA WaitType ==
    ASSUME TypeOK, NEW x \in Exec, NEW d \in Directive,
           Resumed(x, d) \/ Declined(x, d)
    PROVE  TypeOK'
<1>1. CASE Resumed(x, d)
  <2>1. run' \in [Exec -> [Directive -> Phase]]
    BY <1>1, GotoType DEF Resumed, Phase
  <2> QED
    BY <1>1, <2>1 DEF Resumed, TypeOK, rows, daemon
<1>2. CASE Declined(x, d)
  BY <1>2, LeaveType DEF Declined, SetStatus, TypeOK, Status, Terminal, daemon
<1> QED
  BY <1>1, <1>2

LEMMA CatchType ==
    ASSUME TypeOK, NEW x \in Exec, NEW d \in Directive
    PROVE  CatchStatus(x, d) \in Status
BY DEF CatchStatus, TypeOK, Status, Terminal, Exec

LEMMA PipelineType ==
    ASSUME TypeOK, NEW x \in Exec, NEW d \in Directive, Pipeline(x, d)
    PROVE  TypeOK'
<1>1. CASE Begin(x, d)
  <2>1. run' \in [Exec -> [Directive -> Phase]]
    BY <1>1, GotoType DEF Begin, Phase
  <2> QED
    BY <1>1, <2>1 DEF Begin, SetStatus, TypeOK, Status, daemon
<1>2. CASE ReplyDone(x, d)
  BY <1>2, LeaveType DEF ReplyDone, SetStatus, TypeOK, Status, Terminal, daemon
<1>3. CASE BudgetHalt(x, d)
  BY <1>3, LeaveType DEF BudgetHalt, SetBoth, TypeOK, Status, Terminal, Reason, daemon
<1>4. CASE Ask(x, d)
  <2>1. run' \in [Exec -> [Directive -> Phase]]
    BY <1>4, GotoType DEF Ask, Phase
  <2> QED
    BY <1>4, <2>1 DEF Ask, TypeOK, rows, daemon
<1>5. CASE Proceed(x, d)
  <2>1. run' \in [Exec -> [Directive -> Phase]]
    BY <1>5, GotoType DEF Proceed, Phase
  <2> QED
    BY <1>5, <2>1 DEF Proceed, TypeOK, rows, daemon
<1>6. CASE HumanAnswer(x, d) \/ AutoAnswer(x, d) \/ AbortSeen(x, d)
  BY <1>6, WaitType DEF HumanAnswer, AutoAnswer, AbortSeen
<1>7. CASE ParkPool(x, d)
  BY <1>7 DEF ParkPool, SetBoth, TypeOK, Status, Terminal, Reason, daemon
<1>8. CASE ParkWallClock(x, d)
  BY <1>8 DEF ParkWallClock, SetBoth, TypeOK, Status, Terminal, Reason, daemon
<1>9. CASE WorkDone(x, d)
  <2>1. PICK taskFailed \in BOOLEAN, gateFailed \in BOOLEAN :
          LET failures == bad[x][d] \/ taskFailed \/ gateFailed
          IN  /\ failedRow' = [failedRow EXCEPT ![d] = @ \/ taskFailed]
              /\ bad' = [bad EXCEPT ![x] = [@ EXCEPT ![d] = failures]]
              /\ Goto(x, d, IF failures /\ d \in Autonomous
                            THEN "escalated" ELSE "final")
    BY <1>9 DEF WorkDone
  <2>2. run' \in [Exec -> [Directive -> Phase]]
    BY <2>1, GotoType DEF Phase
  <2>3. failedRow' \in [Directive -> BOOLEAN]
    BY <2>1 DEF TypeOK
  <2>4. bad' \in [Exec -> [Directive -> BOOLEAN]]
    BY <2>1 DEF TypeOK
  <2> QED
    BY <1>9, <2>2, <2>3, <2>4 DEF WorkDone, TypeOK, daemon
<1>10. CASE Finish(x, d)
  <2>1. run' \in [Exec -> [Directive -> Phase]]
    BY <1>10, GotoType DEF Finish, Phase
  <2> QED
    BY <1>10, <2>1 DEF Finish, SetStatus, TypeOK, Status, Terminal, daemon
<1>11. CASE Settle(x, d)
  BY <1>11, LeaveType DEF Settle, TypeOK, rows, daemon
<1>12. CASE Throw(x, d)
  BY <1>12, LeaveType, CatchType DEF Throw, SetStatus, TypeOK, daemon
<1> QED
  BY <1>1, <1>2, <1>3, <1>4, <1>5, <1>6, <1>7, <1>8, <1>9, <1>10, <1>11, <1>12
  DEF Pipeline

LEMMA InitType == Init => TypeOK
<1> SUFFICES ASSUME Init
             PROVE  TypeOK
  OBVIOUS
<1>1. run \in [Exec -> [Directive -> Phase]]
  BY DEF Init, Phase
<1>2. bad \in [Exec -> [Directive -> BOOLEAN]]
  BY DEF Init
<1>3. /\ failedRow \in [Directive -> BOOLEAN]
      /\ abort \in [Directive -> BOOLEAN]
      /\ retrying \in [Directive -> BOOLEAN]
      /\ \A d \in Directive : retrying[d] => signals[d] < MaxSignals
  BY DEF Init
<1>4. /\ birth \in [Directive -> Nat]
      /\ signals \in [Directive -> 0..MaxSignals]
      /\ boots \in 0..MaxBoots
  BY BoundAssumption DEF Init
<1>5. /\ status \in [Directive -> Status]
      /\ reason \in [Directive -> Reason]
  BY DEF Init, Status, Reason
<1> QED
  BY <1>1, <1>2, <1>3, <1>4, <1>5 DEF Init, TypeOK

LEMMA NextType == TypeOK /\ [Next]_vars => TypeOK'
<1> SUFFICES ASSUME TypeOK, [Next]_vars
             PROVE  TypeOK'
  OBVIOUS
<1>1. CASE UNCHANGED vars
  BY <1>1 DEF TypeOK, vars, rows, runs, daemon
<1> QED
  BY <1>1, ClientType, LoopType, PipelineType, LifeType DEF Next

(* Every reachable state has the declared types and respects the bounds.   *)
THEOREM TypeCorrect == Spec => []TypeOK
BY InitType, NextType, PTL DEF Spec

-----------------------------------------------------------------------------
(* The concurrency of the serve loop.                                      *)

LEMMA InflightFinite ==
    /\ IsFiniteSet(Inflight)
    /\ IsFiniteSet(Inflight')
BY DirectiveAssumption, FS_Subset DEF Inflight

\* A directive already in flight, or run by a CLI process, takes no slot.
LEMMA GotoTakesNoSlot ==
    ASSUME TypeOK, NEW x \in Exec, NEW d \in Directive, NEW p \in Phase,
           x = "serve" => d \in Inflight,
           Goto(x, d, p)
    PROVE  Inflight' \subseteq Inflight
BY DEF Inflight, TypeOK, Goto, Exec

LEMMA PipelineTakesNoSlot ==
    ASSUME TypeOK, NEW x \in Exec, NEW d \in Directive, Pipeline(x, d)
    PROVE  Inflight' \subseteq Inflight
<1>1. x = "serve" => d \in Inflight
  BY DEF Pipeline, Begin, ReplyDone, BudgetHalt, Ask, Proceed, HumanAnswer,
     AutoAnswer, AbortSeen, Waiting, ParkPool, ParkWallClock, WorkDone, Finish,
     Settle, Throw, Inflight
<1>2. run' = run \/ \E p \in Phase : Goto(x, d, p)
  BY DEF Pipeline, Begin, ReplyDone, BudgetHalt, Ask, Proceed, HumanAnswer,
     AutoAnswer, AbortSeen, Resumed, Declined, ParkPool, ParkWallClock,
     WorkDone, Finish, Settle, Throw, Leave, Phase
<1> QED
  BY <1>1, <1>2, GotoTakesNoSlot DEF Inflight

LEMMA OthersTakeNoSlot ==
    ASSUME TypeOK, NEW d \in Directive, Client(d) \/ Life
    PROVE  Inflight' \subseteq Inflight
<1>1. CASE Submit(d) \/ CliExit(d)
  <2>1. run' = run \/ \E p \in Phase : Goto("cli", d, p)
    BY <1>1 DEF Submit, CliExit, Leave, Phase
  <2> QED
    BY <2>1, GotoTakesNoSlot DEF Exec, Inflight
<1>2. CASE Crash
  BY <1>2 DEF Crash, Inflight, TypeOK, Exec
<1>3. CASE ~(Submit(d) \/ CliExit(d) \/ Crash)
  BY <1>3 DEF Client, Cancel, MarkBlocked, RetryBegin, RetryCommit, Life,
     RaiseCap, Recheck, Shutdown, Drained, Boot, runs, Inflight
<1> QED
  BY <1>1, <1>2, <1>3

LEMMA LoopTakesOneSlot ==
    ASSUME TypeOK, NEW d \in Directive, Loop(d)
    PROVE  InflightBound'
<1>1. Inflight' \subseteq Inflight \cup {d}
  BY DEF Loop, Claim, ReEnter, Goto, Inflight, TypeOK, Exec
<1>2. Cardinality(Inflight) < Concurrency
  BY DEF Loop, Claim, ReEnter, HasSlot
<1>3. /\ IsFiniteSet(Inflight \cup {d})
      /\ Cardinality(Inflight \cup {d}) <= Cardinality(Inflight) + 1
  <2>1. IsFiniteSet(Inflight)
    BY InflightFinite
  <2>2. /\ IsFiniteSet(Inflight \cup {d})
        /\ \/ d \in Inflight
              /\ Cardinality(Inflight \cup {d}) = Cardinality(Inflight)
           \/ d \notin Inflight
              /\ Cardinality(Inflight \cup {d}) = Cardinality(Inflight) + 1
    BY <2>1, FS_AddElement
  <2>3. Cardinality(Inflight) \in Nat
    BY <2>1, FS_CardinalityType
  <2> QED
    BY <2>2, <2>3
<1>4. Cardinality(Inflight') <= Cardinality(Inflight \cup {d})
  BY <1>1, <1>3, FS_Subset
<1>5. /\ Cardinality(Inflight) \in Nat
      /\ Cardinality(Inflight') \in Nat
      /\ Cardinality(Inflight \cup {d}) \in Nat
  BY <1>3, InflightFinite, FS_CardinalityType
<1> QED
  BY <1>2, <1>3, <1>4, <1>5, BoundAssumption DEF InflightBound

LEMMA NextInflight == TypeOK /\ InflightBound /\ [Next]_vars => InflightBound'
<1> SUFFICES ASSUME TypeOK, InflightBound, [Next]_vars
             PROVE  InflightBound'
  OBVIOUS
<1>1. CASE \E d \in Directive : Loop(d)
  BY <1>1, LoopTakesOneSlot
<1>2. CASE ~\E d \in Directive : Loop(d)
  <2>1. Inflight' \subseteq Inflight
    <3>1. CASE UNCHANGED vars
      BY <3>1 DEF vars, runs, Inflight
    <3>2. CASE Life
      <4>1. CASE Directive = {}
        BY <4>1 DEF Inflight
      <4> QED
        BY <3>2, <4>1, OthersTakeNoSlot
    <3> QED
      BY <1>2, <3>1, <3>2, PipelineTakesNoSlot, OthersTakeNoSlot DEF Next
  <2>2. Cardinality(Inflight') <= Cardinality(Inflight)
    BY <2>1, InflightFinite, FS_Subset
  <2> QED
    BY <2>2, InflightFinite, FS_CardinalityType, BoundAssumption DEF InflightBound
<1> QED
  BY <1>1, <1>2

(* The claim path and the retry path together never overfill the slots.    *)
THEOREM InflightBounded == Spec => []InflightBound
<1>1. Init => InflightBound
  BY FS_EmptySet, BoundAssumption DEF Init, InflightBound, Inflight, Exec
<1> QED
  BY <1>1, TypeCorrect, NextInflight, PTL DEF Spec

-----------------------------------------------------------------------------
(* No directive is lost, and none is reopened.                             *)

\* What a step of directive d leaves alone of every other directive e.
SameRow(e) ==
    /\ status'[e] = status[e]
    /\ signals'[e] = signals[e]
    /\ \A y \in Exec : run'[y][e] = run[y][e]

LEMMA GotoLeavesOthers ==
    ASSUME TypeOK, NEW x \in Exec, NEW d \in Directive, NEW p \in Phase,
           Goto(x, d, p), NEW e \in Directive, e # d
    PROVE  \A y \in Exec : run'[y][e] = run[y][e]
BY DEF Goto, TypeOK

LEMMA PipelineLeavesOthers ==
    ASSUME TypeOK, NEW x \in Exec, NEW d \in Directive, Pipeline(x, d),
           NEW e \in Directive, e # d
    PROVE  SameRow(e)
<1>1. \A y \in Exec : run'[y][e] = run[y][e]
  <2>1. run' = run \/ \E p \in Phase : Goto(x, d, p)
    BY DEF Pipeline, Begin, ReplyDone, BudgetHalt, Ask, Proceed, HumanAnswer,
       AutoAnswer, AbortSeen, Resumed, Declined, ParkPool, ParkWallClock,
       WorkDone, Finish, Settle, Throw, Leave, Phase
  <2> QED
    BY <2>1, GotoLeavesOthers
<1>2. /\ status'[e] = status[e]
      /\ signals' = signals
  BY DEF Pipeline, Begin, ReplyDone, BudgetHalt, Ask, Proceed, HumanAnswer,
     AutoAnswer, AbortSeen, Resumed, Declined, ParkPool, ParkWallClock,
     WorkDone, Finish, Settle, Throw, SetStatus, SetBoth, rows, TypeOK
<1> QED
  BY <1>1, <1>2 DEF SameRow

LEMMA ClientLeavesOthers ==
    ASSUME TypeOK, NEW d \in Directive, Client(d) \/ Loop(d),
           NEW e \in Directive, e # d
    PROVE  SameRow(e)
<1>1. \A y \in Exec : run'[y][e] = run[y][e]
  <2>1. run' = run \/ \E x \in Exec, p \in Phase : Goto(x, d, p)
    BY DEF Client, Submit, CliExit, Cancel, MarkBlocked, RetryBegin,
       RetryCommit, Loop, Claim, ReEnter, Leave, runs, Phase, Exec
  <2> QED
    BY <2>1, GotoLeavesOthers
<1>2. /\ status'[e] = status[e]
      /\ signals'[e] = signals[e]
  BY DEF Client, Submit, CliExit, Cancel, MarkBlocked, RetryBegin, RetryCommit,
     Loop, Claim, ReEnter, SetStatus, SetBoth, rows, TypeOK
<1> QED
  BY <1>1, <1>2 DEF SameRow

LEMMA SameRowSameFate ==
    ASSUME NEW e \in Directive, SameRow(e)
    PROVE  Stranded(e)' <=> Stranded(e)
BY DEF SameRow, Stranded, Owner

\* The four ways to lose directive d.
LostBy(d) ==
    \/ changed /\ ~changed'
    \/ serve # "down" /\ serve' = "down"
    \/ run["cli"][d] # "none" /\ run'["cli"][d] = "none"
    \/ abort[d] /\ run'["serve"][d] = "none"

LEMMA ClientStrands ==
    ASSUME TypeOK, NEW d \in Directive, Client(d) \/ Loop(d),
           ~Stranded(d), Stranded(d)'
    PROVE  LostBy(d)
<1>1. CASE Submit(d) \/ Cancel(d) \/ MarkBlocked(d)
  <2>1. status'[d] \in {"pending", "failed", "blocked"}
    BY <1>1 DEF Submit, Cancel, MarkBlocked, SetBoth, TypeOK
  <2> QED
    BY <2>1 DEF Stranded
<1>2. CASE CliExit(d)
  <2>1. run'["cli"][d] = "none"
    BY <1>2 DEF CliExit, Leave, Goto, TypeOK, Exec
  <2> QED
    BY <1>2, <2>1 DEF CliExit, LostBy
<1>3. CASE RetryBegin(d)
  BY <1>3 DEF RetryBegin, rows, runs, Stranded, Owner
<1>4. CASE RetryCommit(d)
  <2>1. signals'[d] = signals[d] + 1 /\ signals[d] \in Nat
    BY <1>4, BoundAssumption DEF RetryCommit, TypeOK
  <2> QED
    BY <2>1 DEF Stranded
<1>5. CASE Loop(d)
  <2>1. run'["serve"][d] = "import"
    BY <1>5 DEF Loop, Claim, ReEnter, Goto, TypeOK, Exec
  <2> QED
    BY <2>1 DEF Stranded, Owner, Exec
<1> QED
  BY <1>1, <1>2, <1>3, <1>4, <1>5 DEF Client

\* The pipeline's last step, whatever it is, ends the run or writes a
\* terminal status, except for the throw of a cancelled or CLI run.
LEMMA PipelineStrands ==
    ASSUME TypeOK, NEW x \in Exec, NEW d \in Directive, Pipeline(x, d),
           ~Stranded(d), Stranded(d)'
    PROVE  LostBy(d)
<1>1. CASE ReplyDone(x, d) \/ BudgetHalt(x, d) \/ Declined(x, d)
           \/ ParkPool(x, d) \/ ParkWallClock(x, d) \/ Finish(x, d)
  <2>1. status'[d] \in Terminal
    BY <1>1 DEF ReplyDone, BudgetHalt, Declined, ParkPool, ParkWallClock,
       Finish, SetStatus, SetBoth, TypeOK, Terminal
  <2> QED
    BY <2>1 DEF Stranded, Terminal
<1>2. CASE Begin(x, d) \/ Ask(x, d) \/ Proceed(x, d) \/ Resumed(x, d)
           \/ WorkDone(x, d)
  <2>1. run'[x][d] \notin {"none", "closing"}
    BY <1>2 DEF Begin, Ask, Proceed, Resumed, WorkDone, Goto, TypeOK
  <2> QED
    BY <2>1 DEF Stranded, Owner
<1>3. CASE Settle(x, d)
  <2>1. /\ status' = status
        /\ signals' = signals
        /\ \A y \in Exec : Owner(y, d) => Owner(y, d)'
    BY <1>3 DEF Settle, Leave, Goto, rows, Owner, TypeOK
  <2> QED
    BY <2>1 DEF Stranded
<1>4. CASE Throw(x, d)
  <2>1. /\ run[x][d] # "none"
        /\ run'[x][d] = "none"
    BY <1>4 DEF Throw, Leave, Goto, TypeOK
  <2>2. CASE x = "cli"
    BY <2>1, <2>2 DEF LostBy
  <2>3. CASE x = "serve" /\ serve # "draining" /\ abort[d]
    BY <2>1, <2>3 DEF LostBy
  <2>4. CASE x = "serve" /\ ~(serve # "draining" /\ abort[d])
    <3>1. status'[d] \in {"blocked", "failed"}
      BY <1>4, <2>4 DEF Throw, SetStatus, CatchStatus, TypeOK
    <3> QED
      BY <3>1 DEF Stranded
  <2> QED
    BY <2>2, <2>3, <2>4 DEF Exec
<1> QED
  BY <1>1, <1>2, <1>3, <1>4 DEF Pipeline, HumanAnswer, AutoAnswer, AbortSeen

LEMMA LifeStrands ==
    ASSUME TypeOK, Life, NEW d \in Directive, ~Stranded(d), Stranded(d)'
    PROVE  LostBy(d)
<1>1. CASE Recheck \/ Crash \/ Drained
  BY <1>1 DEF Recheck, Crash, Drained, LostBy
<1>2. CASE RaiseCap \/ Shutdown
  BY <1>2 DEF RaiseCap, Shutdown, rows, runs, Stranded, Owner
<1>3. CASE Boot
  <2>1. status'[d] \in {status[d], "blocked"}
    BY <1>3 DEF Boot
  <2> QED
    BY <1>3, <2>1 DEF Boot, runs, Stranded, Owner
<1> QED
  BY <1>1, <1>2, <1>3 DEF Life

(* A claimed or running row is left with nobody on it, and no signal, only *)
(* by a cap raise, the end of the daemon, the end of a CLI run or the      *)
(* throw of a cancelled run (serve.ts catch and finally, loop.ts).         *)
THEOREM NothingElseStrands == Spec => StrandedOnlyBy
<1>1. TypeOK /\ [Next]_vars =>
        [\A d \in Directive : ~Stranded(d) /\ Stranded(d)' => LostBy(d)]_vars
  <2> SUFFICES ASSUME TypeOK, Next, NEW d \in Directive,
                      ~Stranded(d), Stranded(d)'
               PROVE  LostBy(d)
    OBVIOUS
  <2>1. CASE \E e \in Directive : Client(e) \/ Loop(e)
    BY <2>1, ClientLeavesOthers, SameRowSameFate, ClientStrands
  <2>2. CASE \E x \in Exec, e \in Directive : Pipeline(x, e)
    BY <2>2, PipelineLeavesOthers, SameRowSameFate, PipelineStrands
  <2>3. CASE Life
    BY <2>3, LifeStrands
  <2> QED
    BY <2>1, <2>2, <2>3 DEF Next
<1> QED
  BY <1>1, TypeCorrect, PTL DEF Spec, StrandedOnlyBy, LostBy

\* A step leaves the status of a finished, quiet directive alone.
LEMMA FinishedStays ==
    ASSUME TypeOK, Next, NEW d \in Directive,
           status[d] \in {"complete", "failed"}, Quiet(d)
    PROVE  status'[d] = status[d]
<1>1. CASE \E e \in Directive : Client(e) \/ Loop(e)
  <2>1. PICK e \in Directive : Client(e) \/ Loop(e)
    BY <1>1
  <2>2. CASE e = d
    BY <2>1, <2>2 DEF Client, Submit, CliExit, Cancel, MarkBlocked, RetryBegin,
       RetryCommit, Loop, Claim, ReEnter, Oldest, Signalled, rows, Quiet
  <2> QED
    BY <2>1, <2>2, ClientLeavesOthers DEF SameRow
<1>2. CASE \E x \in Exec, e \in Directive : Pipeline(x, e)
  <2>1. PICK x \in Exec, e \in Directive : Pipeline(x, e)
    BY <1>2
  <2>2. run[x][e] # "none"
    BY <2>1 DEF Pipeline, Begin, ReplyDone, BudgetHalt, Ask, Proceed,
       HumanAnswer, AutoAnswer, AbortSeen, Waiting, ParkPool, ParkWallClock,
       WorkDone, Finish, Settle, Throw
  <2>3. e # d
    BY <2>2 DEF Quiet
  <2> QED
    BY <2>1, <2>3, PipelineLeavesOthers DEF SameRow
<1>3. CASE Life
  BY <1>3 DEF Life, RaiseCap, Recheck, Parked, Shutdown, Drained, Crash, Boot,
     rows
<1> QED
  BY <1>1, <1>2, <1>3 DEF Next

(* Once its run and any retry request are over, a complete or failed row   *)
(* is never reopened: not by a claim, a re-entry, a cap raise or a start.  *)
THEOREM TerminalStays == Spec => TerminalIsFinal
<1>1. TypeOK /\ [Next]_vars =>
        [\A d \in Directive :
            status[d] \in {"complete", "failed"} /\ Quiet(d) =>
                status'[d] = status[d]]_vars
  BY FinishedStays
<1> QED
  BY <1>1, TypeCorrect, PTL DEF Spec, TerminalIsFinal
=============================================================================
