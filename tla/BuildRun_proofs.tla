--------------------------- MODULE BuildRun_proofs ---------------------------
(***************************************************************************)
(* Proofs about the build pipeline, for every ceiling, every set of        *)
(* languages and every number of runs.                                     *)
(*                                                                         *)
(* The step ceiling needs one fact more than itself: a directive has at    *)
(* least as many usage rows as gated calls, and the pre-call check counts  *)
(* the rows.  The verdict needs two invariants: of an assessment, that a   *)
(* suite that counts as passed did pass and that the interpreter chosen    *)
(* meets the requirement from the moment it is chosen; and of a run, what  *)
(* holds of its failures and of its assessment in each of its phases.      *)
(***************************************************************************)
EXTENDS BuildRun, TLAPS

-----------------------------------------------------------------------------
(* The ceiling of steps.                                                   *)

Metered == /\ rows \in Nat /\ gated \in Nat
           /\ gated <= rows
           /\ StepsBounded

USE BuildAssumption

\* A call that is let through stays under the ceiling.
LEMMA RecordedMeters ==
    ASSUME Metered, Budgeted, Recorded PROVE Metered'
  BY SMT DEF Metered, StepsBounded, Budgeted, Recorded

LEMMA SucceedsMeters ==
    ASSUME Metered, CallSucceeds PROVE Metered'
  BY RecordedMeters DEF CallSucceeds

LEMMA FailsMeters ==
    ASSUME Metered, CallFails PROVE Metered'
  BY DEF Metered, StepsBounded, CallFails, usage

\* A call that is gated ends in one of three ways.
LEMMA CallMeters ==
    ASSUME Metered, CallFails \/ Unusable \/ CallSucceeds PROVE Metered'
  BY SucceedsMeters, FailsMeters DEF Unusable

\* Task runs add rows only.
LEMMA StreamsMeter ==
    ASSUME Metered, Streams PROVE Metered'
  BY SMT DEF Metered, StepsBounded, Streams

LEMMA UsageKept ==
    ASSUME Metered, UNCHANGED usage PROVE Metered'
  BY DEF Metered, StepsBounded, usage

LEMMA MeteredKept ==
    ASSUME Metered, [Next]_vars PROVE Metered'
<1>1. CASE Begin
  <2>1. CASE UNCHANGED usage
    BY <2>1, UsageKept
  <2>2. CASE rows' = 0 /\ gated' = 0
    BY <2>2, SMT DEF Metered, StepsBounded
  <2> QED
    BY <1>1, <2>1, <2>2 DEF Begin
<1>2. CASE Work
  <2>1. CASE Triage
    BY <2>1, CallMeters DEF Triage
  <2>2. CASE CheckWiki
    BY <2>2, UsageKept DEF CheckWiki
  <2>3. CASE Architect
    BY <2>3, CallMeters DEF Architect
  <2>4. CASE WritePages
    BY <2>4, UsageKept DEF WritePages
  <2>5. CASE Critic
    BY <2>5, CallMeters DEF Critic
  <2>6. CASE Planner
    BY <2>6, CallMeters, UsageKept DEF Planner, usage
  <2>7. CASE Pool
    BY <2>7, StreamsMeter DEF Pool
  <2>8. CASE Assessing
    BY <2>8, UsageKept DEF Assessing, buildVars
  <2>9. CASE Judge
    BY <2>9, UsageKept DEF Judge
  <2>10. CASE Fixer
    BY <2>10, StreamsMeter DEF Fixer
  <2>11. CASE StopFixing \/ Validate
    BY <2>11, UsageKept DEF StopFixing, Validate
  <2> QED
    BY <1>2, <2>1, <2>2, <2>3, <2>4, <2>5, <2>6, <2>7, <2>8, <2>9, <2>10, <2>11 DEF Work
<1>3. CASE OperatorAnswers
  BY <1>3, UsageKept DEF OperatorAnswers, AskOperator, Checkpoint, Escalate
<1>4. CASE Crash
  BY <1>4, UsageKept DEF Crash
<1>5. CASE UNCHANGED vars
  BY <1>5, UsageKept DEF vars, buildVars
<1> QED
  BY <1>1, <1>2, <1>3, <1>4, <1>5 DEF Next

\* The calls that the pre-call check guards never exceed the directive's ceiling
\* of steps, however often it is resumed and whatever its tasks record
\* (budget.ts:134-150).
THEOREM CeilingHolds == Spec => []StepsBounded
<1>1. Init => Metered
  BY SMT DEF Init, Metered, StepsBounded
<1>2. Metered /\ [Next]_vars => Metered'
  BY MeteredKept
<1>3. Metered => StepsBounded
  BY DEF Metered
<1> QED
  BY <1>1, <1>2, <1>3, PTL DEF Spec

-----------------------------------------------------------------------------
(* An assessment.                                                          *)

Gate == [modules : BOOLEAN, artifacts : BOOLEAN, installed : BOOLEAN, built : BOOLEAN,
         available : BOOLEAN, passed : BOOLEAN, failed : BOOLEAN,
         mode : {"none", "host", "setup", "build", "test"}, suite : Suite]

Python == [ver : Version, by : {"project", "managed", "system"}, required : Requirement, offered : BOOLEAN,
           known : BOOLEAN]

\* What was chosen meets the requirement, if the host can meet it and its
\* version is known.
Meets == /\ python \in Python
         /\ python.offered /\ python.known => python.required <= python.ver

Chosen == {"env", "create", "install", "build", "tests"}

Assessed ==
    /\ gate \in Gate
    /\ gate.passed => gate.suite \in {"pass", "dies"}
    /\ env \in Env \cup {None}
    /\ at \in {"preflight", "venv"} => ~gate.built
    /\ at \in {"venv", "env", "create"} => lang = "python"
    /\ at = "list" => gate.built
    /\ at \in {"env", "create"} => python.known
    /\ lang = "python" /\ (at \in Chosen \/ gate.built) => Meets

\* At rest nothing was seen.
LEMMA NothingSeen == Unseen \in Gate /\ ~Unseen.built /\ ~Unseen.passed
  BY DEF Unseen, Gate, Suite

\* The interpreter is the required one if the host offers that.
LEMMA BaseIsAVersion ==
    ASSUME NEW required \in Requirement, NEW offered \in BOOLEAN, NEW v \in BaseVersions(required, offered)
    PROVE  v \in Version /\ (offered => v = required)
  BY DEF BaseVersions, Requirement

\* A step that ends the gate, or throws, leaves what was seen of the build.
LEMMA EndsKeep ==
    ASSUME Assessed, UNCHANGED <<lang, env, python>>,
           \/ \E mode \in {"none", "host", "setup", "build", "test"} : Ends(mode)
           \/ Throws
    PROVE  Assessed'
  BY DEF Assessed, Gate, Ends, Throws, To, Seen, Meets, Chosen

LEMMA AssessedPython ==
    ASSUME Assessed, Preflight \/ PickPython \/ EnsureVenv \/ CreateVenv \/ InstallPython \/ ImportModules
    PROVE  Assessed'
<1>1. CASE Preflight
  <2>1. CASE To(FirstStep(lang)) /\ UNCHANGED gate
    BY <1>1, <2>1 DEF Preflight, To, FirstStep, Assessed, Meets, Chosen
  <2> QED
    BY <1>1, <2>1, EndsKeep DEF Preflight
<1>2. CASE PickPython
  <2>1. CASE Ends("host") /\ UNCHANGED python
    BY <1>2, <2>1, EndsKeep DEF PickPython
  <2>2. ASSUME NEW v \in Version,
               python' = [ver |-> v, by |-> "project", required |-> 1, offered |-> FALSE, known |-> TRUE],
               To("install"), UNCHANGED gate
        PROVE  Assessed'
    <3>1. 1 \in Requirement
      BY SMT DEF Requirement, Version
    <3>2. Meets'
      BY <2>2, <3>1 DEF Meets, Python
    <3> QED
      BY <1>2, <2>2, <3>2 DEF PickPython, To, Assessed
  <2>3. ASSUME NEW required \in Requirement, NEW offered \in BOOLEAN, NEW v \in BaseVersions(required, offered),
               python' = [ver |-> v, by |-> "managed", required |-> required, offered |-> offered,
                          known |-> TRUE],
               To("env"), UNCHANGED gate
        PROVE  Assessed'
    <3>1. v \in Version /\ (offered => v = required)
      BY BaseIsAVersion
    <3>2. offered => required <= v
      BY <3>1, SMT DEF Version
    <3>3. python' \in Python /\ python'.known
      BY <2>3, <3>1 DEF Python
    <3>4. Meets'
      BY <2>3, <3>2, <3>3 DEF Meets
    <3> QED
      BY <1>2, <2>3, <3>3, <3>4 DEF PickPython, To, Assessed
  <2> QED
    BY <1>2, <2>1, <2>2, <2>3 DEF PickPython
<1>3. CASE EnsureVenv
  <2>1. lang = "python" /\ Meets /\ python.known
    BY <1>3 DEF EnsureVenv, Assessed, Chosen
  <2>2. ASSUME env # None, Satisfies(env.ver, python.required), To("install"),
               python' = [python EXCEPT !.ver = env.ver], UNCHANGED env
        PROVE  Assessed'
    <3>1. env.ver \in Version
      BY <2>2 DEF Assessed, Env
    <3>2. Meets'
      BY <2>1, <2>2, <3>1 DEF Meets, Python, Satisfies
    <3> QED
      BY <1>3, <2>1, <2>2, <3>2 DEF EnsureVenv, To, Assessed
  <2>3. ASSUME env # None, To("install"),
               python' = [python EXCEPT !.ver = env.ver, !.known = FALSE], UNCHANGED env
        PROVE  Assessed'
    <3>1. env.ver \in Version
      BY <2>3 DEF Assessed, Env
    <3>2. Meets'
      BY <2>1, <2>3, <3>1 DEF Meets, Python
    <3> QED
      BY <1>3, <2>1, <2>3, <3>2 DEF EnsureVenv, To, Assessed
  <2>4. ASSUME To("create"), env' = None, UNCHANGED python PROVE Assessed'
    BY <1>3, <2>1, <2>4 DEF EnsureVenv, To, Assessed, Meets
  <2> QED
    BY <1>3, <2>2, <2>3, <2>4 DEF EnsureVenv
<1>4. CASE CreateVenv
  <2>1. Meets /\ python.known /\ lang' = lang
    BY <1>4 DEF CreateVenv, Assessed, Chosen
  <2>2. \A v \in VirtualenvVersions : v \in Version /\ (~ByLauncher => v = python.ver)
    BY <2>1 DEF VirtualenvVersions, Meets, Python
  <2>3. /\ [ver |-> python.ver, pip |-> TRUE] \in Env /\ HalfMade \subseteq Env
        /\ \A v \in VirtualenvVersions : [ver |-> v, pip |-> TRUE] \in Env
    <3>1. \A v \in Version, pip \in BOOLEAN : [ver |-> v, pip |-> pip] \in Env
      BY DEF Env
    <3>2. HalfMade \subseteq Env
      BY <2>2, <3>1 DEF HalfMade
    <3> QED
      BY <2>1, <2>2, <3>1, <3>2 DEF Meets, Python
  <2>4. env' \in Env \cup {None}
    BY <1>4, <2>3 DEF CreateVenv
  <2>5. Meets'
    <3>1. ASSUME NEW v \in VirtualenvVersions, python' = [python EXCEPT !.ver = v, !.known = ~ByLauncher]
          PROVE  Meets'
      <4>1. v \in Version /\ (~ByLauncher => v = python.ver) /\ ByLauncher \in BOOLEAN
        BY <2>1, <2>2, <3>1, LanguageAssumption DEF ByLauncher, Meets, Python
      <4> HIDE DEF ByLauncher
      <4>2. python' \in Python
        BY <2>1, <3>1, <4>1 DEF Meets, Python
      <4>3. python'.known => python'.ver = python.ver
        BY <2>1, <3>1, <4>1 DEF Meets, Python
      <4>4. python'.offered = python.offered /\ python'.required = python.required
        BY <2>1, <3>1 DEF Meets, Python
      <4> QED
        BY <2>1, <4>2, <4>3, <4>4 DEF Meets
    <3>2. ASSUME python' = [python EXCEPT !.by = "system"] PROVE Meets'
      BY <2>1, <3>2 DEF Meets, Python
    <3>3. ASSUME UNCHANGED python PROVE Meets'
      BY <2>1, <3>3 DEF Meets
    <3> QED
      BY <1>4, <3>1, <3>2, <3>3 DEF CreateVenv
  <2>6. gate' \in Gate /\ gate'.passed = gate.passed /\ gate'.suite = gate.suite /\ gate'.built = gate.built
    BY <1>4 DEF CreateVenv, Assessed, Ends, To, Seen, Gate
  <2>7. at' \in {"install", "done"}
    BY <1>4 DEF CreateVenv, Ends, To
  <2> QED
    BY <2>4, <2>5, <2>6, <2>7 DEF Assessed
<1>5. CASE InstallPython
  <2>1. CASE HasPip /\ Ends("host")
    BY <1>5, <2>1, EndsKeep DEF InstallPython
  <2>2. CASE To("build") /\ Seen([gate EXCEPT !.installed = TRUE])
    BY <1>5, <2>2 DEF InstallPython, To, Seen, Assessed, Gate, Meets, Chosen
  <2>3. CASE To("build") /\ UNCHANGED gate
    BY <1>5, <2>3 DEF InstallPython, To, Assessed, Meets, Chosen
  <2> QED
    BY <1>5, <2>1, <2>2, <2>3 DEF InstallPython
<1>6. CASE ImportModules
  <2>1. CASE Throws
    BY <1>6, <2>1, EndsKeep DEF ImportModules
  <2>2. ASSUME NEW ok \in BOOLEAN, To("tests"), Seen([gate EXCEPT !.built = ok /\ gate.installed])
        PROVE  Assessed'
    BY <1>6, <2>2 DEF ImportModules, To, Seen, Assessed, Gate, Meets, Chosen
  <2> QED
    BY <1>6, <2>1, <2>2 DEF ImportModules
<1> QED
  BY <1>1, <1>2, <1>3, <1>4, <1>5, <1>6

LEMMA AssessedOthers ==
    ASSUME Assessed, InstallNode \/ Typecheck \/ GoBuild \/ ListTests
    PROVE  Assessed'
<1>1. CASE InstallNode
  <2>1. CASE Ends("setup") \/ Ends("build") \/ Throws
    BY <1>1, <2>1, EndsKeep DEF InstallNode
  <2>2. CASE To("build") /\ Seen([gate EXCEPT !.installed = TRUE])
    BY <1>1, <2>2 DEF InstallNode, To, Seen, Assessed, Gate, Meets
  <2> QED
    BY <1>1, <2>1, <2>2 DEF InstallNode
<1>2. CASE Typecheck
  <2>1. CASE Ends("build") \/ Throws
    BY <1>2, <2>1, EndsKeep DEF Typecheck
  <2>2. CASE To("tests") /\ Seen([gate EXCEPT !.built = TRUE])
    BY <1>2, <2>2 DEF Typecheck, To, Seen, Assessed, Gate, Meets
  <2> QED
    BY <1>2, <2>1, <2>2 DEF Typecheck
<1>3. CASE GoBuild
  <2>1. CASE Ends("build") \/ Ends("host") \/ Throws
    BY <1>3, <2>1, EndsKeep DEF GoBuild
  <2>2. CASE To("list") /\ Seen([gate EXCEPT !.built = TRUE])
    BY <1>3, <2>2 DEF GoBuild, To, Seen, Assessed, Gate, Meets
  <2> QED
    BY <1>3, <2>1, <2>2 DEF GoBuild
<1>4. CASE ListTests
  <2>1. CASE Ends("none") \/ Throws
    BY <1>4, <2>1, EndsKeep DEF ListTests
  <2>2. CASE To("tests") /\ UNCHANGED gate
    BY <1>4, <2>2 DEF ListTests, To, Assessed, Meets, Chosen
  <2> QED
    BY <1>4, <2>1, <2>2 DEF ListTests
<1> QED
  BY <1>1, <1>2, <1>3, <1>4

\* What the numbers of a report change.
LEMMA CountedSuite ==
    ASSUME gate \in Gate, NEW suite \in Suite
    PROVE  /\ Counted(suite) \in Gate
           /\ Counted(suite).suite = suite
           /\ Counted(suite).passed => suite \in {"pass", "dies"}
           /\ Counted(suite).built = gate.built
<1> DEFINE available == suite \notin {"none", "unread"}
           passed == suite \in {"pass", "dies"}
           red == suite = "fail"
<1>1. available \in BOOLEAN /\ passed \in BOOLEAN /\ red \in BOOLEAN
  OBVIOUS
<1>2. Counted(suite) = [gate EXCEPT !.suite = suite, !.available = available, !.passed = passed, !.failed = red]
  BY DEF Counted
<1>3. passed => suite \in {"pass", "dies"}
  OBVIOUS
<1> HIDE DEF available, passed, red
<1> QED
  BY <1>1, <1>2, <1>3 DEF Gate

LEMMA TestsEnd ==
    ASSUME Assessed, UNCHANGED <<lang, env, python>>, at = "tests", To("done"),
           gate' \in Gate, gate'.passed => gate'.suite \in {"pass", "dies"},
           gate'.built => gate.built \/ lang # "python"
    PROVE  Assessed'
  BY DEF Assessed, To, Chosen, Meets

LEMMA AssessedTests ==
    ASSUME Assessed, RunPytest \/ RunNodeTests \/ RunGoTests \/ RunCargo
    PROVE  Assessed'
<1> DEFINE Modes == {"none", "host", "setup", "build", "test"}
<1>1. CASE RunPytest
  <2>1. ASSUME NEW suite \in PytestReports, To("done"),
               Seen([Counted(suite) EXCEPT !.available = suite # "none", !.mode = PythonMode(suite)])
        PROVE  Assessed'
    <3> DEFINE counted == Counted(suite)
               available == suite # "none"
               mode == PythonMode(suite)
    <3>1. /\ counted \in Gate /\ counted.suite = suite
          /\ counted.passed => suite \in {"pass", "dies"}
          /\ counted.built = gate.built
      BY CountedSuite DEF PytestReports, Assessed
    <3>2. available \in BOOLEAN /\ mode \in Modes
      BY DEF PythonMode
    <3>3. gate' = [counted EXCEPT !.available = available, !.mode = mode]
      BY <2>1 DEF Seen
    <3> HIDE DEF counted, available, mode
    <3>4. gate' \in Gate /\ gate'.suite = suite /\ gate'.passed = counted.passed /\ gate'.built = gate.built
      BY <3>1, <3>2, <3>3 DEF Gate
    <3> QED
      BY <1>1, <2>1, <3>1, <3>4, TestsEnd DEF RunPytest
  <2> QED
    BY <1>1, <2>1, EndsKeep DEF RunPytest
<1>2. ASSUME NEW suite \in Suite, NEW mode \in Modes, at = "tests", UNCHANGED <<lang, env, python>>, To("done"),
             Seen([Counted(suite) EXCEPT !.mode = mode])
      PROVE  Assessed'
  <2> DEFINE counted == Counted(suite)
  <2>1. /\ counted \in Gate /\ counted.suite = suite
        /\ counted.passed => suite \in {"pass", "dies"}
        /\ counted.built = gate.built
    BY CountedSuite DEF Assessed
  <2>2. gate' = [counted EXCEPT !.mode = mode]
    BY <1>2 DEF Seen
  <2> HIDE DEF counted
  <2>3. gate' \in Gate /\ gate'.suite = suite /\ gate'.passed = counted.passed /\ gate'.built = gate.built
    BY <2>1, <2>2 DEF Gate
  <2> QED
    BY <1>2, <2>1, <2>3, TestsEnd
<1>3. \A suite : Clean(suite) \subseteq Modes
  BY DEF Clean
<1>4. CASE RunNodeTests
  BY <1>2, <1>3, <1>4, EndsKeep DEF RunNodeTests, NodeReports
<1>5. CASE RunGoTests
  BY <1>2, <1>3, <1>5, EndsKeep DEF RunGoTests, GoReports
<1>6. CASE RunCargo
  <2>1. ASSUME NEW suite \in Suite, NEW mode \in Modes, To("done"),
               Seen([Counted(suite) EXCEPT !.built = TRUE, !.mode = mode])
        PROVE  Assessed'
    <3> DEFINE counted == Counted(suite)
    <3>1. /\ counted \in Gate /\ counted.suite = suite
          /\ counted.passed => suite \in {"pass", "dies"}
      BY CountedSuite DEF Assessed
    <3>2. gate' = [counted EXCEPT !.built = TRUE, !.mode = mode]
      BY <2>1 DEF Seen
    <3> HIDE DEF counted
    <3>3. gate' \in Gate /\ gate'.suite = suite /\ gate'.passed = counted.passed
      BY <3>1, <3>2 DEF Gate
    <3> QED
      BY <1>6, <2>1, <3>1, <3>3, TestsEnd DEF RunCargo
  <2> QED
    BY <1>3, <1>6, <2>1, EndsKeep DEF RunCargo, CargoReports
<1> QED
  BY <1>1, <1>4, <1>5, <1>6

LEMMA AssessedKept ==
    ASSUME Assessed, [Next]_vars PROVE Assessed'
<1>1. CASE Begin
  BY <1>1, NothingSeen DEF Begin, Reset, Assessed, Chosen, Meets
<1>2. CASE Assessing
  <2>1. CASE Assess
    <3>1. ASSUME NEW modules \in BOOLEAN, NEW artifacts \in BOOLEAN,
                 Seen([Artifacts(artifacts) EXCEPT !.modules = modules])
          PROVE  gate' \in Gate /\ ~gate'.passed /\ ~gate'.built
      BY <3>1, NothingSeen DEF Seen, Artifacts, Gate
    <3>2. gate' \in Gate /\ ~gate'.passed /\ ~gate'.built
      BY <2>1, <3>1 DEF Assess
    <3> QED
      BY <2>1, <3>2 DEF Assess, To, Assessed, Chosen
  <2>2. CASE AssessStep
    BY <2>2, AssessedPython, AssessedOthers, AssessedTests DEF AssessStep
  <2> QED
    BY <1>2, <2>1, <2>2 DEF Assessing
<1>3. CASE UNCHANGED assessVars
  BY <1>3 DEF assessVars, Assessed, Meets
<1>4. CASE (Work \/ OperatorAnswers) /\ ~Assessing
  BY <1>4, <1>3 DEF Work, OperatorAnswers, Triage, CheckWiki, Architect, WritePages, Critic, AskOperator, Checkpoint,
     Planner, Pool, Judge, Fixer, StopFixing, Escalate, Validate
<1>5. CASE Crash \/ UNCHANGED vars
  BY <1>5, <1>3 DEF Crash, vars
<1> QED
  BY <1>1, <1>2, <1>4, <1>5 DEF Next

LEMMA AssessedInitially == Init => Assessed
  BY NothingSeen DEF Init, AssessInit, Assessed, Chosen

\* A kept environment that is used meets the project's requirement if the host
\* can meet it, even when the requirement was raised between two assessments;
\* but for one whose interpreter answers no version, and one that virtualenv
\* made by the Windows launcher (pytest.ts:440-466, 537-563).
THEOREM EnvironmentFits == Spec => []EnvFits
<1>1. Assessed => EnvFits
  BY SMT DEF Assessed, Chosen, Meets, Python, Version, Requirement, EnvFits
<1> QED
  BY <1>1, AssessedInitially, AssessedKept, PTL DEF Spec

-----------------------------------------------------------------------------
(* The verdict.                                                            *)

Before == {"triage", "wiki", "architect", "writing", "critic", "ask", "drafted", "plan", "planned", "pool"}

\* What a run knows of its failures and of its assessment, phase by phase.
Judged ==
    /\ failed \in BOOLEAN
    /\ phase # "off" => status = "running"
    /\ phase \in Before => ~failed /\ at = "idle"
    /\ phase = "validate" => ~failed /\ at = "done" /\ Verify
    /\ phase = "fixing" => at = "done"
    /\ status = "complete" => phase = "off" /\ ~failed /\ at = "done" /\ Verify
    /\ NoSilentFailure

\* A run that ends before its assessment has no failure to be silent about.
LEMMA EndsEarly ==
    ASSUME Judged, NEW s \in {"blocked", "failed"}, End(s), UNCHANGED <<assessVars, failed>>,
           phase \in Before \/ phase = "validate" \/ s = "failed"
    PROVE  Judged'
  BY DEF Judged, End, NoSilentFailure, At, assessVars, Verify, Build, Integration, Before

LEMMA CallJudged ==
    ASSUME Judged, CallFails \/ Unusable, phase \in Before, UNCHANGED <<assessVars, failed>>
    PROVE  Judged'
<1>1. End("failed") \/ End("blocked")
  BY DEF CallFails, Unusable
<1>2. CASE End("failed")
  BY <1>2, EndsEarly
<1> QED
  BY <1>1, <1>2, EndsEarly

LEMMA GoesOn ==
    ASSUME Judged, NEW p \in Before, Goto(p), phase \in Before, UNCHANGED <<assessVars, failed>>
    PROVE  Judged'
  BY DEF Judged, Goto, NoSilentFailure, At, assessVars, Before

LEMMA JudgedEarly ==
    ASSUME Judged, \/ Triage \/ CheckWiki \/ Architect \/ WritePages \/ Critic \/ AskOperator \/ Planner
                   \/ Checkpoint("drafted", "plan") \/ Checkpoint("planned", "pool")
    PROVE  Judged'
<1> DEFINE Calls == CallFails \/ Unusable
           Fails == End("failed") \/ End("blocked")
           Goes  == \E p \in Before : Goto(p)
<1>1. /\ phase \in Before
      /\ UNCHANGED <<assessVars, failed>>
      /\ Calls \/ Fails \/ Goes
  <2>1. AfterWiki \in Before /\ AfterPlan \in Before
    BY DEF AfterWiki, AfterPlan, Before
  <2>2. CASE Triage
    BY <2>2 DEF Triage, At, Before, runVars
  <2>3. CASE CheckWiki
    BY <2>1, <2>3, HasPages \/ ~HasPages DEF CheckWiki, At, Before, runVars, Unlocated
  <2>4. CASE Architect
    BY <2>4 DEF Architect, At, Before, runVars
  <2>5. CASE WritePages
    BY <2>5 DEF WritePages, PageRefused, At, Before, runVars
  <2>6. CASE Critic
    <3>1. (IF cap = 0 \/ attempts < cap THEN "architect" ELSE "ask") \in Before
      BY DEF Before
    <3> QED
      BY <2>1, <2>6, <3>1 DEF Critic, At, Before, runVars
  <2>7. CASE AskOperator
    BY <2>1, <2>7 DEF AskOperator, At, Before, runVars
  <2>8. CASE Planner
    BY <2>1, <2>8 DEF Planner, At, Before, runVars
  <2>9. CASE Checkpoint("drafted", "plan")
    BY <2>9 DEF Checkpoint, At, Before, runVars
  <2>10. CASE Checkpoint("planned", "pool")
    BY <2>10 DEF Checkpoint, At, Before, runVars
  <2> QED
    BY <2>2, <2>3, <2>4, <2>5, <2>6, <2>7, <2>8, <2>9, <2>10
<1>2. CASE Calls
  BY <1>1, <1>2, CallJudged
<1>3. CASE Fails
  BY <1>1, <1>3, EndsEarly
<1>4. CASE Goes
  BY <1>1, <1>4, GoesOn
<1> QED
  BY <1>1, <1>2, <1>3, <1>4

LEMMA JudgedLate ==
    ASSUME Judged, Pool \/ Assessing \/ Judge \/ Fixer \/ StopFixing \/ Escalate \/ Validate
    PROVE  Judged'
<1>1. CASE Pool
  <2>1. CASE End("failed")
    <3>1. phase \in Before
      BY <1>1 DEF Pool, At, Before
    <3>2. CASE UNCHANGED failed
      BY <1>1, <2>1, <3>1, <3>2, EndsEarly DEF Pool
    <3>3. CASE Goto("assess")
      BY <2>1, <3>3 DEF Goto, End
    <3> QED
      BY <1>1, <3>2, <3>3 DEF Pool
  <2>2. CASE Goto("assess") /\ failed' \in BOOLEAN
    BY <1>1, <2>2 DEF Pool, At, Goto, Judged, Before, NoSilentFailure
  <2> QED
    BY <1>1, <2>1, <2>2 DEF Pool
<1>2. CASE Assessing
  BY <1>2 DEF Assessing, buildVars, runVars, At, Judged, Before, NoSilentFailure
<1>3. CASE Judge
  <2>1. /\ phase = "assess" /\ UNCHANGED <<assessVars, autonomy, failed, escalated>>
        /\ failed \in BOOLEAN /\ status = "running"
    BY <1>3 DEF Judge, At, Judged
  <2>2. CASE at = "done" /\ ~(failed \/ ~Verify) /\ Goto("validate")
    BY <2>1, <2>2 DEF Goto, At, Judged, Before, NoSilentFailure, assessVars, Verify, Build, Integration
  <2>3. CASE at = "done" /\ Goto("fixing")
    BY <2>1, <2>3 DEF Goto, At, Judged, Before, NoSilentFailure, assessVars
  <2>4. CASE autonomy # "autonomous" /\ End("blocked")
    BY <2>1, <2>4 DEF End, At, Judged, Before, NoSilentFailure
  <2>5. CASE End("failed")
    BY <2>1, <2>5, EndsEarly
  <2>6. \/ at = "done" /\ ~(failed \/ ~Verify) /\ Goto("validate")
        \/ at = "done" /\ Goto("fixing")
        \/ autonomy # "autonomous" /\ End("blocked")
        \/ End("failed")
    BY <1>3 DEF Judge
  <2> QED
    BY <2>2, <2>3, <2>4, <2>5, <2>6
<1>4. CASE Fixer \/ StopFixing
  <2>1. /\ phase = "fixing" /\ UNCHANGED <<assessVars, failed>>
        /\ Goto("fixing") \/ Goto("escalate")
    BY <1>4 DEF Fixer, StopFixing, At, runVars
  <2> QED
    BY <2>1 DEF Goto, At, Judged, Before, NoSilentFailure, assessVars
<1>5. CASE Escalate
  BY <1>5 DEF Escalate, AskForHelp, End, At, Judged, Before, NoSilentFailure
<1>6. CASE Validate
  <2>1. /\ phase = "validate" /\ UNCHANGED <<assessVars, failed>>
        /\ End("blocked") \/ End("complete")
    BY <1>6 DEF Validate, At
  <2>2. CASE End("blocked")
    BY <2>1, <2>2, EndsEarly
  <2>3. CASE End("complete")
    BY <2>1, <2>3 DEF End, At, Judged, Before, NoSilentFailure, assessVars, Verify, Build, Integration
  <2> QED
    BY <2>1, <2>2, <2>3
<1> QED
  BY <1>1, <1>2, <1>3, <1>4, <1>5, <1>6

LEMMA JudgedKept ==
    ASSUME Judged, [Next]_vars PROVE Judged'
<1>1. CASE Begin
  BY <1>1 DEF Begin, Reset, Judged, Before, NoSilentFailure, At
<1>2. CASE Work \/ OperatorAnswers
  BY <1>2, JudgedEarly, JudgedLate DEF Work, OperatorAnswers
<1>3. CASE Crash
  BY <1>3 DEF Crash, Judged, Before, NoSilentFailure, At, runVars, assessVars, Verify, Build, Integration
<1>4. CASE UNCHANGED vars
  BY <1>4 DEF vars, buildVars, runVars, assessVars, Judged, Before, NoSilentFailure, At, Verify, Build, Integration
<1> QED
  BY <1>1, <1>2, <1>3, <1>4 DEF Next

LEMMA JudgedInitially == Init => Judged
  BY DEF Init, AssessInit, Judged, Before, NoSilentFailure, At

\* An autonomous directive whose task failed, or whose gates are not green, is
\* not blocked before its operator was asked (loop.ts:617-779).
THEOREM AskedBeforeBlocked == Spec => []NoSilentFailure
<1>1. Judged => NoSilentFailure
  BY DEF Judged
<1> QED
  BY <1>1, JudgedInitially, JudgedKept, PTL DEF Spec

\* A directive is complete only when no task of its last run failed and its
\* assessment saw the files, the build and tests that passed, under a Python
\* that the project accepts when the host has one and the assessor could tell
\* the version (loop.ts:598-832, pytest.ts:440-466).
THEOREM CompletionIsEarned == Spec => []CompleteIsEarned
<1>1. Judged /\ Assessed => CompleteIsEarned
  BY SMT DEF Judged, Assessed, CompleteIsEarned, Verify, Build, Integration, Meets, Python, Version, Requirement
<1> QED
  BY <1>1, JudgedInitially, JudgedKept, AssessedInitially, AssessedKept, PTL DEF Spec

-----------------------------------------------------------------------------
(* The types.                                                              *)

\* Of the assessor, beyond what Assessed says.
AssessKinds == /\ at \in Step \cup {"idle", "done", "threw"}
               /\ lang \in Language \cup {None}

\* Of the run, beyond Metered.
RunKinds ==
    /\ phase \in Phase
    /\ status \in {"none", "running", "complete", "blocked", "failed"}
    /\ autonomy \in Autonomy \cup {None}
    /\ attempts \in Nat /\ cap \in Nat
    /\ wiki \in {"none", "draft", "accepted"} /\ plan \in {"none", "draft", "abandoned", "complete"}
    /\ failed \in BOOLEAN /\ bad \in BOOLEAN /\ escalated \in BOOLEAN
    /\ tried \in 0..MaxFixerAttempts /\ left \in 0..MaxFindings /\ runs \in 0..MaxRuns

LEMMA BoundsAreNumbers ==
    /\ MaxFindings \in Nat /\ MaxRuns \in Nat /\ MaxAttempts \in Nat
    /\ 0 \in 0..MaxFixerAttempts /\ 0 \in 0..MaxFindings /\ 0 \in 0..MaxRuns
<1>1. MaxFindings \in Nat /\ MaxRuns \in Nat /\ MaxAttempts \in Nat
  OBVIOUS
<1> QED
  BY <1>1 DEF MaxFixerAttempts

LEMMA KindsAreTypes ==
    ASSUME Metered, Assessed, AssessKinds, RunKinds PROVE TypeOK
<1>1. AssessTypeOK
  BY DEF Assessed, AssessKinds, AssessTypeOK, Gate
<1>2. rows \in Nat /\ gated \in 0..rows
  BY SMT DEF Metered
<1> QED
  BY <1>1, <1>2 DEF RunKinds, TypeOK

LEMMA AssessStepKinds ==
    ASSUME AssessKinds, Assess \/ AssessStep PROVE AssessKinds'
<1>1. CASE Assess
  BY <1>1 DEF Assess, AssessKinds, To, Step
<1>2. CASE Preflight
  BY <1>2 DEF Preflight, AssessKinds, To, Ends, FirstStep, Step
<1>3. CASE PickPython
  BY <1>3 DEF PickPython, AssessKinds, To, Ends, Step
<1>4. CASE EnsureVenv
  BY <1>4 DEF EnsureVenv, AssessKinds, To, Step
<1>5. CASE CreateVenv
  BY <1>5 DEF CreateVenv, AssessKinds, To, Ends, Step
<1>6. CASE InstallPython \/ InstallNode
  BY <1>6 DEF InstallPython, InstallNode, AssessKinds, To, Ends, Throws, Step
<1>7. CASE ImportModules \/ Typecheck \/ GoBuild \/ ListTests
  BY <1>7 DEF ImportModules, Typecheck, GoBuild, ListTests, AssessKinds, To, Ends, Throws, Step
<1>8. CASE RunPytest \/ RunNodeTests \/ RunGoTests \/ RunCargo
  <2>1. (To("done") \/ To("threw")) /\ lang' = lang
    BY <1>8 DEF RunPytest, RunNodeTests, RunGoTests, RunCargo, Ends, Throws
  <2> QED
    BY <2>1 DEF AssessKinds, To
<1> QED
  BY <1>1, <1>2, <1>3, <1>4, <1>5, <1>6, <1>7, <1>8 DEF AssessStep

LEMMA AssessKindsKept ==
    ASSUME AssessKinds, [Next]_vars PROVE AssessKinds'
<1>1. CASE Begin
  BY <1>1 DEF Begin, Reset, AssessKinds
<1>2. CASE Assessing
  BY <1>2, AssessStepKinds DEF Assessing
<1>3. CASE UNCHANGED assessVars
  BY <1>3 DEF assessVars, AssessKinds
<1>4. CASE (Work \/ OperatorAnswers) /\ ~Assessing
  BY <1>4, <1>3 DEF Work, OperatorAnswers, Triage, CheckWiki, Architect, WritePages, Critic, AskOperator, Checkpoint,
     Planner, Pool, Judge, Fixer, StopFixing, Escalate, Validate
<1>5. CASE Crash \/ UNCHANGED vars
  BY <1>5, <1>3 DEF Crash, vars
<1> QED
  BY <1>1, <1>2, <1>4, <1>5 DEF Next

\* Where a step may lead.
Moves == /\ phase' \in Phase
         /\ status' \in {"none", "running", "complete", "blocked", "failed"}

LEMMA MovesInPhases ==
    ASSUME RunKinds,
           \/ \E p \in Phase : Goto(p)
           \/ \E s \in {"complete", "blocked", "failed"} : End(s)
    PROVE  Moves
BY DEF Goto, End, Moves, Phase, RunKinds

LEMMA CallMoves ==
    ASSUME RunKinds, CallFails \/ Unusable PROVE Moves
<1>1. End("failed") \/ End("blocked")
  BY DEF CallFails, Unusable
<1> QED
  BY <1>1, MovesInPhases

LEMMA RunKindsEarly ==
    ASSUME RunKinds, \/ Triage \/ CheckWiki \/ Architect \/ WritePages \/ Critic \/ AskOperator \/ Planner
                     \/ Checkpoint("drafted", "plan") \/ Checkpoint("planned", "pool")
    PROVE  RunKinds'
<1> DEFINE Rest == /\ attempts' \in Nat /\ cap' \in Nat
                   /\ wiki' \in {"none", "draft", "accepted"}
                   /\ plan' \in {"none", "draft", "abandoned", "complete"}
                   /\ UNCHANGED <<autonomy, runVars, runs>>
<1>0. AfterWiki \in Phase /\ AfterPlan \in Phase
  BY DEF AfterWiki, AfterPlan, Phase
<1>1. Moves
  <2> USE DEF Phase
  <2>1. CASE Triage
    BY <2>1, CallMoves, MovesInPhases DEF Triage
  <2>2. CASE CheckWiki
    BY <2>2, <1>0, HasPages \/ ~HasPages, MovesInPhases DEF CheckWiki, Unlocated
  <2>3. CASE Architect
    BY <2>3, CallMoves, MovesInPhases DEF Architect
  <2>4. CASE WritePages
    BY <2>4, MovesInPhases DEF WritePages, PageRefused
  <2>5. CASE Critic
    <3>1. (IF cap = 0 \/ attempts < cap THEN "architect" ELSE "ask") \in Phase
      OBVIOUS
    <3> QED
      BY <2>5, <3>1, <1>0, CallMoves, MovesInPhases DEF Critic
  <2>6. CASE AskOperator
    BY <2>6, <1>0, MovesInPhases DEF AskOperator
  <2>7. CASE Planner
    BY <2>7, <1>0, CallMoves, MovesInPhases DEF Planner
  <2>8. CASE Checkpoint("drafted", "plan") \/ Checkpoint("planned", "pool")
    BY <2>8, MovesInPhases DEF Checkpoint
  <2> QED
    BY <2>1, <2>2, <2>3, <2>4, <2>5, <2>6, <2>7, <2>8
<1>2. Rest
  <2>1. CASE Triage
    BY <2>1 DEF Triage, RunKinds, loopVars
  <2>2. CASE CheckWiki
    BY <2>2 DEF CheckWiki, RunKinds, loopVars
  <2>3. CASE Architect
    BY <2>3, SMT DEF Architect, RunKinds
  <2>4. CASE WritePages
    BY <2>4 DEF WritePages, PageWritten, PageRefused, RunKinds, loopVars
  <2>5. CASE Critic
    BY <2>5 DEF Critic, RunKinds, loopVars
  <2>6. CASE AskOperator
    BY <2>6 DEF AskOperator, RunKinds, loopVars
  <2>7. CASE Planner
    BY <2>7 DEF Planner, RunKinds, loopVars
  <2>8. CASE Checkpoint("drafted", "plan") \/ Checkpoint("planned", "pool")
    BY <2>8 DEF Checkpoint, RunKinds, loopVars
  <2> QED
    BY <2>1, <2>2, <2>3, <2>4, <2>5, <2>6, <2>7, <2>8
<1> QED
  BY <1>1, <1>2 DEF Moves, RunKinds, runVars

LEMMA RunKindsLate ==
    ASSUME RunKinds, Pool \/ Assessing \/ Judge \/ Fixer \/ StopFixing \/ Escalate \/ Validate
    PROVE  RunKinds'
<1>1. CASE Pool
  <2>1. Moves
    BY <1>1, MovesInPhases DEF Pool, Phase
  <2>2. failed' \in BOOLEAN /\ plan' \in {"none", "draft", "abandoned", "complete"}
    BY <1>1 DEF Pool, PlanOutcome, RunKinds
  <2> QED
    BY <1>1, <2>1, <2>2 DEF Pool, Moves, RunKinds, loopVars
<1>2. CASE Assessing
  BY <1>2 DEF Assessing, buildVars, runVars, loopVars, RunKinds
<1>3. CASE Judge
  <2>1. Moves
    BY <1>3, MovesInPhases DEF Judge, Phase
  <2>2. bad' \in BOOLEAN /\ left' \in 0..MaxFindings
    BY <1>3 DEF Judge, RunKinds
  <2> QED
    BY <1>3, <2>1, <2>2 DEF Judge, Moves, RunKinds, loopVars
<1>4. CASE Fixer
  <2>1. Moves
    BY <1>4, MovesInPhases DEF Fixer, Phase
  <2>2. tried' \in 0..MaxFixerAttempts /\ left' \in 0..MaxFindings
    BY <1>4, BoundsAreNumbers, SMT DEF Fixer, LoopOver, RunKinds, MaxFixerAttempts
  <2> QED
    BY <1>4, <2>1, <2>2 DEF Fixer, Moves, RunKinds, loopVars
<1>5. CASE StopFixing
  <2>1. Moves
    BY <1>5, MovesInPhases DEF StopFixing, Phase
  <2>2. tried' \in 0..MaxFixerAttempts /\ left' \in 0..MaxFindings
    BY <1>5, BoundsAreNumbers DEF StopFixing, LoopOver
  <2> QED
    BY <1>5, <2>1, <2>2 DEF StopFixing, Moves, RunKinds, loopVars
<1>6. CASE Escalate
  <2>1. Moves
    BY <1>6, MovesInPhases DEF Escalate
  <2> QED
    BY <1>6, <2>1 DEF Escalate, AskForHelp, Moves, RunKinds, loopVars
<1>7. CASE Validate
  <2>1. Moves
    BY <1>7, MovesInPhases DEF Validate
  <2>2. bad' \in BOOLEAN
    BY <1>7 DEF Validate, RunKinds
  <2> QED
    BY <1>7, <2>1, <2>2 DEF Validate, Moves, RunKinds, loopVars
<1> QED
  BY <1>1, <1>2, <1>3, <1>4, <1>5, <1>6, <1>7

LEMMA RunKindsKept ==
    ASSUME RunKinds, [Next]_vars PROVE RunKinds'
<1>1. CASE Begin
  <2>1. runs' \in 0..MaxRuns
    BY <1>1, BoundsAreNumbers DEF Begin, RunKinds
  <2>2. autonomy' \in Autonomy \cup {None} /\ phase' \in Phase /\ status' = "running"
        /\ UNCHANGED <<wiki, plan>>
    BY <1>1 DEF Begin, RunKinds, Phase
  <2> QED
    BY <1>1, <2>1, <2>2, BoundsAreNumbers DEF Begin, Reset, RunKinds, AttemptCap
<1>2. CASE Work \/ OperatorAnswers
  BY <1>2, RunKindsEarly, RunKindsLate DEF Work, OperatorAnswers
<1>3. CASE Crash
  BY <1>3 DEF Crash, RunKinds, Phase, loopVars, runVars
<1>4. CASE UNCHANGED vars
  BY <1>4 DEF vars, buildVars, runVars, loopVars, RunKinds
<1> QED
  BY <1>1, <1>2, <1>3, <1>4 DEF Next

\* The counters stay in their ranges: a directive has no more gated calls than
\* usage rows, and a run no more than three fixers (loop.ts:633).
THEOREM TypesKept == Spec => []TypeOK
<1>1. Init => Metered /\ AssessKinds /\ RunKinds
  <2>1. Init => Metered
    BY SMT DEF Init, Metered, StepsBounded
  <2>2. Init => AssessKinds
    BY DEF Init, AssessInit, AssessKinds
  <2>3. Init => RunKinds
    <3> SUFFICES ASSUME Init PROVE RunKinds
      OBVIOUS
    <3>1. attempts \in Nat /\ cap \in Nat /\ tried \in 0..MaxFixerAttempts
          /\ left \in 0..MaxFindings /\ runs \in 0..MaxRuns
      BY BoundsAreNumbers DEF Init
    <3> QED
      BY <3>1 DEF Init, RunKinds, Phase
  <2> QED
    BY <2>1, <2>2, <2>3
<1>2. /\ Metered /\ [Next]_vars => Metered'
      /\ AssessKinds /\ [Next]_vars => AssessKinds'
      /\ RunKinds /\ [Next]_vars => RunKinds'
  BY MeteredKept, AssessKindsKept, RunKindsKept
<1>3. Metered /\ Assessed /\ AssessKinds /\ RunKinds => TypeOK
  BY KindsAreTypes
<1> QED
  BY <1>1, <1>2, <1>3, AssessedInitially, AssessedKept, PTL DEF Spec

=============================================================================
