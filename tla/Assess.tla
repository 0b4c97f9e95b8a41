------------------------------- MODULE Assess -------------------------------
(***************************************************************************)
(* The assessor (assessor/src): ground truth about a built project.  One   *)
(* assessment looks for the expected modules and the repository's files,   *)
(* then runs the gate of the project's language, subprocess by subprocess, *)
(* and computes the three gate booleans.  Only the Python environment,     *)
(* .factory/assessor-env, outlives an assessment.                          *)
(*                                                                         *)
(* A subprocess succeeds, fails, or is killed at its deadline, which       *)
(* rejects the promise of whoever runs it.  Versions are 1 and 2.          *)
(***************************************************************************)
EXTENDS Integers, FiniteSets

CONSTANTS
    Language,   \* the languages projects are written in
    Windows,    \* whether the host runs it
    None

Languages == {"python", "node", "go", "rust"}
ASSUME LanguageAssumption == Language \subseteq Languages /\ Windows \in BOOLEAN

Version == 1..2
Env == [ver : Version, pip : BOOLEAN]

\* What may become of the tests: there are none, all pass, one fails, the suite
\* dies after passing tests, its report is not understood, it never ends.
Suite == {"none", "pass", "fail", "dies", "unread", "hangs"}

VARIABLES
    at,       \* the step of the assessment, "idle" before it, "done" or "threw" after
    lang,     \* the language it assesses
    env,      \* .factory/assessor-env: None or an environment, with or without pip
    python,   \* the interpreter chosen: version, whose it is, what was required,
              \* whether the host offers that and whether the assessor knows the
              \* version
    gate      \* what the assessment has seen so far

assessVars == <<at, lang, env, python, gate>>

Step == {"preflight", "venv", "env", "create", "install", "build", "list", "tests"}

Unseen == [modules |-> FALSE, artifacts |-> FALSE, installed |-> FALSE, built |-> FALSE,
           available |-> FALSE, passed |-> FALSE, failed |-> FALSE, mode |-> "none", suite |-> "none"]

AssessTypeOK ==
    /\ at \in Step \cup {"idle", "done", "threw"}
    /\ lang \in Language \cup {None}
    /\ env \in Env \cup {None}
    /\ gate.mode \in {"none", "host", "setup", "build", "test"} /\ gate.suite \in Suite

-----------------------------------------------------------------------------
(* The verdict.                                                            *)

Build == gate.modules /\ gate.built

Integration == gate.available /\ ~gate.failed /\ gate.passed

\* A bug: the tests are not needed.
VerifyWithoutTests == Build /\ gate.artifacts

Verify == Build /\ Integration /\ gate.artifacts

Mode == IF gate.mode = "none" /\ ~Build /\ ~gate.modules THEN "build" ELSE gate.mode

-----------------------------------------------------------------------------
(* Steps.                                                                  *)

To(step) == at' = step
Seen(what) == gate' = what

Ends(mode) == /\ To("done")
              /\ Seen([gate EXCEPT !.mode = mode])

\* A deadline inside a gate is nobody's to catch: assess() rejects.
Throws == /\ To("threw")
          /\ UNCHANGED gate

FirstStep(l) == CASE l = "python" -> "venv" [] l = "node" -> "install" [] l = "go" -> "build" [] OTHER -> "tests"

\* README, licence, .gitignore, architecture page and a clean tree.
Artifacts(present) == [Unseen EXCEPT !.artifacts = present]

\* assess: modules and artifacts first, all at once.
Assess ==
    /\ at = "idle"
    /\ To("preflight")
    /\ lang' \in Language
    /\ \E modules, artifacts \in BOOLEAN : Seen([Artifacts(artifacts) EXCEPT !.modules = modules])
    /\ UNCHANGED <<env, python>>

\* Python declares no host tool; the others end when one is missing.
Preflight ==
    /\ at = "preflight"
    /\ \/ To(FirstStep(lang)) /\ UNCHANGED gate
       \/ lang # "python" /\ Ends("host")
    /\ UNCHANGED <<lang, env, python>>

\* requires-python of pyproject.toml; 1, which every version meets, when it has
\* none.
Requirement == Version

\* The interpreter for a requirement: exactly that version when one of the host
\* answers to it, else whatever is on PATH.
BaseVersions(required, offered) == IF offered THEN {required} ELSE Version

Satisfies(version, required) == required <= version

\* pickPython: the project's own .venv, or an interpreter of the host; a host
\* offers a version under its name or, on Windows, as an argument of `py`.
PickPython ==
    /\ at = "venv"
    /\ \/ Ends("host") /\ UNCHANGED python
       \/ /\ \E v \in Version : python' = [ver |-> v, by |-> "project", required |-> 1, offered |-> FALSE,
                                          known |-> TRUE]
          /\ To("install")
          /\ UNCHANGED gate
       \/ /\ \E required \in Requirement, offered \in BOOLEAN : \E v \in BaseVersions(required, offered) :
                python' = [ver |-> v, by |-> "managed", required |-> required, offered |-> offered,
                           known |-> TRUE]
          /\ To("env")
          /\ UNCHANGED gate
    /\ UNCHANGED <<lang, env>>

\* A bug: an environment that is there is always used again.
EnsureVenvNeverStale ==
    /\ at = "env"
    /\ IF env # None
          THEN To("install") /\ python' = [python EXCEPT !.ver = env.ver]
          ELSE To("create") /\ UNCHANGED python
    /\ UNCHANGED <<lang, env, gate>>

\* ensureAssessorVenv: the environment of an earlier assessment is used again,
\* or deleted when its interpreter answers a version the requirement excludes
\* since it was raised; one that answers none is used unchecked.
EnsureVenv ==
    /\ at = "env"
    /\ \/ /\ env # None /\ Satisfies(env.ver, python.required)
          /\ To("install")
          /\ python' = [python EXCEPT !.ver = env.ver]
          /\ UNCHANGED env
       \/ /\ env # None
          /\ To("install")
          /\ python' = [python EXCEPT !.ver = env.ver, !.known = FALSE]
          /\ UNCHANGED env
       \/ /\ env # None => ~Satisfies(env.ver, python.required)
          /\ To("create")
          /\ env' = None
          /\ UNCHANGED python
    /\ UNCHANGED <<lang, gate>>

\* On Windows a version is an argument of the launcher `py`, and virtualenv is
\* given the launcher without it.
ByLauncher == Windows /\ python.offered
VirtualenvVersions == IF ByLauncher THEN Version ELSE {python.ver}

\* What a creation that fails or is killed may leave: the interpreter is there
\* before pip is.
HalfMade == {[ver |-> v, pip |-> FALSE] : v \in VirtualenvVersions}

\* `python -m venv`, then virtualenv, then the interpreter of the system.
CreateVenv ==
    /\ at = "create"
    /\ \/ /\ env' = [ver |-> python.ver, pip |-> TRUE]
          /\ To("install")
          /\ UNCHANGED <<python, gate>>
       \/ /\ \E v \in VirtualenvVersions :
                /\ env' = [ver |-> v, pip |-> TRUE]
                /\ python' = [python EXCEPT !.ver = v, !.known = ~ByLauncher]
          /\ To("install")
          /\ UNCHANGED gate
       \/ /\ env' \in HalfMade \cup {None}
          /\ python' = [python EXCEPT !.by = "system"]
          /\ To("install")
          /\ UNCHANGED gate
       \/ /\ env' \in HalfMade
          /\ Ends("host")
          /\ UNCHANGED python
    /\ UNCHANGED lang

HasPip == IF python.by = "managed" THEN env.pip ELSE TRUE

\* pip install of the project and its requirements, which is skipped when it
\* has neither; provisioning that throws is a missing host tool.
InstallPython ==
    /\ at = "install" /\ lang = "python"
    /\ \/ To("build") /\ Seen([gate EXCEPT !.installed = TRUE])
       \/ To("build") /\ UNCHANGED gate
       \/ HasPip /\ Ends("host")
    /\ UNCHANGED <<lang, env, python>>

\* pnpm install, of a project that has a package.json.
InstallNode ==
    /\ at = "install" /\ lang = "node"
    /\ \/ To("build") /\ Seen([gate EXCEPT !.installed = TRUE])
       \/ Ends("setup") \/ Ends("build") \/ Throws
    /\ UNCHANGED <<lang, env, python>>

\* checkPythonImports: every module is imported; a failing one does not end the gate.
ImportModules ==
    /\ at = "build" /\ lang = "python"
    /\ \/ \E ok \in BOOLEAN : To("tests") /\ Seen([gate EXCEPT !.built = ok /\ gate.installed])
       \/ Throws
    /\ UNCHANGED <<lang, env, python>>

\* pnpm typecheck, or tsc.
Typecheck ==
    /\ at = "build" /\ lang = "node"
    /\ \/ To("tests") /\ Seen([gate EXCEPT !.built = TRUE])
       \/ Ends("build") \/ Throws
    /\ UNCHANGED <<lang, env, python>>

GoBuild ==
    /\ at = "build" /\ lang = "go"
    /\ \/ To("list") /\ Seen([gate EXCEPT !.built = TRUE])
       \/ Ends("build") \/ Ends("host") \/ Throws
    /\ UNCHANGED <<lang, env, python>>

\* go test -list: a list that fails is an empty one.
ListTests ==
    /\ at = "list"
    /\ \/ To("tests") /\ UNCHANGED gate
       \/ Ends("none") \/ Throws
    /\ UNCHANGED <<lang, env, python>>

\* What the reports say; go counts the tests that were listed.
PytestReports == Suite \ {"hangs"}
NodeReports == Suite \ {"hangs"}
GoReports == Suite \ {"hangs", "none"}
CargoReports == Suite \ {"hangs", "unread"}

\* The numbers of a report.  Of a suite that dies (an unhandled error, a test
\* binary that aborts) only passing tests are counted.
Counted(suite) == [gate EXCEPT !.suite = suite, !.available = suite \notin {"none", "unread"},
                               !.passed = suite \in {"pass", "dies"}, !.failed = suite = "fail"]

\* By the exit code, which the numbers of a dying suite do not show.
Clean(suite) == CASE suite \in {"pass", "none"} -> {"none"}
                  [] suite \in {"fail", "dies"} -> {"test"}
                  [] OTHER -> {"none", "test"}

\* The failure mode of a Python gate: of its exit code only 5, no tests, counts.
PythonMode(suite) == CASE ~gate.installed -> "setup"
                       [] gate.installed /\ ~gate.built -> "build"
                       [] OTHER -> IF suite = "fail" THEN "test" ELSE "none"

RunPytest ==
    /\ at = "tests" /\ lang = "python"
    /\ \/ \E suite \in PytestReports :
             /\ To("done")
             /\ Seen([Counted(suite) EXCEPT !.available = suite # "none", !.mode = PythonMode(suite)])
       \/ Throws
    /\ UNCHANGED <<lang, env, python>>

\* pnpm test: a project without a test script has no tests.
RunNodeTests ==
    /\ at = "tests" /\ lang = "node"
    /\ \/ \E suite \in NodeReports : \E mode \in Clean(suite) :
             To("done") /\ Seen([Counted(suite) EXCEPT !.mode = mode])
       \/ Throws
    /\ UNCHANGED <<lang, env, python>>

\* go test -v: a suite of which every test is skipped is not understood.
RunGoTests ==
    /\ at = "tests" /\ lang = "go"
    /\ \/ \E suite \in GoReports : \E mode \in Clean(suite) :
             To("done") /\ Seen([Counted(suite) EXCEPT !.mode = mode])
       \/ Throws
    /\ UNCHANGED <<lang, env, python>>

\* cargo test builds, too: one result line is a build.
RunCargo ==
    /\ at = "tests" /\ lang = "rust"
    /\ \/ Ends("build")
       \/ \E suite \in CargoReports : \E mode \in Clean(suite) :
             To("done") /\ Seen([Counted(suite) EXCEPT !.built = TRUE, !.mode = mode])
       \/ Throws
    /\ UNCHANGED <<lang, env, python>>

AssessStep == \/ Preflight \/ PickPython \/ EnsureVenv \/ CreateVenv \/ InstallPython \/ InstallNode
              \/ ImportModules \/ Typecheck \/ GoBuild \/ ListTests \/ RunPytest \/ RunNodeTests \/ RunGoTests \/ RunCargo

AssessInit ==
    /\ at = "idle" /\ lang = None /\ env = None /\ python = None
    /\ gate = Unseen

-----------------------------------------------------------------------------
\* An environment the assessor keeps runs a Python that meets the project's
\* requirement, if the host offers one, even when the requirement was raised
\* between two assessments (pytest.ts:440-466): but for one whose interpreter
\* answers no version, and one that virtualenv made by the Windows launcher.
EnvFits ==
    /\ at \in {"build", "tests"} /\ lang = "python"
    /\ python.by = "managed" /\ python.offered /\ python.known
    => python.ver >= python.required

\* A violated claim: types.ts:37, the failure mode is absent on green gates.
GreenIsClean == at = "done" /\ Verify => Mode = "none"

=============================================================================
