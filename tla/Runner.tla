-------------------------------- MODULE Runner --------------------------------
(***************************************************************************)
(* ubuntu_runner.py, the reference engine: one run of the pipeline over one *)
(* repository, from the clone to the result that is saved on disk.  The     *)
(* callback that reports it is in Delivery.                                 *)
(*                                                                          *)
(* A repository is the set of its branches and the set of the files the     *)
(* runner looks for; "tests" stands for any test_*.py or *_test.py,         *)
(* "scripts.test" and "scripts.build" for usable entries of package.json,   *)
(* "bad package.json" for one that is not JSON.  A command is its exit      *)
(* code; -1 is a timeout or a program that could not be started.            *)
(***************************************************************************)
EXTENDS Integers, Sequences, FiniteSets

CONSTANTS
    Repos,      \* the repositories: records of branches and files
    Requested,  \* the branches that may be asked for
    ExitCodes,  \* the exit codes of commands
    None,       \* no value
    Faults      \* "disk": the result cannot be written

VARIABLES
    repo,       \* the repository
    branch,     \* the branch asked for
    stage,      \* "step", "result", "saved", or "dead": the process has ended
    pos,        \* the step of Pipeline that runs
    ran,        \* the commands of this step that have run
    status,     \* the status of every step that is over, None of the others
    overall,    \* overall_status
    cloned,     \* the branch in the workspace
    metadata    \* what the steps' metadata list: findings of a scanner, "jars"

runner == <<repo, branch, stage, pos, ran, status, overall, cloned, metadata>>

\* run_pipeline calls the steps in this order.
Pipeline == <<"clone", "install", "test", "dependency-check",
              "lightweight-security", "deep-security", "build">>

RunnerSteps == {Pipeline[i] : i \in DOMAIN Pipeline}
StepStatus == {"success", "failed", "skipped", "pending"}
Scanners == {"gitleaks", "semgrep"}
This == Pipeline[pos]

Init ==
    /\ repo \in Repos
    /\ branch \in Requested
    /\ stage = "step"
    /\ pos = 1
    /\ ran = 0
    /\ status = [s \in RunnerSteps |-> None]
    /\ overall = "success"
    /\ cloned = None
    /\ metadata = {}

-----------------------------------------------------------------------------
(* What the files say.                                                      *)

Has(file) == file \in repo.files

Markers == <<
    [type |-> "java-gradle", files |-> {"build.gradle", "build.gradle.kts",
                                        "settings.gradle", "settings.gradle.kts"}],
    [type |-> "java-maven", files |-> {"pom.xml"}],
    [type |-> "python", files |-> {"requirements.txt", "pyproject.toml", "setup.py", "Pipfile"}],
    [type |-> "node", files |-> {"package.json"}] >>

\* detect_project_type: the first type with a marker in the workspace.
ProjectType ==
    LET present == SelectSeq(Markers, LAMBDA m : m.files \cap repo.files # {}) IN
      IF present = <<>> THEN "unknown" ELSE Head(present).type

Is(type) == ProjectType = type

\* A wrapper in the repository is made executable first.
JavaInstall ==
    IF (Is("java-gradle") /\ Has("gradlew")) \/ (Is("java-maven") /\ Has("mvnw")) THEN 2 ELSE 1

PythonInstall ==
    IF Has("Pipfile") \/ Has("pyproject.toml") THEN 1
    ELSE IF ~Has("requirements.txt") THEN 0
    ELSE IF Has("requirements-dev.txt") THEN 2 ELSE 1

One(cond) == IF cond THEN 1 ELSE 0

\* How many commands a step runs after the clone.
Commands(s) ==
    CASE s = "install" ->
           IF Is("java-gradle") \/ Is("java-maven") THEN JavaInstall
           ELSE IF Is("python") THEN PythonInstall
           ELSE One(Is("node"))
      [] s = "test" ->
           IF Is("python")
           THEN One({"pytest.ini", "setup.cfg", "pyproject.toml", "tests"} \cap repo.files # {})
           ELSE One(~Is("unknown") /\ (Is("node") => Has("scripts.test")))
      [] s = "build" ->
           IF Is("python") THEN One(Has("setup.py") \/ Has("pyproject.toml"))
           ELSE One(~Is("unknown") /\ (Is("node") => Has("scripts.build")))
      [] s = "dependency-check" -> One(~Is("unknown"))
      [] OTHER -> 1

\* step_test and step_build parse package.json outside any try.
Raises(s) == Is("node") /\ Has("bad package.json") /\ s \in {"test", "build"}

-----------------------------------------------------------------------------
(* A step ends.                                                             *)

\* Mutant: a failing test run does not fail the pipeline.
CriticalButTest == {"clone", "install", "build"}

\* The steps whose failure fails the pipeline.
Critical == {"clone", "install", "test", "build"}

\* The step after the clone is not reached when the clone failed.
EndStep(outcome) ==
    /\ status' = [status EXCEPT ![This] = outcome]
    /\ overall' = IF This \in Critical /\ outcome = "failed" THEN "failed" ELSE overall
    /\ ran' = 0
    /\ IF pos = Len(Pipeline) \/ (This = "clone" /\ outcome = "failed")
       THEN stage' = "result" /\ UNCHANGED pos
       ELSE pos' = pos + 1 /\ UNCHANGED stage

\* The branches step_clone tries.
Tries == IF branch \in {"main", "master"} THEN <<branch>> ELSE <<branch, "main", "master">>

CloneBranch ==
    /\ stage = "step" /\ This = "clone"
    /\ Tries[ran + 1] \in repo.branches
    /\ cloned' = Tries[ran + 1]
    /\ EndStep("success")
    /\ UNCHANGED <<repo, branch, metadata>>

\* There is no such branch, or the network or the time limit fails it.
CloneFails ==
    /\ stage = "step" /\ This = "clone"
    /\ IF ran + 1 < Len(Tries)
       THEN ran' = ran + 1 /\ UNCHANGED <<stage, pos, status, overall>>
       ELSE EndStep("failed")
    /\ UNCHANGED <<repo, branch, cloned, metadata>>

\* The statuses a step's last exit code may stand for.  pip-audit is skipped
\* when it or its output says "not found".
Outcomes(s, code) ==
    LET plain == IF code = 0 THEN "success" ELSE "failed" IN
      IF s = "lightweight-security" /\ code = 1 THEN {"success"}
      ELSE IF s = "dependency-check" /\ Is("node") /\ code > 0 THEN {"success"}
      ELSE IF s = "dependency-check" /\ Is("python")
           THEN IF code = 127 THEN {"skipped"} ELSE {plain, "skipped"}
      ELSE {plain}

\* What a command may leave behind for the metadata: a readable report with
\* entries (gitleaks finds secrets with code 1, semgrep ends with 0 or 1 when
\* it could scan), or archives in the build directory.
GitleaksReport(code) == IF code = 1 THEN {"gitleaks"} ELSE {}
SemgrepReport(code) == IF code \in {0, 1} THEN {"semgrep"} ELSE {}
Archives == IF Is("java-gradle") \/ Is("java-maven") THEN {"jars"} ELSE {}

Listable(s, code) ==
    CASE s = "lightweight-security" -> GitleaksReport(code)
      [] s = "deep-security" -> SemgrepReport(code)
      [] s = "build" -> Archives
      [] OTHER -> {}

RunCommand(code) ==
    /\ stage = "step" /\ This # "clone" /\ ~Raises(This)
    /\ ran < Commands(This)
    /\ IF ran + 1 < Commands(This)
       THEN ran' = ran + 1 /\ UNCHANGED <<stage, pos, status, overall>>
       ELSE \E outcome \in Outcomes(This, code) : EndStep(outcome)
    /\ \E seen \in SUBSET Listable(This, code) : metadata' = metadata \cup seen
    /\ UNCHANGED <<repo, branch, cloned>>

\* A step without a command; a Python project of setup.py alone leaves its
\* install step as it was created.
PassOver ==
    /\ stage = "step" /\ This # "clone" /\ ~Raises(This)
    /\ Commands(This) = 0
    /\ EndStep(IF This = "install" /\ Is("python") THEN "pending" ELSE "skipped")
    /\ UNCHANGED <<repo, branch, cloned, metadata>>

\* The exception leaves main: nothing is saved and nothing is sent.
Raise ==
    /\ stage = "step" /\ Raises(This)
    /\ stage' = "dead"
    /\ UNCHANGED <<repo, branch, pos, ran, status, overall, cloned, metadata>>

SaveResult ==
    /\ stage = "result"
    /\ stage' \in {"saved"} \cup (IF "disk" \in Faults THEN {"dead"} ELSE {})
    /\ UNCHANGED <<repo, branch, pos, ran, status, overall, cloned, metadata>>

Step ==
    \/ CloneBranch \/ CloneFails \/ PassOver \/ Raise
    \/ \E code \in ExitCodes : RunCommand(code)
    \/ SaveResult

RunnerTypeOK ==
    /\ repo \in Repos /\ branch \in Requested
    /\ stage \in {"step", "result", "saved", "dead"}
    /\ pos \in DOMAIN Pipeline /\ ran \in 0..2
    /\ status \in [RunnerSteps -> StepStatus \cup {None}]
    /\ overall \in {"success", "failed"}
    /\ cloned \in {branch, "main", "master", None}
    /\ metadata \subseteq Scanners \cup {"jars"}
===============================================================================
