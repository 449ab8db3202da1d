---------------------------- MODULE DeliveryProofs ----------------------------
(***************************************************************************)
(* Proofs about Delivery: for all repositories, exit codes, severities,     *)
(* dialects, faults and numbers of attempts.                                *)
(***************************************************************************)
EXTENDS Delivery, FiniteSetTheorems, TLAPS

\* The time limits of send_result bound its attempts, the fallbacks of
\* step_clone bound the branches it tries.
TypeInv ==
    /\ TypeOK
    /\ sender = "idle" => attempt < MaxAttempts
    /\ stage = "step" /\ R!This = "clone" => R!Tries[ran + 1] \in {branch, "main", "master"}

-----------------------------------------------------------------------------
(* The runner.                                                              *)

LEMMA PipelineSteps ==
    /\ DOMAIN R!Pipeline = 1..7
    /\ Len(R!Pipeline) = 7
    /\ R!RunnerSteps = {"clone", "install", "test", "dependency-check",
                        "lightweight-security", "deep-security", "build"}
    /\ \A i \in 1..7 : R!Pipeline[i] \in R!RunnerSteps
    /\ R!Pipeline[1] = "clone"
  BY DEF R!RunnerSteps, R!Pipeline

LEMMA CommandsBound == \A s : R!Commands(s) \in 0..2
  BY DEF R!Commands, R!JavaInstall, R!PythonInstall, R!One

LEMMA TriesBound ==
    /\ Len(R!Tries) \in 1..3
    /\ \A i \in 1..Len(R!Tries) : R!Tries[i] \in {branch, "main", "master"}
  BY DEF R!Tries

LEMMA OutcomesType == \A s, code : R!Outcomes(s, code) \subseteq R!StepStatus
  BY DEF R!Outcomes, R!StepStatus

LEMMA ListableType == \A s, code : R!Listable(s, code) \subseteq R!Scanners \cup {"jars"}
  BY DEF R!Listable, R!GitleaksReport, R!SemgrepReport, R!Archives, R!Scanners

\* The end of a step keeps the types of what it writes.
LEMMA EndStepType ==
    ASSUME R!RunnerTypeOK, NEW outcome \in R!StepStatus, R!EndStep(outcome)
    PROVE  /\ stage' \in {"step", "result", "saved", "dead"}
           /\ pos' \in 1..7 /\ ran' = 0
           /\ status' \in [R!RunnerSteps -> R!StepStatus \cup {None}]
           /\ overall' \in {"success", "failed"}
  <1>1. R!This \in R!RunnerSteps /\ pos \in 1..7
    BY PipelineSteps DEF R!RunnerTypeOK, R!This
  <1>2. status' \in [R!RunnerSteps -> R!StepStatus \cup {None}]
    BY <1>1 DEF R!RunnerTypeOK, R!EndStep
  <1>3. stage' \in {"step", "result", "saved", "dead"} /\ pos' \in 1..7
    BY <1>1, PipelineSteps DEF R!RunnerTypeOK, R!EndStep
  <1> QED
    BY <1>2, <1>3 DEF R!RunnerTypeOK, R!EndStep

LEMMA RunType ==
    ASSUME R!RunnerTypeOK, R!Step,
           stage = "step" /\ R!This = "clone" => R!Tries[ran + 1] \in {branch, "main", "master"}
    PROVE  /\ R!RunnerTypeOK'
           /\ stage' = "step" /\ R!This' = "clone"
                => R!Tries'[ran' + 1] \in {branch, "main", "master"}'
  <1>0. branch' = branch /\ repo' = repo /\ R!Tries' = R!Tries
    BY DEF R!Step, R!CloneBranch, R!CloneFails, R!PassOver, R!Raise, R!RunCommand,
           R!SaveResult, R!Tries
  <1>a. /\ repo \in Repos /\ branch \in Requested /\ pos \in 1..7 /\ ran \in 0..2
        /\ cloned \in {branch, "main", "master", None}
        /\ metadata \subseteq R!Scanners \cup {"jars"}
    BY PipelineSteps DEF R!RunnerTypeOK
  <1>b. (ran' = 0) => R!Tries'[ran' + 1] \in {branch, "main", "master"}'
    BY <1>0, TriesBound
  <1>c. SUFFICES /\ stage' \in {"step", "result", "saved", "dead"}
                 /\ pos' \in 1..7 /\ ran' \in 0..2
                 /\ status' \in [R!RunnerSteps -> R!StepStatus \cup {None}]
                 /\ overall' \in {"success", "failed"}
                 /\ cloned' \in {branch, "main", "master", None}
                 /\ metadata' \subseteq R!Scanners \cup {"jars"}
                 /\ stage' = "step" /\ R!This' = "clone"
                      => R!Tries'[ran' + 1] \in {branch, "main", "master"}'
    BY <1>0, <1>a, PipelineSteps DEF R!RunnerTypeOK
  <1>1. CASE R!CloneBranch
    <2>1. R!EndStep("success") /\ "success" \in R!StepStatus
      BY <1>1 DEF R!CloneBranch, R!StepStatus
    <2>2. cloned' \in {branch, "main", "master"} /\ metadata' = metadata
      BY <1>1 DEF R!CloneBranch
    <2> QED
      BY <1>a, <1>b, <2>1, <2>2, EndStepType
  <1>2. CASE R!CloneFails
    <2>0. cloned' = cloned /\ metadata' = metadata
      BY <1>2 DEF R!CloneFails
    <2>1. CASE ran + 1 < Len(R!Tries)
      <3>1. ran' = ran + 1 /\ UNCHANGED <<stage, pos, status, overall>>
        BY <1>2, <2>1 DEF R!CloneFails
      <3>2. ran' + 1 \in 1..Len(R!Tries) /\ ran' \in 0..2
        BY <1>a, <2>1, <3>1, TriesBound
      <3>3. R!Tries'[ran' + 1] \in {branch, "main", "master"}'
        BY <1>0, <3>2, TriesBound
      <3> QED
        BY <1>a, <2>0, <3>1, <3>2, <3>3 DEF R!RunnerTypeOK
    <2>2. CASE ~(ran + 1 < Len(R!Tries))
      <3>1. R!EndStep("failed") /\ "failed" \in R!StepStatus
        BY <1>2, <2>2 DEF R!CloneFails, R!StepStatus
      <3> QED
        BY <1>a, <1>b, <2>0, <3>1, EndStepType
    <2> QED
      BY <2>1, <2>2
  <1>3. CASE R!PassOver
    <2>1. PICK outcome \in R!StepStatus : R!EndStep(outcome)
      BY <1>3 DEF R!PassOver, R!StepStatus
    <2>2. cloned' = cloned /\ metadata' = metadata
      BY <1>3 DEF R!PassOver
    <2> QED
      BY <1>a, <1>b, <2>1, <2>2, EndStepType
  <1>4. CASE \E code \in ExitCodes : R!RunCommand(code)
    <2>0. PICK code \in ExitCodes : R!RunCommand(code)
      BY <1>4
    <2>1. metadata' \subseteq R!Scanners \cup {"jars"} /\ cloned' = cloned
      BY <1>a, <2>0, ListableType DEF R!RunCommand
    <2>2. CASE ran + 1 < R!Commands(R!This)
      <3>1. ran' = ran + 1 /\ UNCHANGED <<stage, pos, status, overall>> /\ R!This # "clone"
        BY <2>0, <2>2 DEF R!RunCommand
      <3>2. ran' \in 0..2
        BY <1>a, <2>2, <3>1, CommandsBound
      <3>3. R!This' = R!This
        BY <3>1 DEF R!This
      <3> QED
        BY <1>a, <2>1, <3>1, <3>2, <3>3 DEF R!RunnerTypeOK
    <2>3. CASE ~(ran + 1 < R!Commands(R!This))
      <3>1. PICK outcome \in R!StepStatus : R!EndStep(outcome)
        BY <2>0, <2>3, OutcomesType DEF R!RunCommand
      <3> QED
        BY <1>a, <1>b, <2>1, <3>1, EndStepType
    <2> QED
      BY <2>2, <2>3
  <1>5. CASE R!Raise \/ R!SaveResult
    <2>1. /\ stage' \in {"saved", "dead"}
          /\ UNCHANGED <<pos, ran, status, overall, cloned, metadata>>
      BY <1>5 DEF R!Raise, R!SaveResult
    <2> QED
      BY <1>a, <2>1 DEF R!RunnerTypeOK
  <1> QED
    BY <1>1, <1>2, <1>3, <1>4, <1>5 DEF R!Step

-----------------------------------------------------------------------------
(* The payload and what the backend derives from it.                        *)

LEMMA NormalizedType == \A raw : S!Normalized(raw) \in S!Severities
  BY DEF S!Normalized, S!Severities

\* There is at most one entry for each scanner, hence finitely many.
LEMMA FoundFinite ==
    /\ IsFiniteSet(Payload.findings)
    /\ \A f \in Payload.findings :
         f = [scanner |-> f.scanner, severity |-> f.severity] /\ f.scanner \in R!Scanners
    /\ \A f, g \in Payload.findings : f.scanner = g.scanner => f = g
  <1> DEFINE secret == [scanner |-> "gitleaks", severity |-> "critical"]
             rule == [scanner |-> "semgrep", severity |-> severity]
  <1>1. IsFiniteSet({secret} \cup {rule})
    <2>1. IsFiniteSet({secret})
      BY FS_Singleton
    <2> HIDE DEF secret, rule
    <2> QED
      BY <2>1, FS_AddElement
  <1>2. IsFiniteSet(Found)
    <2>1. Found \in SUBSET ({secret} \cup {rule})
      BY DEF Found, R!Scanners
    <2> HIDE DEF secret, rule
    <2> QED
      BY <1>1, <2>1, FS_Subset
  <1>3. Payload.findings \in {{}, Found}
    BY DEF Payload
  <1> QED
    BY <1>2, <1>3, FS_EmptySet DEF Found

LEMMA StorableType ==
    /\ IsFiniteSet(S!Placed(Payload))
    /\ S!Storable(Payload) \subseteq S!Finding
  <1>1. IsFiniteSet(S!Placed(Payload))
    BY FoundFinite, FS_Subset DEF S!Placed
  <1>2. \A f : S!Severity(Payload, f) \in S!Severities
    BY NormalizedType DEF S!Severity, S!Severities
  <1> QED
    BY <1>1, <1>2, FoundFinite DEF S!Storable, S!Placed, S!Finding, R!Scanners

\* The operator of FiniteSets that ResultStore sees is the one used here.
LEMMA SameCardinality == \A T : S!Cardinality(T) = Cardinality(T)
  BY DEF S!Cardinality, Cardinality

LEMMA SummaryType ==
    ASSUME summary \in S!Summary \cup {None}
    PROVE  S!Summarised(Payload) \in S!Summary \cup {None}
  <1>1. S!Counted(Payload) \in Nat
    <2>1. ASSUME NEW T, IsFiniteSet(T) PROVE Cardinality(T) \in Nat
      BY <2>1, FS_CardinalityType, Zenon
    <2> QED
      BY <2>1, StorableType, SameCardinality DEF S!Counted
  <1>2. S!OverallStatus(Payload) \in S!Overall
    BY DEF S!OverallStatus, S!VerdictStatus, S!WorstStatus, S!Overall
  <1> QED
    BY <1>1, <1>2 DEF S!Summarised, S!Summary

LEMMA PayloadType == 
    ASSUME overall \in {"success", "failed"}
    PROVE  /\ Payload.status \in {"success", "failed"}
           /\ Payload.status = "success" => overall = "success"
           /\ \A s \in R!RunnerSteps : s # "deploy" => Payload.steps[s] = status[s]
           /\ Payload.artifacts \in {0, 1}
  BY DEF Payload, GuideStatus

-----------------------------------------------------------------------------
(* The backend.                                                             *)

LEMMA StoreType ==
    ASSUME S!StoreTypeOK, overall \in {"success", "failed"}, NEW a \in 1..MaxAttempts,
           S!Handle(a, Payload) \/ S!Fail(a, Payload) \/ S!Crash
    PROVE  S!StoreTypeOK'
  <1>0. /\ job \in {"absent", "running", "success", "failed"}
        /\ S!Ensured \in {"running", "success", "failed"}
        /\ Payload.status \in {"success", "failed"}
        /\ S!NewArtifacts(Payload) \in {0, 1}
    BY PayloadType DEF S!StoreTypeOK, S!Terminal, S!Ensured, S!NewArtifacts
  <1>1. CASE \E pc \in S!PC : S!Go(a, pc) /\ UNCHANGED <<findings, artifacts, deployments, summary>>
    <2>1. req' \in [1..MaxAttempts -> S!PC]
      BY <1>1 DEF S!StoreTypeOK, S!Go
    <2>2. /\ job' \in {"absent", "running", "success", "failed"}
          /\ file' \in BOOLEAN /\ faulted' \in BOOLEAN /\ overlapped' \in BOOLEAN
          /\ DOMAIN rows' = R!RunnerSteps \cup {"deploy"}
      <3>1. CASE S!Handle(a, Payload)
        <4>1. CASE S!Ignore(a) \/ S!Admit(a)
          BY <1>0, <4>1 DEF S!StoreTypeOK, S!Ignore, S!Admit, S!InFlight, S!tables
        <4>2. CASE S!Finalize(a, Payload) \/ S!Save(a, Payload) \/ S!Parse(a, Payload)
          BY <1>0, <4>2 DEF S!StoreTypeOK, S!Finalize, S!Save, S!SaveSteps, S!Parse
        <4> QED
          BY <3>1, <4>1, <4>2 DEF S!Handle
      <3>2. CASE S!Fail(a, Payload)
        <4>1. CASE S!AdmitBlind(a)
          BY <1>0, <4>1 DEF S!StoreTypeOK, S!AdmitBlind, S!InFlight
        <4>2. CASE S!Refuse(a)
          BY <1>0, <4>2 DEF S!StoreTypeOK, S!Refuse
        <4>3. CASE S!FinalizeFails(a) \/ S!ParseFails(a)
          BY <1>0, <4>3 DEF S!StoreTypeOK, S!FinalizeFails, S!ParseFails, S!tables
        <4>4. CASE S!SaveFails(a, Payload)
          BY <1>0, <4>4 DEF S!StoreTypeOK, S!SaveFails, S!SaveSteps
        <4> QED
          BY <3>2, <4>1, <4>2, <4>3, <4>4 DEF S!Fail
      <3>3. CASE S!Crash
        BY <1>0, <3>3 DEF S!StoreTypeOK, S!Crash, S!InFlight, S!tables
      <3> QED
        BY <3>1, <3>2, <3>3
    <2> QED
      BY <1>1, <2>1, <2>2 DEF S!StoreTypeOK, S!Terminal
  <1>2. CASE S!Parse(a, Payload)
    <2>1. /\ summary' \in S!Summary \cup {None}
          /\ artifacts' \in Nat /\ deployments' \in Nat
          /\ findings' \in [S!Finding -> Nat]
      BY <1>0, <1>2, SummaryType DEF S!Parse, S!StoreTypeOK
    <2>2. req' \in [1..MaxAttempts -> S!PC]
      BY <1>2 DEF S!Parse, S!StoreTypeOK, S!Go, S!PC, S!Answers
    <2> QED
      BY <1>2, <2>1, <2>2 DEF S!Parse, S!StoreTypeOK
  <1>3. CASE S!Crash
    <2>1. req' \in [1..MaxAttempts -> S!PC]
      BY <1>3 DEF S!Crash, S!StoreTypeOK, S!PC
    <2> QED
      BY <1>3, <2>1 DEF S!Crash, S!StoreTypeOK, S!tables, S!InFlight
  <1>4. CASE S!Handle(a, Payload) /\ ~S!Parse(a, Payload)
    <2>1. \E pc \in S!PC : S!Go(a, pc) /\ UNCHANGED <<findings, artifacts, deployments, summary>>
      BY <1>4 DEF S!Handle, S!Ignore, S!Admit, S!Finalize, S!Save, S!SaveSteps, S!PC, S!Busy,
         S!Answers, S!tables
    <2> QED
      BY <1>1, <2>1
  <1>5. CASE S!Fail(a, Payload)
    <2>1. \E pc \in S!PC : S!Go(a, pc) /\ UNCHANGED <<findings, artifacts, deployments, summary>>
      BY <1>5 DEF S!Fail, S!AdmitBlind, S!Refuse, S!FinalizeFails, S!SaveFails, S!SaveSteps,
         S!ParseFails, S!PC, S!Busy, S!Answers, S!tables
    <2> QED
      BY <1>1, <2>1
  <1> QED
    BY <1>2, <1>3, <1>4, <1>5

LEMMA TypeInit == Init => TypeInv
  <1> SUFFICES ASSUME Init PROVE TypeInv
    OBVIOUS
  <1>1. R!RunnerTypeOK
    <2>1. R!Init
      BY DEF Init
    <2> QED
      BY <2>1, PipelineSteps DEF R!Init, R!RunnerTypeOK
  <1>2. S!StoreTypeOK
    BY DEF Init, S!Init, S!StoreTypeOK, S!PC
  <1>3. R!Tries[ran + 1] \in {branch, "main", "master"}
    BY TriesBound DEF Init, R!Init
  <1> QED
    BY <1>1, <1>2, <1>3, MaxAttemptsAssumption DEF Init, TypeInv, TypeOK

LEMMA TypeStep == TypeInv /\ [Next]_vars => TypeInv'
  <1> SUFFICES ASSUME TypeInv, [Next]_vars PROVE TypeInv'
    OBVIOUS
  <1>0. R!RunnerTypeOK /\ S!StoreTypeOK /\ overall \in {"success", "failed"}
    BY DEF TypeInv, TypeOK, R!RunnerTypeOK
  <1>a. ASSUME UNCHANGED run
        PROVE  /\ R!RunnerTypeOK'
               /\ (stage = "step" /\ R!This = "clone" => R!Tries[ran + 1] \in {branch, "main", "master"})'
    BY <1>a DEF run, TypeInv, TypeOK, R!RunnerTypeOK, R!This, R!Tries
  <1>1. CASE Run
    <2>1. /\ R!RunnerTypeOK'
          /\ stage' = "step" /\ R!This' = "clone" => R!Tries'[ran' + 1] \in {branch, "main", "master"}'
      BY <1>0, <1>1, RunType DEF Run, TypeInv
    <2> QED
      BY <1>1, <2>1 DEF Run, TypeInv, TypeOK, engine, post, store, S!StoreTypeOK, tables
  <1>2. CASE Send
    <2>1. req' \in [1..MaxAttempts -> S!PC]
      BY <1>0, <1>2 DEF Send, S!StoreTypeOK, S!PC
    <2>2. S!StoreTypeOK'
      BY <1>0, <1>2, <2>1 DEF Send, S!StoreTypeOK, tables
    <2>3. attempt' \in 0..MaxAttempts /\ sender' = "waiting"
      BY <1>2, MaxAttemptsAssumption DEF Send, TypeInv, TypeOK
    <2> QED
      BY <1>2, <1>a, <2>2, <2>3 DEF Send, TypeInv, TypeOK, engine
  <1>3. CASE Answered \/ Retry
    <2>1. UNCHANGED <<run, engine, store>> /\ attempt' = attempt
      BY <1>3 DEF Answered, Retry, Made
    <2>2. sender' \in {"idle", "waiting", "delivered", "gave_up"} /\ (sender' = "idle" => attempt' < MaxAttempts)
      BY <1>3, <2>1 DEF Answered, Retry
    <2>3. S!StoreTypeOK'
      BY <1>0, <2>1 DEF store, tables, S!StoreTypeOK
    <2> QED
      BY <1>a, <2>1, <2>2, <2>3 DEF TypeInv, TypeOK, engine
  <1>4. CASE Fault \/ \E a \in 1..MaxAttempts : Handler(a)
    <2>1. PICK a \in 1..MaxAttempts : S!Handle(a, Payload) \/ S!Fail(a, Payload) \/ S!Crash
      BY <1>4, MaxAttemptsAssumption DEF Fault, Handler
    <2>2. S!StoreTypeOK'
      BY <1>0, <2>1, StoreType
    <2>3. UNCHANGED <<run, engine, post>>
      BY <1>4 DEF Fault, Handler
    <2> QED
      BY <1>a, <2>2, <2>3 DEF TypeInv, TypeOK, engine, post
  <1>5. CASE UNCHANGED vars
    BY <1>0, <1>a, <1>5 DEF vars, TypeInv, TypeOK, engine, post, store, tables, S!StoreTypeOK
  <1> QED
    BY <1>1, <1>2, <1>3, <1>4, <1>5 DEF Next, Sender

LEMMA TypeInvCorrect == Spec => []TypeInv
  BY TypeInit, TypeStep, PTL DEF Spec

\* Every variable of the engine and of the backend keeps its type.
THEOREM TypeCorrect == Spec => []TypeOK
  <1>1. TypeInv => TypeOK
    BY DEF TypeInv
  <1> QED
    BY <1>1, TypeInvCorrect, PTL

-----------------------------------------------------------------------------
(* A success is earned.                                                     *)

\* The verdict knows of every critical failure, nothing reaches the backend
\* before the run is over, and what is there came from the result.
EarnedInv ==
    /\ R!This # "clone" => cloned # None
    /\ stage \in {"result", "saved"} => cloned # None \/ overall = "failed"
    /\ \A s \in R!Critical : status[s] = "failed" => overall = "failed"
    /\ stage # "saved" => \A a \in 1..MaxAttempts : req[a] = "away"
    /\ job = "success" => stage = "saved" /\ overall = "success"
    /\ \A s \in R!Critical : rows[s] = "failed" => stage = "saved" /\ status[s] = "failed"

LEMMA EndStepEarned ==
    ASSUME TypeInv, EarnedInv, stage = "step",
           NEW outcome \in R!StepStatus, R!EndStep(outcome)
    PROVE  /\ \A s \in R!Critical : status'[s] = "failed" => overall' = "failed"
           /\ stage' # "saved"
           /\ R!This = "clone" /\ outcome = "failed" =>
                R!This' = "clone" /\ stage' = "result" /\ overall' = "failed"
  <1>1. R!This \in R!RunnerSteps /\ R!Critical \subseteq R!RunnerSteps /\ "clone" \in R!Critical
    BY PipelineSteps DEF TypeInv, TypeOK, R!RunnerTypeOK, R!This, R!Critical
  <1>2. \A s \in R!RunnerSteps : status'[s] = IF s = R!This THEN outcome ELSE status[s]
    BY DEF TypeInv, TypeOK, R!RunnerTypeOK, R!EndStep
  <1>3. \A s \in R!Critical : status'[s] = "failed" => overall' = "failed"
    BY <1>1, <1>2 DEF EarnedInv, R!EndStep
  <1>4. stage' # "saved"
    BY DEF R!EndStep
  <1>5. R!This = "clone" /\ outcome = "failed" =>
          R!This' = "clone" /\ stage' = "result" /\ overall' = "failed"
    BY <1>1 DEF R!EndStep, R!This
  <1> QED
    BY <1>3, <1>4, <1>5

LEMMA RunEarned ==
    ASSUME TypeInv, EarnedInv, Run
    PROVE  EarnedInv'
  <1>0. UNCHANGED <<job, rows, req>> /\ stage \in {"step", "result"}
    BY DEF Run, store, tables, R!Step, R!CloneBranch, R!CloneFails, R!PassOver, R!Raise,
           R!RunCommand, R!SaveResult
  <1>a. /\ \A a \in 1..MaxAttempts : req'[a] = "away"
        /\ job' # "success"
        /\ \A s \in R!Critical : rows'[s] # "failed"
    BY <1>0 DEF EarnedInv
  <1>c. R!Critical' = R!Critical
    BY DEF R!Critical
  <1>b. SUFFICES /\ R!This' # "clone" => cloned' # None
                 /\ stage' \in {"result", "saved"} => cloned' # None \/ overall' = "failed"
                 /\ \A s \in R!Critical : status'[s] = "failed" => overall' = "failed"
    BY <1>a, <1>c DEF EarnedInv
  <1>1. CASE R!CloneBranch
    <2>1. R!EndStep("success") /\ "success" \in R!StepStatus /\ stage = "step"
      BY <1>1 DEF R!CloneBranch, R!StepStatus
    <2>2. cloned' # None
      <3>1. cloned' \in {branch, "main", "master"} /\ branch \in Requested
        BY <1>1 DEF R!CloneBranch, TypeInv, TypeOK, R!RunnerTypeOK
      <3> QED
        BY <3>1, NoneAssumption
    <2> QED
      BY <2>1, <2>2, EndStepEarned
  <1>2. CASE R!CloneFails /\ ran + 1 < Len(R!Tries)
    <2>1. UNCHANGED <<stage, pos, status, overall, cloned>>
      BY <1>2 DEF R!CloneFails
    <2> QED
      BY <2>1 DEF EarnedInv, R!This
  <1>3. CASE R!CloneFails /\ ~(ran + 1 < Len(R!Tries))
    <2>1. R!EndStep("failed") /\ "failed" \in R!StepStatus /\ stage = "step" /\ R!This = "clone"
      BY <1>3 DEF R!CloneFails, R!StepStatus
    <2> QED
      BY <2>1, EndStepEarned
  <1>4. CASE R!PassOver \/ \E code \in ExitCodes : R!RunCommand(code)
    <2>1. R!This # "clone" /\ stage = "step" /\ cloned' = cloned
      BY <1>4 DEF R!PassOver, R!RunCommand
    <2>2. cloned' # None
      BY <2>1 DEF EarnedInv
    <2>3. CASE \E outcome \in R!StepStatus : R!EndStep(outcome)
      BY <2>1, <2>2, <2>3, EndStepEarned
    <2>4. CASE UNCHANGED <<stage, pos, status, overall>>
      BY <2>1, <2>2, <2>4 DEF EarnedInv
    <2>5. (\E outcome \in R!StepStatus : R!EndStep(outcome)) \/ UNCHANGED <<stage, pos, status, overall>>
      <3>1. CASE R!PassOver
        BY <3>1 DEF R!PassOver, R!StepStatus
      <3>2. CASE \E code \in ExitCodes : R!RunCommand(code)
        BY <3>2, OutcomesType DEF R!RunCommand
      <3> QED
        BY <1>4, <3>1, <3>2
    <2> QED
      BY <2>3, <2>4, <2>5
  <1>5. CASE R!Raise \/ R!SaveResult
    BY <1>5 DEF R!Raise, R!SaveResult, EarnedInv, R!This
  <1> QED
    BY <1>1, <1>2, <1>3, <1>4, <1>5 DEF Run, R!Step

\* A handler works for an attempt that was made, and takes from the payload
\* what it writes.
LEMMA StoreEffect ==
    ASSUME S!StoreTypeOK, overall \in {"success", "failed"}, NEW a \in 1..MaxAttempts,
           S!Handle(a, Payload) \/ S!Fail(a, Payload) \/ S!Crash
    PROVE  /\ \E b \in 1..MaxAttempts : req[b] # "away"
           /\ job' = "success" => job = "success" \/ Payload.status = "success"
           /\ \A s \in R!RunnerSteps : rows'[s] = rows[s] \/ rows'[s] = Payload.steps[s]
  <1>0. S!Ensured = job \/ S!Ensured = "running"
    BY DEF S!Ensured
  <1>1. CASE S!Handle(a, Payload)
    BY <1>0, <1>1 DEF S!Handle, S!Ignore, S!Admit, S!Finalize, S!Save, S!SaveSteps, S!Parse, S!tables
  <1>2. CASE S!Fail(a, Payload)
    BY <1>0, <1>2 DEF S!Fail, S!AdmitBlind, S!Refuse, S!FinalizeFails, S!SaveFails, S!SaveSteps,
       S!ParseFails, S!tables
  <1>3. CASE S!Crash
    BY <1>3 DEF S!Crash, S!tables, S!Busy
  <1> QED
    BY <1>1, <1>2, <1>3

LEMMA EarnedInit == Init => EarnedInv
  BY PipelineSteps, NoneAssumption
  DEF Init, R!Init, S!Init, EarnedInv, R!This, R!Critical

LEMMA EarnedStep == TypeInv /\ EarnedInv /\ [Next]_vars => EarnedInv'
  <1> SUFFICES ASSUME TypeInv, EarnedInv, [Next]_vars PROVE EarnedInv'
    OBVIOUS
  <1>c. R!Critical \subseteq R!RunnerSteps \ {"deploy"} /\ R!Critical' = R!Critical
    BY PipelineSteps DEF R!Critical
  <1>1. CASE Run
    BY <1>1, RunEarned
  <1>2. CASE Sender \/ UNCHANGED vars
    <2>1. UNCHANGED <<stage, pos, status, overall, cloned, job, rows>>
          /\ (stage # "saved" => UNCHANGED req)
      BY <1>2 DEF Sender, Send, Answered, Retry, run, store, tables, vars
    <2> QED
      BY <2>1, <1>c DEF EarnedInv, R!This
  <1>3. CASE Fault \/ \E a \in 1..MaxAttempts : Handler(a)
    <2>1. PICK a \in 1..MaxAttempts : S!Handle(a, Payload) \/ S!Fail(a, Payload) \/ S!Crash
      BY <1>3, MaxAttemptsAssumption DEF Fault, Handler
    <2>2. UNCHANGED <<stage, pos, status, overall, cloned>>
      BY <1>3 DEF Fault, Handler, run
    <2>3. overall \in {"success", "failed"} /\ S!StoreTypeOK
      BY DEF TypeInv, TypeOK, R!RunnerTypeOK
    <2>4. /\ \E b \in 1..MaxAttempts : req[b] # "away"
          /\ job' = "success" => job = "success" \/ Payload.status = "success"
          /\ \A s \in R!RunnerSteps : rows'[s] = rows[s] \/ rows'[s] = Payload.steps[s]
      BY <2>1, <2>3, StoreEffect
    <2>5. stage = "saved"
      BY <2>4 DEF EarnedInv
    <2>6. job' = "success" => overall = "success"
      BY <2>3, <2>4, PayloadType DEF EarnedInv
    <2>7. \A s \in R!Critical : rows'[s] = "failed" => status[s] = "failed"
      BY <1>c, <2>3, <2>4, PayloadType DEF EarnedInv
    <2> QED
      BY <1>c, <2>2, <2>5, <2>6, <2>7 DEF EarnedInv, R!This
  <1> QED
    BY <1>1, <1>2, <1>3 DEF Next

\* The success of a job means that its engine cloned the repository and that
\* no row of its critical steps is a failure, whatever attempts, errors and
\* restarts brought them.
THEOREM Earned == Spec => []SuccessIsEarned
  <1>1. EarnedInv => SuccessIsEarned
    BY DEF EarnedInv, SuccessIsEarned, R!Critical
  <1> QED
    BY <1>1, EarnedInit, EarnedStep, TypeInvCorrect, PTL DEF Spec

-----------------------------------------------------------------------------
(* Attempts that follow one another.                                        *)

AtMost(n) ==
    /\ \A f \in S!Finding : findings[f] <= n
    /\ artifacts <= n /\ deployments <= n

\* A job is final from the moment its result is handled, and the handler that
\* made it so is the only one that stores.
OnceInv ==
    ~faulted /\ ~overlapped =>
        /\ AtMost(1)
        /\ job \notin S!Terminal \/ S!InFlight => AtMost(0)
        /\ \A a, b \in 1..MaxAttempts : req[a] \in S!Busy /\ req[b] \in S!Busy => a = b
        /\ \A a \in 1..MaxAttempts : req[a] \in {"save", "parse"} => job \in S!Terminal
        /\ \A a \in 1..MaxAttempts : req[a] = "finalize" => job # "absent"

LEMMA OnceMonotone ==
    ASSUME S!StoreTypeOK, AtMost(0) PROVE AtMost(1)
  BY DEF AtMost, S!StoreTypeOK

LEMMA OnceHandler ==
    ASSUME S!StoreTypeOK, OnceInv, overall \in {"success", "failed"},
           NEW a \in 1..MaxAttempts, S!Handle(a, Payload)
    PROVE  OnceInv'
  <1> SUFFICES ASSUME ~faulted', ~overlapped'
               PROVE  /\ AtMost(1)'
                      /\ (job \notin S!Terminal \/ S!InFlight => AtMost(0))'
                      /\ \A x, y \in 1..MaxAttempts : req'[x] \in S!Busy /\ req'[y] \in S!Busy => x = y
                      /\ \A x \in 1..MaxAttempts : req'[x] \in {"save", "parse"} => job' \in S!Terminal
                      /\ \A x \in 1..MaxAttempts : req'[x] = "finalize" => job' # "absent"
    BY DEF OnceInv, S!Terminal, S!Busy
  <1>1. CASE S!Ignore(a)
    <2>1. UNCHANGED <<job, findings, artifacts, deployments, faulted, overlapped>>
      BY <1>1 DEF S!Ignore, S!tables
    <2>2. \A x \in 1..MaxAttempts : req'[x] = IF x = a THEN "terminal" ELSE req[x]
      BY <1>1 DEF S!Ignore, S!Go, S!StoreTypeOK
    <2>3. S!InFlight' => S!InFlight
      BY <2>2 DEF S!InFlight, S!Busy
    <2> QED
      BY <2>1, <2>2, <2>3 DEF OnceInv, AtMost, S!Busy, S!Terminal
  <1>2. CASE S!Admit(a)
    <2>1. UNCHANGED <<findings, artifacts, deployments, faulted>> /\ ~S!InFlight /\ ~overlapped
      BY <1>2 DEF S!Admit
    <2>2. job \notin S!Terminal /\ job' = "running"
      BY <1>2 DEF S!Admit, S!Open, S!Ensured, S!StoreTypeOK
    <2>3. \A x \in 1..MaxAttempts : req'[x] = IF x = a THEN "finalize" ELSE req[x]
      BY <1>2 DEF S!Admit, S!Go, S!StoreTypeOK
    <2>4. AtMost(0)' /\ AtMost(1)'
      BY <2>1, <2>2, OnceMonotone DEF OnceInv, AtMost
    <2> QED
      BY <2>1, <2>2, <2>3, <2>4 DEF S!InFlight, S!Busy
  <1>3. CASE S!Finalize(a, Payload) \/ S!Save(a, Payload)
    <2>1. UNCHANGED <<findings, artifacts, deployments, faulted, overlapped>> /\ S!InFlight
      BY <1>3 DEF S!Finalize, S!Save, S!SaveSteps, S!InFlight, S!Busy
    <2>2. \A x \in 1..MaxAttempts : req'[x] \in S!Busy => req[x] \in S!Busy
      BY <1>3 DEF S!Finalize, S!Save, S!SaveSteps, S!Go, S!StoreTypeOK, S!Busy
    <2>3. job' \in S!Terminal
      BY <1>3, <2>1, PayloadType DEF S!Finalize, S!Save, S!SaveSteps, OnceInv, S!Terminal
    <2>4. AtMost(0)' /\ AtMost(1)'
      BY <2>1, OnceMonotone DEF OnceInv, AtMost
    <2> QED
      BY <2>1, <2>2, <2>3, <2>4 DEF OnceInv, S!Terminal
  <1>4. CASE S!Parse(a, Payload)
    <2>1. UNCHANGED <<job, faulted, overlapped>> /\ req[a] \in S!Busy /\ job \in S!Terminal
      BY <1>4 DEF S!Parse, OnceInv, S!Busy
    <2>2. AtMost(0)
      BY <2>1 DEF OnceInv, S!InFlight
    <2>3. \A x \in 1..MaxAttempts : req'[x] = IF x = a THEN "stored" ELSE req[x]
      BY <1>4 DEF S!Parse, S!Go, S!StoreTypeOK
    <2>4. \A x \in 1..MaxAttempts : req'[x] \notin S!Busy
      BY <2>1, <2>3 DEF OnceInv, S!Busy
    <2>5. S!NewArtifacts(Payload) \in {0, 1}
      BY PayloadType DEF S!NewArtifacts
    <2>6. AtMost(1)'
      BY <1>4, <2>2, <2>5 DEF S!Parse, AtMost, S!StoreTypeOK
    <2> QED
      BY <2>1, <2>4, <2>6 DEF S!InFlight, S!Busy, S!Terminal
  <1> QED
    BY <1>1, <1>2, <1>3, <1>4 DEF S!Handle

\* A fault is remembered, except where it leaves nothing behind: the file
\* could not be written, or no handler was past the check.
LEMMA OnceFault ==
    ASSUME S!StoreTypeOK, OnceInv, NEW a \in 1..MaxAttempts,
           S!Fail(a, Payload) \/ S!Crash
    PROVE  OnceInv'
  <1> SUFFICES ASSUME ~faulted', ~overlapped' PROVE OnceInv'
    BY DEF OnceInv
  <1>1. CASE S!Refuse(a)
    <2>1. UNCHANGED <<findings, artifacts, deployments, faulted, overlapped>>
      BY <1>1 DEF S!Refuse
    <2>2. job \notin S!Terminal /\ job' = "running"
      BY <1>1 DEF S!Refuse, S!Open, S!Ensured, S!StoreTypeOK
    <2>3. \A x \in 1..MaxAttempts : req'[x] = IF x = a THEN "error" ELSE req[x]
      BY <1>1 DEF S!Refuse, S!Go, S!StoreTypeOK
    <2>4. AtMost(0)' /\ AtMost(1)'
      BY <2>1, <2>2, OnceMonotone DEF OnceInv, AtMost
    <2> QED
      BY <2>1, <2>2, <2>3, <2>4 DEF OnceInv, S!Busy
  <1>2. CASE S!Crash
    <2>1. UNCHANGED <<job, findings, artifacts, deployments, overlapped>> /\ ~faulted /\ ~S!InFlight
      BY <1>2 DEF S!Crash, S!tables
    <2>2. \A x \in 1..MaxAttempts : req'[x] \notin S!Busy
      BY <1>2, <2>1 DEF S!Crash, S!InFlight, S!Busy
    <2>3. ~S!InFlight'
      BY <2>2 DEF S!InFlight, S!Busy
    <2> QED
      BY <2>1, <2>2, <2>3 DEF OnceInv, AtMost, S!Terminal, S!Busy
  <1>3. CASE S!Fail(a, Payload) /\ ~S!Refuse(a)
    BY <1>3 DEF S!Fail, S!AdmitBlind, S!FinalizeFails, S!SaveFails, S!ParseFails
  <1> QED
    BY <1>1, <1>2, <1>3

LEMMA OnceInit == Init => OnceInv
  BY DEF Init, S!Init, OnceInv, AtMost, S!Busy

LEMMA OnceStep == TypeInv /\ OnceInv /\ [Next]_vars => OnceInv'
  <1> SUFFICES ASSUME TypeInv, OnceInv, [Next]_vars PROVE OnceInv'
    OBVIOUS
  <1>0. S!StoreTypeOK /\ overall \in {"success", "failed"}
    BY DEF TypeInv, TypeOK, R!RunnerTypeOK
  <1>1. CASE Send
    <2>1. UNCHANGED <<job, findings, artifacts, deployments, faulted, overlapped>>
      BY <1>1 DEF Send, tables
    <2>2. \A x \in 1..MaxAttempts : req'[x] = req[x] \/ req'[x] \in {"sent", "lost"}
      BY <1>0, <1>1 DEF Send, S!StoreTypeOK
    <2>3. S!InFlight' => S!InFlight
      BY <2>2 DEF S!InFlight, S!Busy
    <2> QED
      BY <2>1, <2>2, <2>3 DEF OnceInv, AtMost, S!Busy, S!Terminal
  <1>2. CASE Run \/ Answered \/ Retry \/ UNCHANGED vars
    BY <1>2 DEF Run, Answered, Retry, vars, store, tables, OnceInv, AtMost, S!InFlight, S!Busy, S!Terminal
  <1>3. CASE \E a \in 1..MaxAttempts : Handler(a)
    BY <1>0, <1>3, OnceHandler DEF Handler
  <1>4. CASE Fault
    BY <1>0, <1>4, OnceFault, MaxAttemptsAssumption DEF Fault
  <1> QED
    BY <1>1, <1>2, <1>3, <1>4 DEF Next, Sender

\* However many attempts are made, as long as they do not overlap and no fault
\* of the backend hits one, the parts of a result are stored once.
THEOREM Once == Spec => []StoredOnce
  <1>1. OnceInv => StoredOnce
    BY DEF OnceInv, AtMost, StoredOnce
  <1> QED
    BY <1>1, OnceInit, OnceStep, TypeInvCorrect, PTL DEF Spec

-----------------------------------------------------------------------------
(* The summary.                                                             *)

StoredFindings == {f \in S!Finding : findings[f] > 0}

BackedInv == IsFiniteSet(StoredFindings) /\ SummaryIsBacked

\* Findings of different scanners remain different when their severities are
\* normalised, so what is counted is what is stored.
LEMMA CountedIsStored ==
    /\ IsFiniteSet(S!Storable(Payload))
    /\ S!Counted(Payload) <= Cardinality(S!Storable(Payload))
    /\ S!Counted(Payload) \in Nat
  <1> DEFINE placed == S!Placed(Payload)
             storable == S!Storable(Payload)
             stored(f) == [f EXCEPT !.severity = S!Severity(Payload, f)]
             as == [f \in placed |-> stored(f)]
  <1>1. IsFiniteSet(placed)
    BY StorableType
  <1>2. as \in Bijection(placed, storable)
    <2>1. as \in [placed -> storable] /\ \A g \in storable : \E f \in placed : as[f] = g
      BY DEF S!Storable
    <2>2. \A f, g \in placed : as[f] = as[g] => f = g
      <3>1. \A f \in placed : f \in Payload.findings /\ as[f].scanner = f.scanner
        BY FoundFinite DEF S!Placed
      <3> SUFFICES ASSUME NEW f \in placed, NEW g \in placed, as[f] = as[g] PROVE f = g
        OBVIOUS
      <3>2. f \in Payload.findings /\ g \in Payload.findings /\ f.scanner = g.scanner
        <4> HIDE DEF as
        <4> QED
          BY <3>1
      <3> QED
        BY <3>2, FoundFinite
    <2> HIDE DEF as, placed, storable
    <2> QED
      BY <2>1, <2>2 DEF Bijection, Injection, Surjection, IsInjective
  <1> HIDE DEF as, placed, storable
  <1>3. IsFiniteSet(storable) /\ Cardinality(storable) = Cardinality(placed)
    <2>1. ExistsBijection(placed, storable)
      BY <1>2 DEF ExistsBijection
    <2> QED
      BY <1>1, <2>1, FS_Bijection
  <1>4. S!Counted(Payload) = Cardinality(placed)
    BY SameCardinality DEF S!Counted, placed
  <1>5. Cardinality(placed) \in Nat
    BY <1>1, FS_CardinalityType
  <1> QED
    BY <1>3, <1>4, <1>5 DEF storable

LEMMA ParseBacked ==
    ASSUME S!StoreTypeOK, BackedInv, NEW a \in 1..MaxAttempts, S!Parse(a, Payload)
    PROVE  BackedInv'
  <1> DEFINE before == StoredFindings
             after == StoredFindings'
             new == S!Storable(Payload)
  <1>1. after = before \cup new
    BY StorableType DEF S!Parse, S!StoreTypeOK, StoredFindings
  <1>2. IsFiniteSet(before) /\ IsFiniteSet(new)
    BY CountedIsStored DEF BackedInv
  <1> HIDE DEF before, after, new
  <1>3. IsFiniteSet(after)
    BY <1>1, <1>2, FS_Union
  <1>4. /\ Cardinality(before) <= Cardinality(after)
        /\ Cardinality(new) <= Cardinality(after)
    BY <1>1, <1>3, FS_Subset
  <1>5. Cardinality(before) \in Nat /\ Cardinality(new) \in Nat /\ Cardinality(after) \in Nat
    BY <1>2, <1>3, FS_CardinalityType
  <1>6. summary' # None => summary'.total <= Cardinality(after)
    <2>1. CASE summary' = summary
      <3>1. summary # None => summary.total <= Cardinality(before) /\ summary.total \in Nat
        BY DEF BackedInv, SummaryIsBacked, StoredFindings, before, S!StoreTypeOK, S!Summary
      <3> QED
        BY <1>4, <1>5, <2>1, <3>1
    <2>2. CASE summary' # summary
      <3>1. summary'.total = S!Counted(Payload)
        BY <2>2 DEF S!Parse, S!Summarised
      <3> QED
        BY <1>4, <1>5, <3>1, CountedIsStored DEF new
    <2> QED
      BY <2>1, <2>2
  <1> QED
    BY <1>3, <1>6 DEF BackedInv, SummaryIsBacked, StoredFindings, after, S!Finding, S!Severities

LEMMA BackedInit == Init => BackedInv
  <1> SUFFICES ASSUME Init PROVE BackedInv
    OBVIOUS
  <1>1. StoredFindings = {}
    BY DEF Init, S!Init, StoredFindings
  <1> QED
    BY <1>1, FS_EmptySet DEF Init, S!Init, BackedInv, SummaryIsBacked

LEMMA BackedStep == TypeInv /\ BackedInv /\ [Next]_vars => BackedInv'
  <1> SUFFICES ASSUME TypeInv, BackedInv, [Next]_vars PROVE BackedInv'
    OBVIOUS
  <1>0. S!StoreTypeOK
    BY DEF TypeInv, TypeOK
  <1>1. CASE \E a \in 1..MaxAttempts : S!Parse(a, Payload)
    BY <1>0, <1>1, ParseBacked
  <1>2. CASE ~\E a \in 1..MaxAttempts : S!Parse(a, Payload)
    <2>1. UNCHANGED <<findings, summary>>
      BY <1>2 DEF Next, Run, Sender, Send, Answered, Retry, Fault, Handler, S!Handle, S!Fail, S!Crash,
         S!Ignore, S!Admit, S!Finalize, S!Save, S!SaveSteps, S!AdmitBlind, S!Refuse, S!FinalizeFails,
         S!SaveFails, S!ParseFails, S!tables, tables, store, vars
    <2> QED
      BY <2>1 DEF BackedInv, SummaryIsBacked, StoredFindings, S!Finding, S!Severities
  <1> QED
    BY <1>1, <1>2

\* The summary never counts a finding that has no row.
THEOREM Backed == Spec => []SummaryIsBacked
  <1>1. BackedInv => SummaryIsBacked
    BY DEF BackedInv
  <1> QED
    BY <1>1, BackedInit, BackedStep, TypeInvCorrect, PTL DEF Spec
===============================================================================
