------------------------------- MODULE Delivery -------------------------------
(***************************************************************************)
(* A run of the engine and what the backend makes of it: Runner produces a  *)
(* result, send_result of ubuntu_runner.py posts it until it is answered    *)
(* with status 200 or five attempts have failed, and ResultStore handles    *)
(* the attempts, which outlive the time the sender waits for them.          *)
(*                                                                          *)
(* Engines speak different dialects of the final callback: the "runner" of  *)
(* this repository lists what its scanners found in the metadata of its     *)
(* steps; an engine that follows ENGINE_INTEGRATION_GUIDE.md ("guide") puts *)
(* findings and a verdict in the security block and deploys; an older one   *)
(* ("text") prints the findings in the pipeline's log.                      *)
(***************************************************************************)
EXTENDS Naturals, Integers, Sequences, FiniteSets

CONSTANTS Repos, Requested, ExitCodes, None, Faults, Fragile,
    Dialects,     \* the dialects of the engines
    Worst,        \* the severities semgrep's findings may have, as it words them
    MaxAttempts   \* send_result gives up after this many attempts

ASSUME ReposAssumption == \A r \in Repos : "branches" \in DOMAIN r /\ "files" \in DOMAIN r
ASSUME ExitCodesAssumption == ExitCodes \subseteq -1..127
ASSUME DialectsAssumption == Dialects \subseteq {"runner", "guide", "text"}
ASSUME NoneAssumption == None \notin Requested \cup {"main", "master", "success", "failed"}
ASSUME MaxAttemptsAssumption == MaxAttempts \in Nat \ {0}

VARIABLES repo, branch, stage, pos, ran, status, overall, cloned, metadata,
    dialect,    \* the engine's dialect
    severity,   \* the severity of what semgrep finds in this repository
    sender,     \* "idle", "waiting" for an answer, "delivered" or "gave_up"
    attempt,    \* the attempts made
    job, file, rows, findings, artifacts, deployments, summary, req, faulted,
    overlapped

R == INSTANCE Runner
S == INSTANCE ResultStore WITH
       Steps <- R!RunnerSteps \cup {"deploy"}, Attempts <- 1..MaxAttempts

engine == <<dialect, severity>>
post == <<sender, attempt>>
run == <<repo, branch, stage, pos, ran, status, overall, cloned, metadata>>
tables == <<job, file, rows, findings, artifacts, deployments, summary>>
store == <<tables, req, faulted, overlapped>>
vars == <<run, engine, post, store>>

Init ==
    /\ R!Init
    /\ S!Init
    /\ dialect \in Dialects
    /\ severity \in Worst
    /\ sender = "idle"
    /\ attempt = 0

-----------------------------------------------------------------------------
(* The payload of the final callback.                                       *)

Found == {[scanner |-> x, severity |-> IF x = "gitleaks" THEN "critical" ELSE severity] :
            x \in metadata \cap R!Scanners}

Verdict ==
    LET has(s) == \E f \in Found : S!Normalized(f.severity) = s IN
      CASE has("critical") -> "block"
        [] has("high") -> "block_pending_approval"
        [] has("medium") -> "warn"
        [] OTHER -> "pass"

GuideStatus == IF Verdict \in {"block", "block_pending_approval"} THEN "failed" ELSE overall

DeployStatus ==
    IF dialect = "runner" \/ stage # "saved" THEN None
    ELSE IF dialect = "guide" /\ GuideStatus = "success" THEN "success" ELSE "skipped"

\* The runner lists the archives of a Java build; the other engines name what
\* a build saved in its summary.
Built == "jars" \in metadata \/ (dialect # "runner" /\ status["build"] = "success")

\* _build_result; the runner sends no security block and no pipeline log.
Payload ==
    [status |-> IF dialect = "guide" THEN GuideStatus ELSE overall,
     steps |-> [s \in R!RunnerSteps \cup {"deploy"} |->
                  IF s = "deploy" THEN DeployStatus ELSE status[s]],
     findings |-> IF dialect = "runner" THEN {} ELSE Found,
     structured |-> dialect = "guide",
     verdict |-> IF dialect = "guide" THEN Verdict ELSE None,
     artifacts |-> IF Built THEN 1 ELSE 0]

-----------------------------------------------------------------------------
(* send_result.                                                             *)

\* An attempt that does not reach the backend is lost at once.
Send ==
    /\ stage = "saved" /\ sender = "idle"
    /\ attempt' = attempt + 1
    /\ sender' = "waiting"
    /\ \E state \in {"sent"} \cup (IF "network" \in Faults THEN {"lost"} ELSE {}) :
         req' = [req EXCEPT ![attempt + 1] = state]
    /\ UNCHANGED <<run, engine, tables, faulted, overlapped>>

Answered ==
    /\ sender = "waiting"
    /\ req[attempt] \in {"stored", "terminal"}
    /\ sender' = "delivered"
    /\ UNCHANGED <<run, engine, attempt, store>>

\* Mutant: the attempt that failed is not counted.
Uncounted(n) == n - 1

\* The attempts that have been made when one has failed.
Made(n) == n

\* An error status, a broken connection, or no answer in time: the handler
\* may be in the middle of its work or may have ended it.
Unanswered ==
    \/ req[attempt] \in {"error", "lost"}
    \/ "network" \in Faults

Retry ==
    /\ sender = "waiting" /\ Unanswered
    /\ attempt' = Made(attempt)
    /\ sender' = IF attempt' < MaxAttempts THEN "idle" ELSE "gave_up"
    /\ UNCHANGED <<run, engine, store>>

-----------------------------------------------------------------------------
Run == R!Step /\ UNCHANGED <<engine, post, store>>

Sender == Send \/ Answered \/ Retry

Handler(a) == S!Handle(a, Payload) /\ UNCHANGED <<run, engine, post>>

Fault ==
    /\ S!Crash \/ \E a \in 1..MaxAttempts : S!Fail(a, Payload)
    /\ UNCHANGED <<run, engine, post>>

Next == Run \/ Sender \/ Fault \/ \E a \in 1..MaxAttempts : Handler(a)

Spec == Init /\ [][Next]_vars

\* Commands have time limits, so has the wait for an answer, and the event
\* loop resumes a handler whose database call can return.
FairSpec ==
    /\ Spec
    /\ WF_vars(Run) /\ WF_vars(Sender)
    /\ \A a \in 1..MaxAttempts : WF_vars(Handler(a))

-----------------------------------------------------------------------------
(* Properties.                                                              *)

\* Every variable holds a value of its kind.
TypeOK ==
    /\ R!RunnerTypeOK
    /\ S!StoreTypeOK
    /\ dialect \in Dialects /\ severity \in Worst
    /\ sender \in {"idle", "waiting", "delivered", "gave_up"}
    /\ attempt \in 0..MaxAttempts

\* A job that is shown as a success cloned the repository, and no row of its
\* clone, install, test or build is a failure: the verdict run_pipeline
\* accumulates and the rows the backend stores are those of one run, whichever
\* attempts, errors and restarts brought them.
SuccessIsEarned ==
    job = "success" =>
        /\ cloned # None
        /\ \A s \in {"clone", "install", "test", "build"} : status[s] # "failed" /\ rows[s] # "failed"

\* Attempts that follow one another store the findings, the artifacts and the
\* deployment of a run once: only attempts that overlap, or a fault of the
\* backend, make a second row.
StoredOnce ==
    ~faulted /\ ~overlapped =>
        /\ \A f \in S!Finding : findings[f] <= 1
        /\ artifacts <= 1 /\ deployments <= 1

\* The summary counts no finding that has no row, whatever failed before
\* _save_parsed_data_to_db and however often it ran.
SummaryIsBacked ==
    summary # None =>
        summary.total <= Cardinality({f \in S!Finding : findings[f] > 0})

\* A result that got past the terminal check is in the tables in the end, file,
\* verdict, steps and findings, also when the sender has given up on it; unless
\* a fault of the backend hit a handler.
ResultRecorded ==
    (\E a \in 1..MaxAttempts : req[a] \in S!Busy) ~> (faulted \/ S!Recorded(Payload))

\* The pipeline is left behind in the end: the result is delivered or given
\* up, or the runner died before it could send one.
RunEnds == <>(sender \in {"delivered", "gave_up"} \/ stage = "dead")
===============================================================================
