------------------------------ MODULE ResultStore ------------------------------
(***************************************************************************)
(* receive_result of app/main.py for the final callback of one job: the     *)
(* check for a terminal job, the JSON file, _finalize_job_in_db with its    *)
(* saves of the steps, and _save_parsed_data_to_db.                         *)
(*                                                                          *)
(* The engine sends the same payload p again when an answer is late, so     *)
(* several attempts may be handled at the same time.  Every database error  *)
(* after the check is swallowed and the handler goes on.  The saves of the  *)
(* steps are one action, for attempts that overlap write the same rows; how *)
(* their logs are stored is in LogStore.                                    *)
(***************************************************************************)
EXTENDS Naturals, FiniteSets

CONSTANTS
    Steps,      \* the names of the steps
    Attempts,   \* the deliveries of the callback
    None,       \* no value
    Fragile,    \* bound: the steps whose save may fail
    Faults      \* "database": an error of a transaction, "disk": the file
                \* cannot be written, "crash": the backend restarts

VARIABLES
    job,          \* pipeline_jobs.status, "absent" without a row
    file,         \* the JSON file has been written
    rows,         \* pipeline_steps.status of every step, None without a row
    findings,     \* security_findings: how many rows each finding has
    artifacts,    \* build_artifacts: the number of rows
    deployments,  \* deployments: the number of rows
    summary,      \* the row of security_summary
    req,          \* how far the handler of each attempt is
    faulted,      \* history: a fault has hit a handler that passed the check
    overlapped    \* history: a handler passed the check while another was busy

tables == <<job, file, rows, findings, artifacts, deployments, summary>>
store == <<tables, req, faulted, overlapped>>

Severities == {"critical", "high", "medium", "low"}
Finding == [scanner : {"gitleaks", "semgrep"}, severity : Severities]
Overall == {"passed", "warning", "failed"}
Summary == [total : Nat, overall : Overall]
Terminal == {"success", "failed"}
Busy == {"finalize", "save", "parse"}
Answers == {"stored", "terminal", "error"}
PC == {"away", "sent", "lost"} \cup Busy \cup Answers

InFlight == \E a \in Attempts : req[a] \in Busy
Go(a, pc) == req' = [req EXCEPT ![a] = pc]

Init ==
    /\ job \in {"absent", "running"}
    /\ file = FALSE
    /\ rows = [s \in Steps |-> None]
    /\ findings = [f \in Finding |-> 0]
    /\ artifacts = 0
    /\ deployments = 0
    /\ summary = None
    /\ req = [a \in Attempts |-> "away"]
    /\ faulted = FALSE
    /\ overlapped = FALSE

-----------------------------------------------------------------------------
(* The checks: _ensure_job_exists, _get_terminal_job_status, and the file.  *)

\* Mutant: the final callback of a terminal job is taken again.
AlwaysOpen == TRUE

\* The callback of a terminal job is ignored.
Open == job \notin Terminal

\* Mutant: the job created for an unknown id waits to be claimed.
EnsuredQueued == IF job = "absent" THEN "queued" ELSE job

Ensured == IF job = "absent" THEN "running" ELSE job

Ignore(a) ==
    /\ req[a] = "sent"
    /\ ~Open
    /\ Go(a, "terminal")
    /\ UNCHANGED <<tables, faulted, overlapped>>

Admit(a) ==
    /\ req[a] = "sent"
    /\ Open
    /\ job' = Ensured
    /\ file' = TRUE
    /\ Go(a, "finalize")
    /\ overlapped' = (overlapped \/ InFlight)
    /\ UNCHANGED <<rows, findings, artifacts, deployments, summary, faulted>>

\* An error of one of the two transactions: the job may be left without a row,
\* and a terminal one is taken for one that runs.
AdmitBlind(a) ==
    /\ req[a] = "sent"
    /\ "database" \in Faults
    /\ job' \in {job, Ensured}
    /\ file' = TRUE
    /\ Go(a, "finalize")
    /\ faulted' = TRUE
    /\ overlapped' = (overlapped \/ InFlight)
    /\ UNCHANGED <<rows, findings, artifacts, deployments, summary>>

\* The exception of result_store.save is answered with status 500, also after an
\* error of the checks.
Refuse(a) ==
    /\ req[a] = "sent"
    /\ "disk" \in Faults
    /\ \/ Open /\ job' = Ensured /\ UNCHANGED faulted
       \/ "database" \in Faults /\ job' \in {job, Ensured} /\ faulted' = TRUE
    /\ Go(a, "error")
    /\ UNCHANGED <<file, rows, findings, artifacts, deployments, summary, overlapped>>

-----------------------------------------------------------------------------
(* _finalize_job_in_db.                                                     *)

\* The UPDATE of a job without a row changes nothing and is no error.
Finalize(a, p) ==
    /\ req[a] = "finalize"
    /\ job' = IF job = "absent" THEN job ELSE p.status
    /\ Go(a, "save")
    /\ UNCHANGED <<file, rows, findings, artifacts, deployments, summary, faulted, overlapped>>

\* Its error skips the saves of the steps.
FinalizeFails(a) ==
    /\ req[a] = "finalize"
    /\ "database" \in Faults
    /\ Go(a, "parse")
    /\ faulted' = TRUE
    /\ UNCHANGED <<tables, overlapped>>

\* Mutant: the saves stop before the last steps of the list.
SavedButBuild(p) == {s \in Steps \ {"build"} : p.steps[s] # None}

\* The steps on the payload's list.
Saved(p) == {s \in Steps : p.steps[s] # None}

\* The foreign key refuses the steps of a job without a row.
SaveSteps(a, p, saved) ==
    /\ req[a] = "save"
    /\ rows' = [s \in Steps |-> IF s \in saved /\ job # "absent" THEN p.steps[s] ELSE rows[s]]
    /\ Go(a, "parse")
    /\ UNCHANGED <<job, file, findings, artifacts, deployments, summary, overlapped>>

Save(a, p) == SaveSteps(a, p, Saved(p)) /\ UNCHANGED faulted

\* The error of one save; the others go on.
SaveFails(a, p) ==
    /\ "database" \in Faults
    /\ \E s \in Saved(p) \cap Fragile : SaveSteps(a, p, Saved(p) \ {s})
    /\ faulted' = TRUE

-----------------------------------------------------------------------------
(* _save_parsed_data_to_db, one transaction.                                *)

Known(s) == s \in Steps /\ rows[s] # None
StepOf(f) == IF f.scanner = "gitleaks" THEN "lightweight-security" ELSE "deep-security"

\* _normalize_severity
Normalized(raw) ==
    CASE raw = "critical" -> "critical"
      [] raw \in {"high", "error"} -> "high"
      [] raw \in {"low", "info"} -> "low"
      [] OTHER -> "medium"

\* Log lines carry no severity of a secret.
Severity(p, f) ==
    IF ~p.structured /\ f.scanner = "gitleaks" THEN "high" ELSE Normalized(f.severity)

\* A finding is stored with the step of its scanner, or not at all.
Placed(p) == {f \in p.findings : Known(StepOf(f))}
Storable(p) == {[f EXCEPT !.severity = Severity(p, f)] : f \in Placed(p)}

\* Mutant: a finding is counted before the check for its scanner's step.
CountedEarly(p) == Cardinality(p.findings)

\* gitleaks_count + semgrep_count
Counted(p) == Cardinality(Placed(p))

VerdictStatus(v) ==
    CASE v = "pass" -> "passed" [] v = "block" -> "failed" [] OTHER -> "warning"

WorstStatus(severities) ==
    IF "critical" \in severities THEN "failed"
    ELSE IF {"high", "medium"} \cap severities # {} THEN "warning" ELSE "passed"

\* The engine's verdict comes first.
OverallStatus(p) ==
    IF p.verdict # None THEN VerdictStatus(p.verdict)
    ELSE WorstStatus({f.severity : f \in Storable(p)})

\* The upsert of security_summary.
Summarised(p) ==
    IF Counted(p) > 0 \/ Known("lightweight-security") \/ Known("deep-security")
    THEN [total |-> Counted(p), overall |-> OverallStatus(p)] ELSE summary

NewArtifacts(p) == IF Known("build") THEN p.artifacts ELSE 0

\* _parse_deploy_info finds a deployment.
DeployInfo(p) == p.steps["deploy"] \notin {None, "skipped"}

\* It needs an artifact to refer to.
Deploys(p) ==
    /\ Known("deploy")
    /\ DeployInfo(p)
    /\ artifacts + NewArtifacts(p) > 0

Parse(a, p) ==
    /\ req[a] = "parse"
    /\ findings' = [f \in Finding |-> IF f \in Storable(p) THEN findings[f] + 1 ELSE findings[f]]
    /\ artifacts' = artifacts + NewArtifacts(p)
    /\ deployments' = IF Deploys(p) THEN deployments + 1 ELSE deployments
    /\ summary' = Summarised(p)
    /\ Go(a, "stored")
    /\ UNCHANGED <<job, file, rows, faulted, overlapped>>

\* It is answered "result stored" all the same.
ParseFails(a) ==
    /\ req[a] = "parse"
    /\ "database" \in Faults
    /\ Go(a, "stored")
    /\ faulted' = TRUE
    /\ UNCHANGED <<tables, overlapped>>

-----------------------------------------------------------------------------
\* The restart ends every handler, and no connection to it survives.
Crash ==
    /\ "crash" \in Faults
    /\ \E a \in Attempts : req[a] \in Busy \cup {"sent"}
    /\ req' = [a \in Attempts |-> IF req[a] \in Busy \cup {"sent"} THEN "lost" ELSE req[a]]
    /\ faulted' = (faulted \/ InFlight)
    /\ UNCHANGED <<tables, overlapped>>

Handle(a, p) ==
    \/ Ignore(a) \/ Admit(a) \/ Finalize(a, p) \/ Save(a, p) \/ Parse(a, p)

Fail(a, p) ==
    \/ AdmitBlind(a) \/ Refuse(a) \/ FinalizeFails(a) \/ SaveFails(a, p) \/ ParseFails(a)

StoreTypeOK ==
    /\ job \in {"absent", "running"} \cup Terminal
    /\ file \in BOOLEAN
    /\ DOMAIN rows = Steps
    /\ findings \in [Finding -> Nat]
    /\ artifacts \in Nat /\ deployments \in Nat
    /\ summary \in Summary \cup {None}
    /\ req \in [Attempts -> PC]
    /\ faulted \in BOOLEAN /\ overlapped \in BOOLEAN

\* The payload is in the tables.
Recorded(p) ==
    /\ file
    /\ job = p.status
    /\ \A s \in Steps : p.steps[s] # None => rows[s] = p.steps[s]
    /\ \A f \in p.findings : findings[[f EXCEPT !.severity = Severity(p, f)]] > 0
    /\ artifacts >= p.artifacts
    /\ {"lightweight-security", "deep-security"} \cap Saved(p) # {} =>
         summary = [total |-> Cardinality(p.findings), overall |-> OverallStatus(p)]
===============================================================================
