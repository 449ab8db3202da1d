---------------------------- MODULE JobLifecycle ----------------------------
(***************************************************************************)
(* The life of a row of pipeline_jobs, from the insert that queues it to a  *)
(* terminal status, under every handler of app/main.py that writes it.      *)
(*                                                                          *)
(* The backend is one asyncio process.  A handler runs without interruption *)
(* between two awaits, and every database call is an await, so a handler is *)
(* a process (an element of Tasks) whose steps are its reads and its        *)
(* commits.  PostgreSQL runs at READ COMMITTED: a SELECT sees what is       *)
(* committed, an UPDATE waits for the row lock and then rewrites the row    *)
(* it finds.  An UPDATE whose transaction commits at once is one step; a    *)
(* transaction that keeps a row locked over another await is more, and the  *)
(* other writers wait (RowFree, StepRowFree).  The ORM writes only the      *)
(* columns whose value differs from the value it loaded.                    *)
(*                                                                          *)
(* Steps with the same name are one step here, and "finished" stands for    *)
(* success, failed and skipped; a step's log is locked and deleted with it. *)
(* A timestamp is null, fresh, or old (past the reaper's cutoff).           *)
(***************************************************************************)
CONSTANTS
    Jobs,       \* the job ids (uuid4) the system can meet
    Targets,    \* the repository+branch pairs
    TargetOf,   \* the target each job id belongs to
    Engines,    \* the execution engines that poll for work
    Tasks,      \* the HTTP requests in flight
    Reaper,     \* the background task _stuck_job_reaper
    Steps,      \* step names
    Clone,      \* the step claim_job creates
    None,       \* no value
    Reported,   \* the step states callbacks report
    Finals,     \* the statuses final callbacks report
    Ends,       \* how old the ended_at of a final callback may be
    Faults      \* what may go wrong: "error" (a database call fails), "delay"
                \* (beyond the reaper's cutoffs), "restart" (of the backend),
                \* "death" (of the engines)

ASSUME TargetAssumption == TargetOf \in [Jobs -> Targets]
ASSUME CloneAssumption == Clone \in Steps
ASSUME ReaperAssumption == Reaper \notin Tasks
ASSUME NoneAssumption == None \notin Jobs \cup Engines \cup Steps \cup Targets
ASSUME ReportedAssumption == Reported \subseteq {"pending", "running", "finished"}
ASSUME FinalsAssumption ==
    Finals \subseteq {"success", "failed", "running"} /\ Ends \subseteq {"fresh", "old"}
ASSUME FaultsAssumption == Faults \subseteq {"error", "delay", "restart", "death"}

VARIABLES
    job,      \* the rows of pipeline_jobs
    steps,    \* the rows of pipeline_steps: the state of each job's steps
    heard,    \* some step of the job has callback_received_at or log lines
    issued,   \* job ids a row was ever inserted for
    granted,  \* the engines that received 200 from claim_job
    task,     \* the handlers in flight, and the reaper
    scan,     \* rows _find_stuck_jobs has selected and not yet counted
    stuck,    \* its verdicts, still to be failed
    silent    \* the engines have died: no claim or callback arrives any more

vars == <<job, steps, heard, issued, granted, task, scan, stuck, silent>>
rows == <<job, steps, heard, issued>>
reaperVars == <<scan, stuck>>

Procs == Tasks \cup {Reaper}
Terminal == {"success", "failed", "cancelled"}
Active == {"queued", "running"}
JobStatus == Active \cup Terminal
Overall == {"none", "success", "failed"}
Age == {"null", "fresh", "old"}
StepState == {"none", "pending", "running", "finished"}
CallbackType == {"log_batch", "step_complete", "pipeline_complete"}

JobRow == [status : JobStatus \cup {"absent"}, overall : Overall,
           claimedBy : Engines \cup {None}, claimAge : Age, lastEvent : Age]

Absent == [status |-> "absent", overall |-> "none", claimedBy |-> None,
           claimAge |-> "null", lastEvent |-> "null"]

Present(j) == job[j].status # "absent"

PC == {"idle", "create_insert", "claim_write", "ensure_insert",
       "terminal_check", "log_step", "log_job", "log_commit", "save_step",
       "save_commit", "finalize", "snapshot", "fail_select", "fail_commit",
       "cancel_write", "delete_write", "count", "reap", "off"}

\* What a handler remembers across an await.
TaskState == [pc : PC, job : Jobs \cup {None}, target : Targets \cup {None},
              engine : Engines \cup {None}, type : CallbackType,
              step : Steps \cup {None}, state : StepState,
              seen : JobStatus \cup {"absent"}, overall : Overall,
              fresh : BOOLEAN, append : BOOLEAN, todo : SUBSET Steps]

Idle == [pc |-> "idle", job |-> None, target |-> None, engine |-> None,
         type |-> "log_batch", step |-> None, state |-> "none",
         seen |-> "absent", overall |-> "none", fresh |-> FALSE,
         append |-> FALSE, todo |-> {}]

At(p, label) == task[p].pc = label
Become(p, state) == task' = [task EXCEPT ![p] = state]
Goto(p, label) == task' = [task EXCEPT ![p].pc = label]
Return(p) == Become(p, IF p = Reaper THEN [Idle EXCEPT !.pc = "reap"] ELSE Idle)

Init ==
    /\ job = [j \in Jobs |-> Absent]
    /\ steps = [j \in Jobs |-> [s \in Steps |-> "none"]]
    /\ heard = [j \in Jobs |-> FALSE]
    /\ issued = {}
    /\ granted = [j \in Jobs |-> {}]
    /\ task = [p \in Procs |-> Idle]
    /\ scan = {}
    /\ stuck = {}
    /\ silent = FALSE

-----------------------------------------------------------------------------
(* Locks.  They are held by transactions, hence derived from where the      *)
(* handlers stand.                                                          *)

\* Mutant: the running steps are selected without flushing the job first.
RowFreeUnflushed(j) == TRUE

\* Only _fail_job_in_db keeps a job row locked across an await: the flush
\* before its second SELECT sends the UPDATE, the commit comes later.
RowFree(j) == \A p \in Procs : ~(At(p, "fail_commit") /\ task[p].job = j)

\* pg_advisory_xact_lock("pipeline-step:<job>:<step>").
StepLockFree(j, s) ==
    \A p \in Procs : ~(/\ task[p].pc \in {"log_job", "log_commit", "save_commit"}
                       /\ task[p].job = j
                       /\ task[p].step = s)

\* The rows of steps that were there before and that a transaction has written: a
\* save at its counting SELECT (taken to write even what repeats the row's values,
\* for which the ORM sends no UPDATE), a batch that appends at its session.get of
\* the job, a delete step by step.  A row that it inserted nobody else sees.
HoldsStepRow(p, j, s) ==
    /\ task[p].job = j
    /\ \/ At(p, "save_commit") /\ task[p].step = s /\ ~task[p].fresh
       \/ At(p, "log_commit") /\ task[p].step = s /\ ~task[p].fresh /\ task[p].append
       \/ At(p, "delete_write") /\ s \in task[p].todo

StepRowFree(j, s) == \A p \in Procs : ~HoldsStepRow(p, j, s)

\* The transaction has inserted or updated a row that references the job.
References(p, j) ==
    /\ task[p].job = j
    /\ \/ At(p, "save_commit")
       \/ At(p, "log_job") /\ task[p].fresh
       \/ At(p, "log_commit") /\ (task[p].fresh \/ task[p].append)

Unreferenced(j) == \A p \in Procs : ~References(p, j)

\* The steps of a job that a delete has still to remove.
Remaining(t) == {s \in Steps : steps[task[t].job][s] # "none"} \ task[t].todo

-----------------------------------------------------------------------------
(* Queueing a job.                                                          *)

QueuedRow(age) == [Absent EXCEPT !.status = "queued", !.lastEvent = age]
FreshIds(g) == {j \in Jobs \ issued : TargetOf[j] = g}

Insert(j, row) ==
    /\ job' = [job EXCEPT ![j] = row]
    /\ issued' = issued \cup {j}

\* start_pipeline: no conflict check, one INSERT.
StartPipeline(g) ==
    /\ \E j \in FreshIds(g) : Insert(j, QueuedRow("fresh"))
    /\ UNCHANGED <<steps, heard, granted, task, reaperVars, silent>>

\* approve_job: the follow-up of an existing job, without last_event_at.
EnqueueFollowUp(j) ==
    /\ Present(j)
    /\ \E k \in FreshIds(TargetOf[j]) : Insert(k, QueuedRow("null"))
    /\ UNCHANGED <<steps, heard, granted, task, reaperVars, silent>>

\* create_pipeline: the conflict check in one session...
CreateCheck(t, g) ==
    /\ At(t, "idle")
    /\ \/ \A j \in Jobs : TargetOf[j] = g => job[j].status \notin Active
       \/ "error" \in Faults
    /\ Become(t, [Idle EXCEPT !.pc = "create_insert", !.target = g])
    /\ UNCHANGED <<rows, granted, reaperVars, silent>>

\* ...and the INSERT in another.  With no id left the request is refused (503).
CreateInsert(t) ==
    /\ At(t, "create_insert")
    /\ LET ids == FreshIds(task[t].target) IN
         \/ \E j \in ids : Insert(j, QueuedRow("fresh"))
         \/ ids = {} /\ UNCHANGED <<job, issued>>
    /\ Return(t)
    /\ UNCHANGED <<steps, heard, granted, reaperVars, silent>>

-----------------------------------------------------------------------------
(* claim_job.                                                               *)

ClaimRead(t, e, j) ==
    /\ ~silent
    /\ At(t, "idle")
    /\ job[j].status = "queued"
    /\ Become(t, [Idle EXCEPT !.pc = "claim_write", !.job = j, !.engine = e])
    /\ UNCHANGED <<rows, granted, reaperVars, silent>>

\* Mutant: the claim forgets the status.
ClaimedInQueue(j, e) ==
    IF job[j].status = "queued" THEN [job[j] EXCEPT !.claimedBy = e, !.claimAge = "fresh"]
    ELSE job[j]

\* Mutant: the UPDATE lacks its condition.
ClaimedAnyway(j, e) ==
    [job[j] EXCEPT !.status = "running", !.claimedBy = e,
                   !.claimAge = "fresh", !.lastEvent = "fresh"]

\* UPDATE ... WHERE status = 'queued'
Claimed(j, e) ==
    IF job[j].status = "queued"
    THEN [job[j] EXCEPT !.status = "running", !.claimedBy = e,
                        !.claimAge = "fresh", !.lastEvent = "fresh"]
    ELSE job[j]

\* _ensure_claim_step
Started(state) == IF state = "none" THEN "running" ELSE state

\* The row count of the UPDATE is not looked at; it waits for the row lock only
\* if the committed row still satisfies its condition.  The clone step of a
\* deleted job is refused by its foreign key and the claim answers 500.  Until
\* its commit the transaction waits for nothing more, so the UPDATE, the SELECT
\* of the clone step and its INSERT are one step.
ClaimWrite(t) ==
    LET j == task[t].job
        e == task[t].engine
    IN  /\ At(t, "claim_write")
        /\ job[j].status = "queued" => RowFree(j)
        /\ IF Present(j)
           THEN /\ job' = [job EXCEPT ![j] = Claimed(j, e)]
                /\ steps' = [steps EXCEPT ![j][Clone] = Started(@)]
                /\ granted' = [granted EXCEPT ![j] = @ \cup {e}]
           ELSE UNCHANGED <<job, steps, granted>>
        /\ Return(t)
        /\ UNCHANGED <<heard, issued, reaperVars, silent>>

-----------------------------------------------------------------------------
(* receive_result: the three kinds of callback.                             *)

\* Mutant: the callback of an unknown job queues it.
AutoQueued == [Absent EXCEPT !.status = "queued"]

AutoCreated == [Absent EXCEPT !.status = "running"]

EnsureStep(j) == IF Present(j) THEN "terminal_check" ELSE "ensure_insert"

\* _ensure_job_exists reads; a callback may also name an id of its own.
Callback(t, j, type) ==
    /\ ~silent
    /\ At(t, "idle")
    /\ Become(t, [Idle EXCEPT !.pc = EnsureStep(j), !.job = j, !.type = type])
    /\ UNCHANGED <<rows, granted, reaperVars, silent>>

\* A row inserted meanwhile makes the INSERT fail, and the error is swallowed.
EnsureInsert(t) ==
    LET j == task[t].job IN
    /\ At(t, "ensure_insert")
    /\ IF Present(j) THEN UNCHANGED <<job, issued>> ELSE Insert(j, AutoCreated)
    /\ Goto(t, "terminal_check")
    /\ UNCHANGED <<steps, heard, granted, reaperVars, silent>>

Body == [log_batch |-> "log_step", step_complete |-> "save_step",
         pipeline_complete |-> "finalize"]

\* _get_terminal_job_status: a session of its own, closed before the write.
TerminalCheck(t) ==
    /\ At(t, "terminal_check")
    /\ IF job[task[t].job].status \in Terminal
       THEN Return(t)
       ELSE Goto(t, Body[task[t].type])
    /\ UNCHANGED <<rows, granted, reaperVars, silent>>

\* _append_stream_log_batch: advisory lock, read or insert the step.  "append"
\* is FALSE for a finished step and when no sequence number is new.
LogStep(t, s) ==
    LET j == task[t].job
        state == steps[j][s]
    IN  /\ At(t, "log_step")
        /\ StepLockFree(j, s)
        /\ IF state = "none" /\ ~Present(j)
           THEN Return(t)
           ELSE \E a \in BOOLEAN :
                  /\ state = "finished" => ~a
                  /\ Become(t, [task[t] EXCEPT !.pc = "log_job", !.step = s,
                                  !.fresh = (state = "none"), !.append = a])
        /\ UNCHANGED <<rows, granted, reaperVars, silent>>

\* session.get(PipelineJob) flushes the step: its row is locked, or is gone and
\* the batch is rolled back.  The status loaded here decides what is written.
LogJob(t) ==
    LET j == task[t].job
        s == task[t].step
        updates == task[t].append /\ ~task[t].fresh
    IN  /\ At(t, "log_job")
        /\ updates => StepRowFree(j, s)
        /\ IF updates /\ steps[j][s] = "none"
           THEN Return(t)
           ELSE Become(t, [task[t] EXCEPT !.pc = "log_commit", !.seen = job[j].status])
        /\ UNCHANGED <<rows, granted, reaperVars, silent>>

\* A batch without usable events touches no step.
LogNothing(t) ==
    /\ At(t, "log_step")
    /\ Become(t, [Idle EXCEPT !.pc = "log_commit", !.job = task[t].job,
                              !.seen = job[task[t].job].status])
    /\ UNCHANGED <<rows, granted, reaperVars, silent>>

\* Mutant: a log batch writes every column of the job as it was at the start.
LoggedAnew(j, seen) ==
    [job[j] EXCEPT !.status = "running", !.overall = "none", !.lastEvent = "fresh"]

\* Assigning "running" to a loaded "running" writes no status column.
LoggedRow(j, seen) ==
    [job[j] EXCEPT !.status = IF seen = "running" THEN @ ELSE "running",
                   !.lastEvent = "fresh"]

\* A job that has vanished makes the flush fail and rolls everything back.
LogCommit(t) ==
    LET j == task[t].job
        s == task[t].step
        lost == task[t].seen = "absent" \/ ~Present(j)
    IN  /\ At(t, "log_commit")
        /\ RowFree(j)
        /\ IF lost
           THEN UNCHANGED <<job, steps, heard>>
           ELSE /\ job' = [job EXCEPT ![j] = LoggedRow(j, task[t].seen)]
                /\ steps' = IF task[t].fresh THEN [steps EXCEPT ![j][s] = "running"] ELSE steps
                /\ heard' = [heard EXCEPT ![j] = @ \/ task[t].append]
        /\ Return(t)
        /\ UNCHANGED <<issued, granted, reaperVars, silent>>

ToSnapshot(t) == Become(t, [Idle EXCEPT !.pc = "snapshot", !.job = task[t].job])

\* A step_complete without a step saves nothing.
NoStep(t) ==
    /\ At(t, "save_step")
    /\ task[t].type = "step_complete"
    /\ ToSnapshot(t)
    /\ UNCHANGED <<rows, granted, reaperVars, silent>>

\* _save_step_to_db up to the counting SELECT, whose flush waits for the step's
\* row and locks it.  For pipeline_complete it is called for each step of the
\* payload.
SaveStep(t, s, state) ==
    LET j == task[t].job IN
    /\ At(t, "save_step")
    /\ task[t].type = "pipeline_complete" => s \in task[t].todo
    /\ StepLockFree(j, s)
    /\ steps[j][s] # "none" => StepRowFree(j, s)
    /\ IF Present(j)
       THEN Become(t, [task[t] EXCEPT !.pc = "save_commit", !.step = s, !.state = state,
                                      !.fresh = (steps[j][s] = "none")])
       ELSE IF task[t].type = "step_complete"
            THEN ToSnapshot(t)
            ELSE Become(t, [task[t] EXCEPT !.todo = @ \ {s}])
    /\ UNCHANGED <<rows, granted, reaperVars, silent>>

AfterSave(t) ==
    IF task[t].type = "step_complete"
    THEN ToSnapshot(t)
    ELSE Become(t, [task[t] EXCEPT !.pc = "save_step", !.step = None, !.state = "none",
                                   !.fresh = FALSE, !.todo = @ \ {task[t].step}])

Touched(j) == [job[j] EXCEPT !.lastEvent = "fresh"]

\* The job's snapshot columns and the commit.
SaveCommit(t) ==
    LET j == task[t].job IN
    /\ At(t, "save_commit")
    /\ RowFree(j)
    /\ steps' = [steps EXCEPT ![j][task[t].step] = task[t].state]
    /\ job' = [job EXCEPT ![j] = Touched(j)]
    /\ \E logs \in BOOLEAN :
         heard' = [heard EXCEPT ![j] = @ \/ logs \/ task[t].type = "step_complete"]
    /\ AfterSave(t)
    /\ UNCHANGED <<issued, granted, reaperVars, silent>>

\* _save_parsed_data_to_db, after the steps: of what is modelled here it only
\* sets the line counts of steps that exist.
SaveParsed(t) ==
    LET j == task[t].job IN
    /\ At(t, "save_step")
    /\ task[t].type = "pipeline_complete"
    /\ task[t].todo = {}
    /\ \E logs \in BOOLEAN :
         heard' = [heard EXCEPT ![j] = @ \/ (logs /\ \E s \in Steps : steps[j][s] # "none")]
    /\ ToSnapshot(t)
    /\ UNCHANGED <<job, steps, issued, granted, reaperVars, silent>>

\* _save_deployment_snapshot, when the payload has a deployment: it looks at no
\* status.
Snapshot(t) ==
    LET j == task[t].job IN
    /\ At(t, "snapshot")
    /\ \/ UNCHANGED job
       \/ Present(j) /\ RowFree(j) /\ job' = [job EXCEPT ![j] = Touched(j)]
    /\ Return(t)
    /\ UNCHANGED <<steps, heard, issued, granted, reaperVars, silent>>

\* Mutant: overall_result copies the status of the callback.
VerdictEcho(final) == final

Verdict(final) == IF final = "success" THEN "success" ELSE "failed"

FinalRow(j, final, age) ==
    [job[j] EXCEPT !.status = final, !.overall = Verdict(final), !.lastEvent = age]

\* _finalize_job_in_db: UPDATE by job id, whatever the row's status is now.
\* last_event_at becomes the engine's ended_at, which may be long ago.
Finalize(t, final, age, todo) ==
    LET j == task[t].job IN
    /\ At(t, "finalize")
    /\ RowFree(j)
    /\ job' = IF Present(j) THEN [job EXCEPT ![j] = FinalRow(j, final, age)] ELSE job
    /\ Become(t, [task[t] EXCEPT !.pc = "save_step", !.todo = todo])
    /\ UNCHANGED <<steps, heard, issued, granted, reaperVars, silent>>

-----------------------------------------------------------------------------
(* _fail_job_in_db, called by fail_job and by the reaper.                   *)

LoadForFail(p, j) ==
    Become(p, [Idle EXCEPT !.pc = "fail_select", !.job = j,
                           !.overall = job[j].overall])

FailRead(t, j) ==
    /\ ~silent
    /\ At(t, "idle")
    /\ job[j].status \in Active
    /\ LoadForFail(t, j)
    /\ UNCHANGED <<rows, granted, reaperVars, silent>>

\* The flush sends the job's UPDATE (and fails if the row is gone), then the
\* running steps are selected.
FailSelect(p) ==
    LET j == task[p].job IN
    /\ At(p, "fail_select")
    /\ RowFree(j)
    /\ IF Present(j)
       THEN Become(p, [task[p] EXCEPT !.pc = "fail_commit",
                         !.todo = {s \in Steps : steps[j][s] = "running"}])
       ELSE Return(p)
    /\ UNCHANGED <<rows, granted, reaperVars, silent>>

\* Mutant: the result of a job that has just ended is overwritten, its status not.
FailedResult(j, overall) ==
    [job[j] EXCEPT !.status = IF @ \in Active THEN "failed" ELSE @,
                   !.lastEvent = "fresh", !.overall = "failed"]

FailedRow(j, overall) ==
    [job[j] EXCEPT !.status = "failed", !.lastEvent = "fresh",
                   !.overall = IF overall = "failed" THEN @ ELSE "failed"]

FailCommit(p) ==
    LET j == task[p].job IN
    /\ At(p, "fail_commit")
    /\ \A s \in task[p].todo : StepRowFree(j, s)
    /\ job' = [job EXCEPT ![j] = FailedRow(j, task[p].overall)]
    /\ steps' = [steps EXCEPT ![j] = [s \in Steps |->
                    IF s \in task[p].todo THEN "finished" ELSE @[s]]]
    /\ Return(p)
    /\ UNCHANGED <<heard, issued, granted, reaperVars, silent>>

-----------------------------------------------------------------------------
(* _stuck_job_reaper and _find_stuck_jobs.                                  *)

\* Mutant: jobs that wait in the queue are suspects too.
SuspectsActive ==
    {[job |-> j, lastEvent |-> job[j].lastEvent, claimAge |-> job[j].claimAge] :
        j \in {i \in Jobs : job[i].status \in Active /\ job[i].lastEvent \in {"null", "old"}}}

Suspects ==
    {[job |-> j, lastEvent |-> job[j].lastEvent, claimAge |-> job[j].claimAge] :
        j \in {i \in Jobs : /\ job[i].status = "running"
                            /\ \/ job[i].lastEvent \in {"null", "old"}
                               \/ job[i].claimAge = "old"}}

ReaperScan ==
    /\ At(Reaper, "idle")
    /\ Suspects # {}
    /\ scan' = Suspects
    /\ Goto(Reaper, "count")
    /\ UNCHANGED <<rows, granted, stuck, silent>>

\* Mutant: only the start of the engine times out.
IsStuckAtStart(r) ==
    \/ r.claimAge = "old" /\ ~heard[r.job]
    \/ r.lastEvent = "null" /\ \A s \in Steps : steps[r.job][s] = "none"

\* The counts of a job are read after its row, in a statement of their own.
IsStuck(r) ==
    \/ r.claimAge = "old" /\ ~heard[r.job]
    \/ r.lastEvent = "old"
    \/ r.lastEvent = "null" /\ \A s \in Steps : steps[r.job][s] = "none"

ReaperCount ==
    /\ At(Reaper, "count")
    /\ \E r \in scan :
         /\ scan' = scan \ {r}
         /\ stuck' = IF IsStuck(r) THEN stuck \cup {r.job} ELSE stuck
    /\ IF scan' = {} THEN Goto(Reaper, "reap") ELSE UNCHANGED task
    /\ UNCHANGED <<rows, granted, silent>>

\* _fail_job_in_db looks at the status again, not at the age.
ReaperFail(j) ==
    /\ At(Reaper, "reap")
    /\ j \in stuck
    /\ stuck' = stuck \ {j}
    /\ IF job[j].status \in Active THEN LoadForFail(Reaper, j) ELSE UNCHANGED task
    /\ UNCHANGED <<rows, granted, scan, silent>>

ReaperSleep ==
    /\ At(Reaper, "reap")
    /\ stuck = {}
    /\ Become(Reaper, Idle)
    /\ UNCHANGED <<rows, granted, reaperVars, silent>>

-----------------------------------------------------------------------------
(* cancel_pipeline and delete_pipeline.                                     *)

CancelRead(t, j) ==
    /\ At(t, "idle")
    /\ job[j].status \in Active
    /\ Become(t, [Idle EXCEPT !.pc = "cancel_write", !.job = j])
    /\ UNCHANGED <<rows, granted, reaperVars, silent>>

CancelledRow(j) == [job[j] EXCEPT !.status = "cancelled", !.lastEvent = "fresh"]

\* UPDATE by job id, after the engine's process has been killed.
CancelWrite(t) ==
    LET j == task[t].job IN
    /\ At(t, "cancel_write")
    /\ RowFree(j)
    /\ job' = IF Present(j) THEN [job EXCEPT ![j] = CancelledRow(j)] ELSE job
    /\ Return(t)
    /\ UNCHANGED <<steps, heard, issued, granted, reaperVars, silent>>

DeleteRead(t, j) ==
    /\ At(t, "idle")
    /\ Present(j)
    /\ Become(t, [Idle EXCEPT !.pc = "delete_write", !.job = j])
    /\ UNCHANGED <<rows, granted, reaperVars, silent>>

\* The DELETEs of the children: the rows are met in no order the code sets.
DeleteStep(t, s) ==
    /\ At(t, "delete_write")
    /\ s \in Remaining(t)
    /\ StepRowFree(task[t].job, s)
    /\ Become(t, [task[t] EXCEPT !.todo = @ \cup {s}])
    /\ UNCHANGED <<rows, granted, reaperVars, silent>>

\* Mutant: the steps are not deleted.
DeleteRow(t) ==
    LET j == task[t].job IN
    /\ At(t, "delete_write")
    /\ RowFree(j)
    /\ job' = [job EXCEPT ![j] = Absent]
    /\ Return(t)
    /\ UNCHANGED <<steps, heard, issued, granted, reaperVars, silent>>

\* The job, and the commit.  A step that was committed since its DELETE goes by
\* the cascade.
DeleteWrite(t) ==
    LET j == task[t].job IN
    /\ At(t, "delete_write")
    /\ Remaining(t) = {}
    /\ RowFree(j)
    /\ Unreferenced(j)
    /\ job' = [job EXCEPT ![j] = Absent]
    /\ steps' = [steps EXCEPT ![j] = [s \in Steps |-> "none"]]
    /\ heard' = [heard EXCEPT ![j] = FALSE]
    /\ Return(t)
    /\ UNCHANGED <<issued, granted, reaperVars, silent>>

-----------------------------------------------------------------------------
(* Errors, time and the engines.                                            *)

\* A transaction is rolled back: where the handler's except clause leads.
Rollback(p) ==
    /\ CASE At(p, "ensure_insert")  -> Goto(p, "terminal_check")
         [] At(p, "terminal_check") -> Goto(p, Body[task[p].type])
         [] At(p, "finalize")       -> Goto(p, "save_step")
         [] At(p, "save_commit")    -> AfterSave(p)
         [] OTHER                   -> Return(p)
    /\ UNCHANGED <<rows, granted, reaperVars, silent>>

\* Mutant: a batch and a delete keep a step by a lock of the process
\* (asyncio.Lock), which the server does not see.
WaitsForSave(p, q) ==
    /\ task[p].job = task[q].job
    /\ \/ At(p, "save_commit") /\ At(q, "fail_commit")
       \/ At(p, "fail_commit") /\ At(q, "save_commit") /\ task[q].step \in task[p].todo

\* p waits for a row q has locked.  A handler that has no row locked yet waits
\* too, and nobody for it.
WaitsFor(p, q) ==
    LET j == task[p].job IN
    /\ p # q
    /\ task[q].job = j
    /\ \/ task[p].pc \in {"log_commit", "save_commit"} /\ At(q, "fail_commit")
       \/ At(p, "fail_commit") /\ \E s \in task[p].todo : HoldsStepRow(q, j, s)
       \/ At(p, "delete_write") /\ \E s \in Remaining(p) : HoldsStepRow(q, j, s)
       \/ /\ At(p, "delete_write") /\ Remaining(p) = {}
          /\ At(q, "fail_commit") \/ References(q, j)

\* PostgreSQL aborts a transaction of a cycle of waits: _fail_job_in_db locks the
\* job before its steps, _save_step_to_db, _append_stream_log_batch and
\* delete_pipeline lock steps before the job.
DeadlockVictim(p) ==
    /\ \E cycle \in SUBSET Procs :
         /\ p \in cycle
         /\ \A q \in cycle : \E r \in cycle : WaitsFor(q, r)
         /\ \A q \in cycle : \E r \in cycle : WaitsFor(r, q)
    /\ Rollback(p)

\* An error while a step of pipeline_complete is looked up loses that step,
\* as it does when the step is committed.
DbError(p) ==
    /\ "error" \in Faults
    /\ task[p].pc \notin {"idle", "save_step", "count", "reap", "off"}
    /\ Rollback(p)

\* The reaper catches every exception and goes back to sleep.
ReaperError ==
    /\ "error" \in Faults
    /\ At(Reaper, "count")
    /\ Become(Reaper, Idle)
    /\ scan' = {}
    /\ stuck' = {}
    /\ UNCHANGED <<rows, granted, silent>>

\* The backend process is replaced: every handler in flight is gone.  When its
\* first connection to the database fails it serves without a reaper.
Restart ==
    /\ "restart" \in Faults
    /\ \/ task' = [p \in Procs |-> Idle]
       \/ /\ "error" \in Faults
          /\ task' = [p \in Procs |-> IF p = Reaper THEN [Idle EXCEPT !.pc = "off"] ELSE Idle]
    /\ scan' = {}
    /\ stuck' = {}
    /\ UNCHANGED <<rows, granted, silent>>

\* A cutoff passes.  The two timeouts are independent settings.
EventAges(j) ==
    /\ "delay" \in Faults
    /\ job[j].lastEvent = "fresh"
    /\ job' = [job EXCEPT ![j] = [@ EXCEPT !.lastEvent = "old"]]
    /\ UNCHANGED <<steps, heard, issued, granted, task, reaperVars, silent>>

ClaimAges(j) ==
    /\ "delay" \in Faults
    /\ job[j].claimAge = "fresh"
    /\ job' = [job EXCEPT ![j] = [@ EXCEPT !.claimAge = "old"]]
    /\ UNCHANGED <<steps, heard, issued, granted, task, reaperVars, silent>>

EnginesDie ==
    /\ "death" \in Faults
    /\ ~silent
    /\ silent' = TRUE
    /\ UNCHANGED <<rows, granted, task, reaperVars>>

-----------------------------------------------------------------------------
Request(t) ==
    \/ \E g \in Targets : CreateCheck(t, g)
    \/ \E j \in Jobs, e \in Engines : ClaimRead(t, e, j)
    \/ \E j \in Jobs, type \in CallbackType : Callback(t, j, type)
    \/ \E j \in Jobs : FailRead(t, j) \/ CancelRead(t, j) \/ DeleteRead(t, j)

\* A request in flight moves on.
Proceed(t) ==
    \/ CreateInsert(t) \/ ClaimWrite(t) \/ EnsureInsert(t) \/ TerminalCheck(t)
    \/ \E s \in Steps : LogStep(t, s)
    \/ LogNothing(t) \/ LogJob(t) \/ LogCommit(t)
    \/ \E s \in Steps, state \in Reported : SaveStep(t, s, state)
    \/ NoStep(t) \/ SaveCommit(t) \/ SaveParsed(t) \/ Snapshot(t)
    \/ \E final \in Finals, age \in Ends, todo \in SUBSET Steps :
          Finalize(t, final, age, todo)
    \/ CancelWrite(t)
    \/ \E s \in Steps : DeleteStep(t, s)
    \/ DeleteWrite(t)

Fail(p) == FailSelect(p) \/ FailCommit(p)

Reap ==
    \/ ReaperScan \/ ReaperCount \/ ReaperSleep
    \/ \E j \in Jobs : ReaperFail(j)

Next ==
    \/ \E g \in Targets : StartPipeline(g)
    \/ \E j \in Jobs : EnqueueFollowUp(j) \/ EventAges(j) \/ ClaimAges(j)
    \/ \E t \in Tasks : Request(t) \/ Proceed(t)
    \/ \E p \in Procs : Fail(p) \/ DeadlockVictim(p) \/ DbError(p)
    \/ Reap
    \/ ReaperError
    \/ Restart
    \/ EnginesDie

Spec == Init /\ [][Next]_vars

\* What the event loop, the database and the clock guarantee: a handler whose
\* next step is possible again and again takes it (a released lock goes to a
\* waiter), a deadlock is broken, the reaper runs, time passes.  No request ever
\* has to arrive.
Fairness ==
    /\ \A t \in Tasks : SF_vars(Proceed(t) \/ Fail(t))
    /\ SF_vars(FailSelect(Reaper)) /\ SF_vars(FailCommit(Reaper))
    /\ WF_vars(\E p \in Procs : DeadlockVictim(p))
    /\ WF_vars(Reap)
    /\ \A j \in Jobs : WF_vars(EventAges(j)) /\ WF_vars(ClaimAges(j))

FairSpec == Spec /\ Fairness

-----------------------------------------------------------------------------
\* Every variable stays in its domain.
TypeOK ==
    /\ job \in [Jobs -> JobRow]
    /\ steps \in [Jobs -> [Steps -> StepState]]
    /\ heard \in [Jobs -> BOOLEAN]
    /\ issued \in SUBSET Jobs
    /\ granted \in [Jobs -> SUBSET Engines]
    /\ task \in [Procs -> TaskState]
    /\ scan \in SUBSET [job : Jobs, lastEvent : Age, claimAge : Age]
    /\ stuck \in SUBSET Jobs
    /\ silent \in BOOLEAN

-----------------------------------------------------------------------------
(* What holds.                                                              *)

\* Only the conditional UPDATE of claim_job names an engine, so a job that
\* waits in the queue belongs to nobody: what get_pending_jobs hands out is
\* unclaimed.
QueuedIsUnclaimed ==
    \A j \in Jobs : job[j].status = "queued" =>
        job[j].claimedBy = None /\ job[j].claimAge = "null"

\* claim_job's condition status = 'queued' makes the claim of a row final:
\* whatever claims, callbacks, failures and cancellations overlap, no second
\* engine is ever written over the first.
ClaimIsFinal ==
    [][\A j \in Jobs : job[j].claimedBy # None =>
          job'[j].claimedBy = job[j].claimedBy \/ job'[j] = Absent]_vars

\* No handler puts a job back into the queue: an engine never sees a job in
\* get_pending_jobs again once it has left it, not even after a restart.
NeverRequeued ==
    [][\A j \in Jobs : job'[j].status = "queued" =>
          job[j].status = "queued" \/ j \notin issued]_vars

\* A row says success only with the overall_result of that same final
\* callback, although log batches, failures and cancellations of the job may
\* have been half done when it arrived.
SuccessIsWhole ==
    \A j \in Jobs : job[j].status = "success" => job[j].overall = "success"

\* _fail_job_in_db locks the job row before it selects the running steps, and
\* every callback that starts a step writes that row too: when the failure
\* commits, no step a callback reported is left running.
FailSettlesSteps ==
    [][\A p \in Procs : FailCommit(p) =>
          \A s \in Steps \ {Clone} : steps'[task[p].job][s] # "running"]_vars

\* delete_pipeline removes the children with the job, and no handler that
\* read the job before can put a step or a log of it back.
DeleteIsComplete ==
    \A j \in Jobs : ~Present(j) =>
        ~heard[j] /\ \A s \in Steps : steps[j][s] = "none"

\* The reaper fails running jobs only: a job it saw running may have ended
\* since, but it never strikes one that still waits in the queue.
ReaperSparesQueued ==
    [][FailCommit(Reaper) => job[task[Reaper].job].status # "queued"]_vars

\* When the engines have died, every running job that has had an event is
\* failed by the reaper (or ended by a handler still in flight).
SilentJobEnds ==
    \A j \in Jobs :
        silent /\ job[j].status = "running" /\ job[j].lastEvent # "null"
            ~> job[j].status # "running"

\* Every request is answered, whatever requests keep arriving: handlers that lock
\* a step before the job (a batch, a save, a delete) and those that lock the job
\* before its steps (a failure) do not wait for each other forever, and no
\* waiter for an advisory or a row lock is left behind.
RequestsReturn == \A t \in Tasks : ~At(t, "idle") ~> At(t, "idle")

-----------------------------------------------------------------------------
(* The ledger this implements.                                              *)

\* What a reader of the job sees.
Seen(j) == [status |-> job[j].status, overall |-> job[j].overall, owner |-> job[j].claimedBy]

Ledger == INSTANCE JobLedger WITH record <- [j \in Jobs |-> Seen(j)]

\* However the transactions of the handlers overlap, fail or are cut off by a
\* restart, a reader sees the jobs change as JobLedger says: by whole claims,
\* completions, failures and removals, one at a time for each job.
ImplementsLedger == Ledger!Spec

-----------------------------------------------------------------------------
(* What the repository says and the code does not do.                       *)

\* ENGINE_INTEGRATION_GUIDE.md on claim_job: when several engines try to take
\* the same job, 409 is returned.  So one engine gets 200.
OneGrantPerJob == \A j \in Jobs : \A e, f \in granted[j] : e = f

\* receive_result answers "job already terminal", _fail_job_in_db moves "a
\* non-terminal job", cancel_pipeline refuses: "job is already <status>, cannot
\* cancel".  So a job that has ended keeps its status until it is deleted.
TerminalIsFinal ==
    [][\A j \in Jobs : job[j].status \in Terminal =>
          job'[j].status \in {job[j].status, "absent"}]_vars
=============================================================================
