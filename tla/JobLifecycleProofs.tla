------------------------- MODULE JobLifecycleProofs -------------------------
(* Proofs about JobLifecycle, for any number of jobs, requests and engines. *)
EXTENDS JobLifecycle, TLAPS

\* A handler that works on a job, claims for an engine or writes a step knows
\* which.
ArgsOK ==
    \A p \in Procs :
        /\ task[p].pc \notin {"idle", "create_insert", "count", "reap", "off"} => task[p].job \in Jobs
        /\ task[p].pc = "claim_write" => task[p].engine \in Engines
        /\ task[p].pc = "save_commit" => task[p].step \in Steps
        /\ task[p].pc \in {"log_job", "log_commit"} /\ (task[p].fresh \/ task[p].append)
             => task[p].step \in Steps

TypeInv == TypeOK /\ ArgsOK

\* A handler that remembers nothing is in its domain.
LEMMA IdleType ==
    /\ Idle \in TaskState /\ Idle.pc = "idle"
    /\ [Idle EXCEPT !.pc = "reap"] \in TaskState
    /\ [Idle EXCEPT !.pc = "off"] \in TaskState
  BY DEF Idle, TaskState, PC, JobStatus, Active, Terminal, Overall, Age,
         StepState, CallbackType

\* So is a row that does not exist.
LEMMA AbsentType == Absent \in JobRow /\ Absent.status = "absent"
  BY DEF Absent, JobRow, JobStatus, Active, Terminal, Overall, Age

\* The initial states are well typed.
LEMMA TypeInvInit == Init => TypeInv
  <1> SUFFICES ASSUME Init PROVE TypeInv
    OBVIOUS
  <1>1. task \in [Procs -> TaskState] /\ ArgsOK
    BY IdleType DEF Init, ArgsOK
  <1>2. job \in [Jobs -> JobRow]
    BY AbsentType DEF Init
  <1>3. steps \in [Jobs -> [Steps -> StepState]]
    BY DEF Init, StepState
  <1> QED
    BY <1>1, <1>2, <1>3 DEF Init, TypeInv, TypeOK

\* What a process may become keeps the types.
LEMMA BecomeType ==
    ASSUME TypeInv, NEW p \in Procs, NEW s \in TaskState, Become(p, s),
           s.pc \notin {"idle", "create_insert", "count", "reap", "off"} => s.job \in Jobs,
           s.pc = "claim_write" => s.engine \in Engines,
           s.pc = "save_commit" => s.step \in Steps,
           s.pc \in {"log_job", "log_commit"} /\ (s.fresh \/ s.append) => s.step \in Steps
    PROVE  task' \in [Procs -> TaskState] /\ ArgsOK'
  BY DEF TypeInv, TypeOK, ArgsOK, Become

\* A handler that returns keeps the types.
LEMMA ReturnType ==
    ASSUME TypeInv, NEW p \in Procs, Return(p)
    PROVE  task' \in [Procs -> TaskState] /\ ArgsOK'
  <1> DEFINE s == IF p = Reaper THEN [Idle EXCEPT !.pc = "reap"] ELSE Idle
  <1>1. s \in TaskState /\ s.pc \in {"idle", "reap"}
    BY IdleType DEF Idle
  <1>2. Become(p, s)
    BY DEF Return
  <1> QED
    BY <1>1, <1>2, BecomeType

\* The same when the job, step and engine of the process are kept.
LEMMA MoveType ==
    ASSUME TypeInv, NEW p \in Procs, NEW s \in TaskState, Become(p, s),
           task[p].job \in Jobs, s.job = task[p].job,
           s.pc # "claim_write",
           s.pc = "save_commit" => s.step \in Steps,
           s.pc \in {"log_job", "log_commit"} /\ (s.fresh \/ s.append) => s.step \in Steps
    PROVE  task' \in [Procs -> TaskState] /\ ArgsOK'
  BY BecomeType

\* So does one that loads a job to fail it.
LEMMA LoadForFailType ==
    ASSUME TypeInv, NEW p \in Procs, NEW j \in Jobs, LoadForFail(p, j)
    PROVE  task' \in [Procs -> TaskState] /\ ArgsOK'
  <1> DEFINE s == [Idle EXCEPT !.pc = "fail_select", !.job = j, !.overall = job[j].overall]
  <1>1. job[j].overall \in Overall
    BY DEF TypeInv, TypeOK, JobRow
  <1>2. s \in TaskState /\ s.pc = "fail_select" /\ s.job = j
    BY <1>1, IdleType DEF TaskState, PC, Idle
  <1> QED
    BY <1>2, BecomeType DEF LoadForFail

\* Starting a request.
LEMMA RequestType ==
    ASSUME TypeInv, NEW t \in Tasks, Request(t)
    PROVE  TypeInv'
  <1> USE DEF rows, reaperVars, TypeInv
  <1>t. t \in Procs
    BY DEF Procs
  <1>1. ASSUME NEW g \in Targets, CreateCheck(t, g) PROVE TypeInv'
    <2> DEFINE s == [Idle EXCEPT !.pc = "create_insert", !.target = g]
    <2>1. s \in TaskState /\ s.pc = "create_insert"
      BY IdleType DEF TaskState, PC, Idle
    <2>2. task' \in [Procs -> TaskState] /\ ArgsOK'
      BY <1>1, <1>t, <2>1, BecomeType DEF CreateCheck
    <2> QED
      BY <1>1, <2>2 DEF CreateCheck, TypeOK
  <1>2. ASSUME NEW j \in Jobs, NEW e \in Engines, ClaimRead(t, e, j) PROVE TypeInv'
    <2> DEFINE s == [Idle EXCEPT !.pc = "claim_write", !.job = j, !.engine = e]
    <2>1. s \in TaskState /\ s.pc = "claim_write" /\ s.job = j /\ s.engine = e
      BY IdleType DEF TaskState, PC, Idle
    <2>2. task' \in [Procs -> TaskState] /\ ArgsOK'
      BY <1>2, <1>t, <2>1, BecomeType DEF ClaimRead
    <2> QED
      BY <1>2, <2>2 DEF ClaimRead, TypeOK
  <1>3. ASSUME NEW j \in Jobs, NEW type \in CallbackType, Callback(t, j, type)
        PROVE TypeInv'
    <2> DEFINE s == [Idle EXCEPT !.pc = EnsureStep(j), !.job = j, !.type = type]
    <2>1. EnsureStep(j) \in {"terminal_check", "ensure_insert"}
      BY DEF EnsureStep
    <2>2. s \in TaskState /\ s.pc = EnsureStep(j) /\ s.job = j
      BY <2>1, IdleType DEF TaskState, PC, Idle
    <2>3. task' \in [Procs -> TaskState] /\ ArgsOK'
      BY <1>3, <1>t, <2>1, <2>2, BecomeType DEF Callback
    <2> QED
      BY <1>3, <2>3 DEF Callback, TypeOK
  <1>4. ASSUME NEW j \in Jobs, FailRead(t, j) PROVE TypeInv'
    <2>1. task' \in [Procs -> TaskState] /\ ArgsOK'
      BY <1>4, <1>t, LoadForFailType DEF FailRead
    <2> QED
      BY <1>4, <2>1 DEF FailRead, TypeOK
  <1>5. ASSUME NEW j \in Jobs, NEW label \in {"cancel_write", "delete_write"},
               Become(t, [Idle EXCEPT !.pc = label, !.job = j]),
               UNCHANGED <<rows, granted, reaperVars, silent>>
        PROVE TypeInv'
    <2> DEFINE s == [Idle EXCEPT !.pc = label, !.job = j]
    <2>1. s \in TaskState /\ s.pc = label /\ s.job = j
      BY IdleType DEF TaskState, PC, Idle
    <2>2. task' \in [Procs -> TaskState] /\ ArgsOK'
      BY <1>5, <1>t, <2>1, BecomeType
    <2> QED
      BY <1>5, <2>2 DEF TypeOK
  <1> QED
    BY <1>1, <1>2, <1>3, <1>4, <1>5 DEF Request, CancelRead, DeleteRead

\* Writing a row.
LEMMA RowTypes ==
    ASSUME TypeInv, NEW j \in Jobs
    PROVE  /\ \A e \in Engines : Claimed(j, e) \in JobRow
           /\ AutoCreated \in JobRow
           /\ \A age \in Age : QueuedRow(age) \in JobRow
           /\ \A seen : LoggedRow(j, seen) \in JobRow
           /\ \A o : FailedRow(j, o) \in JobRow
           /\ \A final \in {"success", "failed", "running"}, age \in Age :
                FinalRow(j, final, age) \in JobRow
           /\ CancelledRow(j) \in JobRow
           /\ Touched(j) \in JobRow
  <1>1. job[j] \in JobRow
    BY DEF TypeInv, TypeOK
  <1>2. AutoCreated \in JobRow /\ \A age \in Age : QueuedRow(age) \in JobRow
    BY AbsentType DEF AutoCreated, QueuedRow, JobRow, JobStatus, Active
  <1>3. \A e \in Engines : Claimed(j, e) \in JobRow
    BY <1>1 DEF Claimed, JobRow, JobStatus, Active, Age
  <1>4. \A seen : LoggedRow(j, seen) \in JobRow
    BY <1>1 DEF LoggedRow, JobRow, JobStatus, Active, Age
  <1>5. \A o : FailedRow(j, o) \in JobRow
    BY <1>1 DEF FailedRow, JobRow, JobStatus, Terminal, Age, Overall
  <1>6. \A final \in {"success", "failed", "running"}, age \in Age :
          FinalRow(j, final, age) \in JobRow
    BY <1>1 DEF FinalRow, Verdict, JobRow, JobStatus, Active, Terminal, Overall
  <1>7. CancelledRow(j) \in JobRow /\ Touched(j) \in JobRow
    BY <1>1 DEF CancelledRow, Touched, JobRow, JobStatus, Terminal, Age
  <1> QED
    BY <1>2, <1>3, <1>4, <1>5, <1>6, <1>7

\* One entry of the step table is rewritten.
LEMMA StepType ==
    ASSUME TypeInv, NEW j \in Jobs, NEW s \in Steps, NEW v \in StepState
    PROVE  [steps EXCEPT ![j][s] = v] \in [Jobs -> [Steps -> StepState]]
  BY DEF TypeInv, TypeOK

\* A job is inserted.
LEMMA InsertType ==
    ASSUME TypeInv, NEW j \in Jobs, NEW row \in JobRow, Insert(j, row)
    PROVE  job' \in [Jobs -> JobRow] /\ issued' \in SUBSET Jobs
  BY DEF Insert, TypeInv, TypeOK

\* A callback keeps its job for the deployment snapshot.
LEMMA ToSnapshotType ==
    ASSUME TypeInv, NEW p \in Procs, ToSnapshot(p), task[p].job \in Jobs
    PROVE  task' \in [Procs -> TaskState] /\ ArgsOK'
  <1> DEFINE s == [Idle EXCEPT !.pc = "snapshot", !.job = task[p].job]
  <1>1. s \in TaskState /\ s.pc = "snapshot" /\ s.job = task[p].job
    BY IdleType DEF TaskState, PC, Idle
  <1> QED
    BY <1>1, BecomeType DEF ToSnapshot

\* A step of a callback is done.
LEMMA AfterSaveType ==
    ASSUME TypeInv, NEW t \in Procs, AfterSave(t), task[t].job \in Jobs
    PROVE  task' \in [Procs -> TaskState] /\ ArgsOK'
  <1>1. CASE task[t].type = "step_complete"
    BY <1>1, ToSnapshotType DEF AfterSave
  <1>2. CASE task[t].type # "step_complete"
    <2> DEFINE s == [task[t] EXCEPT !.pc = "save_step", !.step = None, !.state = "none",
                                    !.fresh = FALSE, !.todo = @ \ {task[t].step}]
    <2>1. /\ task[t] \in TaskState
          /\ "save_step" \in PC /\ "none" \in StepState
          /\ task[t].todo \ {task[t].step} \in SUBSET Steps
      BY DEF TypeInv, TypeOK, TaskState, PC, StepState
    <2>2. s \in TaskState /\ s.pc = "save_step" /\ s.job = task[t].job
      BY <2>1 DEF TaskState
    <2> QED
      BY <1>2, <2>2, MoveType DEF AfterSave
  <1> QED
    BY <1>1, <1>2

\* A callback moves on without forgetting its job.
LEMMA GotoType ==
    ASSUME TypeInv, NEW p \in Procs, task[p].job \in Jobs,
           NEW label \in {"terminal_check", "log_step", "save_step", "finalize"},
           Goto(p, label)
    PROVE  task' \in [Procs -> TaskState] /\ ArgsOK'
  <1> DEFINE s == [task[p] EXCEPT !.pc = label]
  <1>1. s \in TaskState /\ s.pc = label /\ s.job = task[p].job
    <2>1. label \in PC /\ task[p] \in TaskState
      BY DEF TypeInv, TypeOK, PC
    <2> QED
      BY <2>1 DEF TaskState
  <1>2. Become(p, s)
    BY DEF Goto, Become, TypeInv, TypeOK
  <1> QED
    BY <1>1, <1>2, MoveType

\* Where the terminal check leads.
LEMMA BodyType ==
    \A type \in CallbackType : Body[type] \in {"log_step", "save_step", "finalize"}
  BY DEF CallbackType, Body

\* A request in flight.
LEMMA ProceedType ==
    ASSUME TypeInv, NEW t \in Tasks, Proceed(t)
    PROVE  TypeInv'
  <1> DEFINE j == task[t].job
  <1> USE CloneAssumption DEF rows, reaperVars, TypeInv
  <1>t. t \in Procs /\ task[t] \in TaskState
    BY DEF Procs, TypeOK
  <1>a. task[t].pc \notin {"idle", "create_insert", "count", "reap", "off"} => j \in Jobs
    BY <1>t DEF ArgsOK
  <1>1. CASE CreateInsert(t)
    <2>1. task' \in [Procs -> TaskState] /\ ArgsOK'
      BY <1>1, <1>t, ReturnType DEF CreateInsert
    <2>2. job' \in [Jobs -> JobRow] /\ issued' \in SUBSET Jobs
      <3>1. CASE UNCHANGED <<job, issued>>
        BY <3>1 DEF TypeOK
      <3>2. CASE \E k \in FreshIds(task[t].target) : Insert(k, QueuedRow("fresh"))
        <4>1. PICK k \in Jobs : Insert(k, QueuedRow("fresh"))
          BY <3>2 DEF FreshIds
        <4>2. QueuedRow("fresh") \in JobRow
          BY <4>1, RowTypes DEF Age
        <4> QED
          BY <4>1, <4>2, InsertType
      <3> QED
        BY <1>1, <3>1, <3>2 DEF CreateInsert
    <2> QED
      BY <1>1, <2>1, <2>2 DEF CreateInsert, TypeOK
  <1>2. CASE ClaimWrite(t)
    <2>1. task' \in [Procs -> TaskState] /\ ArgsOK'
      BY <1>2, <1>t, ReturnType DEF ClaimWrite
    <2>2. j \in Jobs /\ task[t].engine \in Engines
      BY <1>2, <1>a, <1>t DEF ClaimWrite, At, ArgsOK
    <2>3. Claimed(j, task[t].engine) \in JobRow
      BY <2>2, RowTypes
    <2>4. steps' \in [Jobs -> [Steps -> StepState]]
      <3>1. steps[j][Clone] \in StepState /\ Started(steps[j][Clone]) \in StepState
        BY <2>2 DEF TypeOK, Started, StepState
      <3>2. [steps EXCEPT ![j][Clone] = Started(steps[j][Clone])]
              \in [Jobs -> [Steps -> StepState]]
        BY <2>2, <3>1, StepType
      <3>3. \/ steps' = steps
            \/ steps' = [steps EXCEPT ![j][Clone] = Started(steps[j][Clone])]
        BY <1>2 DEF ClaimWrite
      <3> QED
        BY <3>2, <3>3 DEF TypeOK
    <2>5. job' \in [Jobs -> JobRow]
      BY <1>2, <2>2, <2>3 DEF ClaimWrite, TypeOK
    <2>6. granted' \in [Jobs -> SUBSET Engines]
      BY <1>2, <2>2 DEF ClaimWrite, TypeOK
    <2> QED
      BY <1>2, <2>1, <2>4, <2>5, <2>6 DEF ClaimWrite, TypeOK
  <1>3. CASE EnsureInsert(t)
    <2>1. j \in Jobs
      BY <1>3, <1>a DEF EnsureInsert, At
    <2>2. task' \in [Procs -> TaskState] /\ ArgsOK'
      BY <1>3, <1>t, <2>1, GotoType DEF EnsureInsert
    <2>3. job' \in [Jobs -> JobRow] /\ issued' \in SUBSET Jobs
      <3>1. CASE Present(j)
        BY <1>3, <3>1 DEF EnsureInsert, TypeOK
      <3>2. CASE ~Present(j)
        BY <1>3, <2>1, <3>2, RowTypes, InsertType DEF EnsureInsert
      <3> QED
        BY <3>1, <3>2
    <2> QED
      BY <1>3, <2>2, <2>3 DEF EnsureInsert, TypeOK
  <1>4. CASE TerminalCheck(t)
    <2>1. j \in Jobs /\ task[t].type \in CallbackType
      BY <1>4, <1>a, <1>t DEF TerminalCheck, At, TaskState
    <2>2. task' \in [Procs -> TaskState] /\ ArgsOK'
      <3>1. Body[task[t].type] \in {"log_step", "save_step", "finalize"}
        BY <2>1, BodyType
      <3> QED
        BY <1>4, <1>t, <2>1, <3>1, GotoType, ReturnType DEF TerminalCheck
    <2> QED
      BY <1>4, <2>2 DEF TerminalCheck, TypeOK
  <1>5. ASSUME NEW s \in Steps, LogStep(t, s) PROVE TypeInv'
    <2>1. j \in Jobs
      BY <1>5, <1>a DEF LogStep, At
    <2>2. task' \in [Procs -> TaskState] /\ ArgsOK'
      <3>1. CASE Return(t)
        BY <3>1, <1>t, ReturnType
      <3>2. ASSUME NEW a \in BOOLEAN, NEW f \in BOOLEAN,
                   Become(t, [task[t] EXCEPT !.pc = "log_job", !.step = s,
                                             !.fresh = f, !.append = a])
            PROVE task' \in [Procs -> TaskState] /\ ArgsOK'
        <4> DEFINE r == [task[t] EXCEPT !.pc = "log_job", !.step = s,
                                        !.fresh = f, !.append = a]
        <4>1. r \in TaskState /\ r.pc = "log_job" /\ r.job = j /\ r.step = s
          BY <1>t DEF TaskState, PC
        <4> QED
          BY <3>2, <4>1, <1>t, <2>1, MoveType
      <3>3. (steps[j][s] = "none") \in BOOLEAN
        OBVIOUS
      <3> QED
        BY <1>5, <3>1, <3>2, <3>3 DEF LogStep
    <2> QED
      BY <1>5, <2>2 DEF LogStep, TypeOK
  <1>6. CASE LogJob(t)
    <2>1. /\ j \in Jobs
          /\ task[t].fresh \/ task[t].append => task[t].step \in Steps
      BY <1>6, <1>a, <1>t DEF LogJob, At, ArgsOK
    <2> DEFINE r == [task[t] EXCEPT !.pc = "log_commit", !.seen = job[j].status]
    <2>2. job[j].status \in JobStatus \cup {"absent"}
      BY <2>1 DEF TypeOK, JobRow
    <2>3. /\ r \in TaskState /\ r.pc = "log_commit" /\ r.job = j
          /\ r.step = task[t].step /\ r.fresh = task[t].fresh /\ r.append = task[t].append
      BY <1>t, <2>2 DEF TaskState, PC
    <2>4. task' \in [Procs -> TaskState] /\ ArgsOK'
      <3>1. CASE Return(t)
        BY <1>t, <3>1, ReturnType
      <3>2. CASE Become(t, r)
        BY <3>2, <1>t, <2>1, <2>3, MoveType
      <3> QED
        BY <1>6, <3>1, <3>2 DEF LogJob
    <2> QED
      BY <1>6, <2>4 DEF LogJob, TypeOK
  <1>15. CASE LogNothing(t)
    <2>1. j \in Jobs
      BY <1>15, <1>a DEF LogNothing, At
    <2> DEFINE r == [Idle EXCEPT !.pc = "log_commit", !.job = j, !.seen = job[j].status]
    <2>3. job[j].status \in JobStatus \cup {"absent"}
      BY <2>1 DEF TypeOK, JobRow
    <2>2. r \in TaskState /\ r.pc = "log_commit" /\ r.job = j /\ ~r.fresh /\ ~r.append
      BY <2>1, <2>3, IdleType DEF TaskState, PC, Idle
    <2>4. task' \in [Procs -> TaskState] /\ ArgsOK'
      BY <1>15, <1>t, <2>1, <2>2, BecomeType DEF LogNothing
    <2> QED
      BY <1>15, <2>4 DEF LogNothing, TypeOK
  <1>7. CASE LogCommit(t)
    <2>1. /\ j \in Jobs /\ task[t].append \in BOOLEAN
          /\ task[t].fresh => task[t].step \in Steps
      BY <1>7, <1>a, <1>t DEF LogCommit, At, ArgsOK, TaskState
    <2>2. task' \in [Procs -> TaskState] /\ ArgsOK'
      BY <1>7, <1>t, ReturnType DEF LogCommit
    <2>3. LoggedRow(j, task[t].seen) \in JobRow
      BY <2>1, RowTypes
    <2>4. steps' \in [Jobs -> [Steps -> StepState]]
      <3>1. \/ steps' = steps
            \/ /\ task[t].fresh
               /\ steps' = [steps EXCEPT ![j][task[t].step] = "running"]
        BY <1>7 DEF LogCommit
      <3>2. task[t].fresh =>
              [steps EXCEPT ![j][task[t].step] = "running"] \in [Jobs -> [Steps -> StepState]]
        BY <2>1, StepType DEF StepState
      <3> QED
        BY <3>1, <3>2 DEF TypeOK
    <2> QED
      BY <1>7, <2>1, <2>2, <2>3, <2>4 DEF LogCommit, TypeOK
  <1>8. ASSUME NEW s \in Steps, NEW state \in Reported, SaveStep(t, s, state)
        PROVE TypeInv'
    <2>1. j \in Jobs
      BY <1>8, <1>a DEF SaveStep, At
    <2>2. task' \in [Procs -> TaskState] /\ ArgsOK'
      <3>1. CASE ToSnapshot(t)
        BY <3>1, <1>t, <2>1, ToSnapshotType
      <3>2. CASE Become(t, [task[t] EXCEPT !.pc = "save_commit", !.step = s, !.state = state,
                                           !.fresh = (steps[j][s] = "none")])
        <4> DEFINE r == [task[t] EXCEPT !.pc = "save_commit", !.step = s, !.state = state,
                                        !.fresh = (steps[j][s] = "none")]
        <4>1. r \in TaskState /\ r.pc = "save_commit" /\ r.job = j /\ r.step = s
          BY <1>t, ReportedAssumption DEF TaskState, PC, StepState
        <4> QED
          BY <3>2, <4>1, <1>t, <2>1, MoveType
      <3>3. CASE Become(t, [task[t] EXCEPT !.todo = @ \ {s}])
        <4> DEFINE r == [task[t] EXCEPT !.todo = @ \ {s}]
        <4>1. r \in TaskState /\ r.pc = task[t].pc /\ r.job = j /\ r.pc = "save_step"
          BY <1>8, <1>t DEF TaskState, SaveStep, At
        <4> QED
          BY <3>3, <4>1, <1>t, <2>1, MoveType
      <3> QED
        BY <1>8, <3>1, <3>2, <3>3 DEF SaveStep
    <2> QED
      BY <1>8, <2>2 DEF SaveStep, TypeOK
  <1>9. CASE SaveCommit(t)
    <2>1. j \in Jobs /\ task[t].step \in Steps /\ task[t].state \in StepState
      BY <1>9, <1>a, <1>t DEF SaveCommit, At, ArgsOK, TaskState
    <2>2. task' \in [Procs -> TaskState] /\ ArgsOK'
      BY <1>9, <1>t, <2>1, AfterSaveType DEF SaveCommit
    <2>3. job' \in [Jobs -> JobRow]
      BY <1>9, <2>1, RowTypes DEF SaveCommit, TypeOK
    <2>4. heard' \in [Jobs -> BOOLEAN]
      BY <1>9, <2>1 DEF SaveCommit, TypeOK
    <2>5. steps' \in [Jobs -> [Steps -> StepState]]
      BY <1>9, <2>1, StepType DEF SaveCommit
    <2> QED
      BY <1>9, <2>2, <2>3, <2>4, <2>5 DEF SaveCommit, TypeOK
  <1>10. CASE NoStep(t) \/ SaveParsed(t)
    <2>1. j \in Jobs
      BY <1>10, <1>a DEF NoStep, SaveParsed, At
    <2>2. task' \in [Procs -> TaskState] /\ ArgsOK'
      BY <1>10, <1>t, <2>1, ToSnapshotType DEF NoStep, SaveParsed
    <2>3. heard' \in [Jobs -> BOOLEAN]
      BY <1>10, <2>1 DEF NoStep, SaveParsed, TypeOK
    <2> QED
      BY <1>10, <2>2, <2>3 DEF NoStep, SaveParsed, TypeOK
  <1>14. CASE Snapshot(t)
    <2>1. j \in Jobs
      BY <1>14, <1>a DEF Snapshot, At
    <2>2. task' \in [Procs -> TaskState] /\ ArgsOK'
      BY <1>14, <1>t, ReturnType DEF Snapshot
    <2>3. job' \in [Jobs -> JobRow]
      BY <1>14, <2>1, RowTypes DEF Snapshot, TypeOK
    <2> QED
      BY <1>14, <2>2, <2>3 DEF Snapshot, TypeOK
  <1>11. ASSUME NEW final \in Finals, NEW age \in Ends, NEW todo \in SUBSET Steps,
                Finalize(t, final, age, todo)
         PROVE TypeInv'
    <2>1. j \in Jobs /\ final \in {"success", "failed", "running"} /\ age \in {"fresh", "old"}
      BY <1>11, <1>a, FinalsAssumption DEF Finalize, At
    <2> DEFINE r == [task[t] EXCEPT !.pc = "save_step", !.todo = todo]
    <2>2. r \in TaskState /\ r.pc = "save_step" /\ r.job = j
      BY <1>t DEF TaskState, PC
    <2>3. task' \in [Procs -> TaskState] /\ ArgsOK'
      BY <1>11, <1>t, <2>1, <2>2, MoveType DEF Finalize
    <2>4. job' \in [Jobs -> JobRow]
      BY <1>11, <2>1, RowTypes DEF Finalize, TypeOK, Age
    <2> QED
      BY <1>11, <2>3, <2>4 DEF Finalize, TypeOK
  <1>12. CASE CancelWrite(t)
    <2>1. j \in Jobs
      BY <1>12, <1>a DEF CancelWrite, At
    <2>2. task' \in [Procs -> TaskState] /\ ArgsOK'
      BY <1>12, <1>t, ReturnType DEF CancelWrite
    <2>3. job' \in [Jobs -> JobRow]
      BY <1>12, <2>1, RowTypes DEF CancelWrite, TypeOK
    <2> QED
      BY <1>12, <2>2, <2>3 DEF CancelWrite, TypeOK
  <1>13. CASE DeleteWrite(t)
    <2>1. task' \in [Procs -> TaskState] /\ ArgsOK'
      BY <1>13, <1>t, ReturnType DEF DeleteWrite
    <2> QED
      BY <1>13, <2>1, AbsentType DEF DeleteWrite, TypeOK, StepState
  <1>16. ASSUME NEW s \in Steps, DeleteStep(t, s)
         PROVE TypeInv'
    <2>1. j \in Jobs
      BY <1>16, <1>a DEF DeleteStep, At
    <2> DEFINE r == [task[t] EXCEPT !.todo = @ \cup {s}]
    <2>2. r \in TaskState /\ r.pc = "delete_write" /\ r.job = j
      BY <1>16, <1>t DEF TaskState, DeleteStep, At
    <2>3. task' \in [Procs -> TaskState] /\ ArgsOK'
      BY <1>16, <1>t, <2>1, <2>2, MoveType DEF DeleteStep
    <2> QED
      BY <1>16, <2>3 DEF DeleteStep, TypeOK
  <1> QED
    BY <1>1, <1>2, <1>3, <1>4, <1>5, <1>6, <1>7, <1>8, <1>9, <1>10, <1>11,
       <1>12, <1>13, <1>14, <1>15, <1>16 DEF Proceed

\* _fail_job_in_db.
LEMMA FailType ==
    ASSUME TypeInv, NEW p \in Procs, Fail(p)
    PROVE  TypeInv'
  <1> DEFINE j == task[p].job
  <1> USE DEF rows, reaperVars, TypeInv
  <1>t. task[p] \in TaskState
    BY DEF TypeOK
  <1>a. task[p].pc \in {"fail_select", "fail_commit"} => j \in Jobs
    BY <1>t DEF ArgsOK
  <1>1. CASE FailSelect(p)
    <2>1. j \in Jobs
      BY <1>1, <1>a DEF FailSelect, At
    <2> DEFINE running == {s \in Steps : steps[j][s] = "running"}
               r == [task[p] EXCEPT !.pc = "fail_commit", !.todo = running]
    <2>2. r \in TaskState /\ r.pc = "fail_commit" /\ r.job = j
      <3>1. running \in SUBSET Steps
        OBVIOUS
      <3> QED
        BY <1>t, <3>1 DEF TaskState, PC
    <2>3. Return(p) \/ Become(p, r)
      BY <1>1 DEF FailSelect
    <2>4. task' \in [Procs -> TaskState] /\ ArgsOK'
      BY <2>1, <2>2, <2>3, MoveType, ReturnType
    <2> QED
      BY <1>1, <2>4 DEF FailSelect, TypeOK
  <1>2. CASE FailCommit(p)
    <2>1. j \in Jobs
      BY <1>2, <1>a DEF FailCommit, At
    <2>2. task' \in [Procs -> TaskState] /\ ArgsOK'
      BY <1>2, ReturnType DEF FailCommit
    <2>3. job' \in [Jobs -> JobRow]
      BY <1>2, <2>1, RowTypes DEF FailCommit, TypeOK
    <2>4. steps' \in [Jobs -> [Steps -> StepState]]
      BY <1>2, <2>1 DEF FailCommit, TypeOK, StepState
    <2> QED
      BY <1>2, <2>2, <2>3, <2>4 DEF FailCommit, TypeOK
  <1> QED
    BY <1>1, <1>2 DEF Fail

\* A transaction rolled back.
LEMMA RollbackType ==
    ASSUME TypeInv, NEW p \in Procs, Rollback(p)
    PROVE  TypeInv'
  <1> USE DEF rows, reaperVars, TypeInv
  <1>1. task[p].type \in CallbackType
    BY DEF TypeOK, TaskState
  <1>2. task' \in [Procs -> TaskState] /\ ArgsOK'
    <2>1. CASE At(p, "ensure_insert")
      <3>1. task[p].job \in Jobs
        BY <2>1 DEF At, ArgsOK
      <3> QED
        BY <2>1, <3>1, GotoType DEF Rollback, At
    <2>2. CASE At(p, "terminal_check")
      <3>1. task[p].job \in Jobs
        BY <2>2 DEF At, ArgsOK
      <3>2. Body[task[p].type] \in {"log_step", "save_step", "finalize"}
        BY <1>1, BodyType
      <3> QED
        BY <2>2, <3>1, <3>2, GotoType DEF Rollback, At
    <2>3. CASE At(p, "save_commit")
      <3>1. task[p].job \in Jobs
        BY <2>3 DEF At, ArgsOK
      <3> QED
        BY <2>3, <3>1, AfterSaveType DEF Rollback, At
    <2>4. CASE At(p, "finalize")
      <3>1. task[p].job \in Jobs
        BY <2>4 DEF At, ArgsOK
      <3> QED
        BY <2>4, <3>1, GotoType DEF Rollback, At
    <2>5. CASE task[p].pc \notin {"ensure_insert", "terminal_check", "finalize", "save_commit"}
      BY <2>5, ReturnType DEF Rollback, At
    <2> QED
      BY <2>1, <2>2, <2>3, <2>4, <2>5 DEF At
  <1> QED
    BY <1>2 DEF Rollback, TypeOK

\* The reaper.
LEMMA ReapType ==
    ASSUME TypeInv, Reap
    PROVE  TypeInv'
  <1> USE DEF rows, reaperVars, TypeInv
  <1>r. Reaper \in Procs /\ task[Reaper] \in TaskState
    BY DEF Procs, TypeOK
  <1>1. CASE ReaperScan
    <2>1. Suspects \in SUBSET [job : Jobs, lastEvent : Age, claimAge : Age]
      BY DEF Suspects, TypeOK, JobRow
    <2>2. task' \in [Procs -> TaskState] /\ ArgsOK'
      BY <1>1, <1>r DEF ReaperScan, Goto, TypeOK, TaskState, PC, ArgsOK
    <2> QED
      BY <1>1, <2>1, <2>2 DEF ReaperScan, TypeOK
  <1>2. CASE ReaperCount
    <2>1. task' \in [Procs -> TaskState] /\ ArgsOK'
      <3>1. CASE Goto(Reaper, "reap")
        BY <3>1, <1>r DEF Goto, TypeOK, TaskState, PC, ArgsOK
      <3>2. CASE UNCHANGED task
        BY <3>2 DEF TypeOK, ArgsOK
      <3> QED
        BY <1>2, <3>1, <3>2 DEF ReaperCount
    <2> QED
      BY <1>2, <2>1 DEF ReaperCount, TypeOK
  <1>3. CASE ReaperSleep
    <2>1. task' \in [Procs -> TaskState] /\ ArgsOK'
      BY <1>3, <1>r, IdleType, BecomeType DEF ReaperSleep
    <2> QED
      BY <1>3, <2>1 DEF ReaperSleep, TypeOK
  <1>4. ASSUME NEW j \in Jobs, ReaperFail(j) PROVE TypeInv'
    <2>1. CASE LoadForFail(Reaper, j)
      BY <1>4, <1>r, <2>1, LoadForFailType DEF ReaperFail, TypeOK
    <2>2. CASE UNCHANGED task
      BY <1>4, <2>2 DEF ReaperFail, TypeOK, ArgsOK
    <2> QED
      BY <1>4, <2>1, <2>2 DEF ReaperFail
  <1> QED
    BY <1>1, <1>2, <1>3, <1>4 DEF Reap

\* Every step keeps the types.
LEMMA TypeInvNext == TypeInv /\ [Next]_vars => TypeInv'
  <1> SUFFICES ASSUME TypeInv, [Next]_vars PROVE TypeInv'
    OBVIOUS
  <1> USE DEF rows, reaperVars
  <1>1. ASSUME NEW g \in Targets, StartPipeline(g) PROVE TypeInv'
    <2>1. PICK j \in Jobs : Insert(j, QueuedRow("fresh"))
      BY <1>1 DEF StartPipeline, FreshIds
    <2>2. job' \in [Jobs -> JobRow] /\ issued' \in SUBSET Jobs
      BY <2>1, InsertType, RowTypes DEF Age
    <2> QED
      BY <1>1, <2>2 DEF StartPipeline, TypeInv, TypeOK, ArgsOK
  <1>2. ASSUME NEW i \in Jobs, EnqueueFollowUp(i) PROVE TypeInv'
    <2>1. PICK j \in Jobs : Insert(j, QueuedRow("null"))
      BY <1>2 DEF EnqueueFollowUp, FreshIds
    <2>2. job' \in [Jobs -> JobRow] /\ issued' \in SUBSET Jobs
      BY <2>1, InsertType, RowTypes DEF Age
    <2> QED
      BY <1>2, <2>2 DEF EnqueueFollowUp, TypeInv, TypeOK, ArgsOK
  <1>3. ASSUME NEW j \in Jobs, EventAges(j) \/ ClaimAges(j) PROVE TypeInv'
    <2>1. PICK row \in JobRow : job' = [job EXCEPT ![j] = row]
      <3>1. /\ [job[j] EXCEPT !.lastEvent = "old"] \in JobRow
            /\ [job[j] EXCEPT !.claimAge = "old"] \in JobRow
        BY DEF TypeInv, TypeOK, JobRow, Age
      <3> QED
        BY <1>3, <3>1 DEF EventAges, ClaimAges
    <2>2. job' \in [Jobs -> JobRow]
      BY <2>1 DEF TypeInv, TypeOK
    <2> QED
      BY <1>3, <2>2 DEF EventAges, ClaimAges, TypeInv, TypeOK, ArgsOK
  <1>4. ASSUME NEW t \in Tasks, Request(t) \/ Proceed(t) PROVE TypeInv'
    BY <1>4, RequestType, ProceedType
  <1>5. ASSUME NEW p \in Procs, Fail(p) \/ DeadlockVictim(p) \/ DbError(p)
        PROVE TypeInv'
    BY <1>5, FailType, RollbackType DEF DeadlockVictim, DbError
  <1>6. CASE Reap
    BY <1>6, ReapType
  <1>7. CASE ReaperError
    <2>1. task' \in [Procs -> TaskState] /\ ArgsOK'
      BY <1>7, IdleType, BecomeType DEF ReaperError, Procs
    <2> QED
      BY <1>7, <2>1 DEF ReaperError, TypeInv, TypeOK
  <1>8. CASE Restart
    <2>1. \A p \in Procs :
            task'[p] \in TaskState /\ task'[p].pc \in {"idle", "off"}
      BY <1>8, IdleType DEF Restart, Idle
    <2>2. task' \in [Procs -> TaskState] /\ ArgsOK'
      BY <1>8, <2>1 DEF Restart, ArgsOK
    <2> QED
      BY <1>8, <2>2 DEF Restart, TypeInv, TypeOK
  <1>9. CASE EnginesDie
    BY <1>9 DEF EnginesDie, TypeInv, TypeOK, ArgsOK
  <1>10. CASE UNCHANGED vars
    BY <1>10 DEF vars, TypeInv, TypeOK, ArgsOK
  <1> QED
    BY <1>1, <1>2, <1>3, <1>4, <1>5, <1>6, <1>7, <1>8, <1>9, <1>10 DEF Next

\* Every variable stays in its domain, whatever handlers overlap.
THEOREM TypeCorrect == Spec => []TypeOK
  <1>1. Spec => []TypeInv
    BY TypeInvInit, TypeInvNext, PTL DEF Spec
  <1>2. TypeInv => TypeOK
    BY DEF TypeInv
  <1> QED
    BY <1>1, <1>2, PTL

-----------------------------------------------------------------------------
(* The rows.  Every step changes a row of pipeline_jobs in one of a few ways  *)
(* (RowStep), from which its invariants follow without looking at the         *)
(* handlers again.                                                            *)

\* The transactions that keep a job's row in place until they commit.
HolderPC == {"fail_commit", "save_commit", "log_job", "log_commit"}
Holds(p, j) ==
    /\ task[p].job = j
    /\ \/ task[p].pc \in {"fail_commit", "save_commit"}
       \/ task[p].pc \in {"log_job", "log_commit"} /\ task[p].fresh

HolderInv == \A p \in Procs, j \in Jobs : Holds(p, j) => Present(j)

RowInv ==
    \A j \in Jobs :
        /\ job[j].status = "queued" => job[j].claimedBy = None /\ job[j].claimAge = "null"
        /\ job[j].status = "success" => job[j].overall = "success"
        /\ job[j].status = "absent" => job[j] = Absent
        /\ Present(j) => j \in issued

JobInv == TypeInv /\ RowInv /\ HolderInv

RowStep(j) ==
    \/ job'[j] \in {job[j], Absent}
    \/ j \notin issued /\ j \in issued' /\ \E age \in Age : job'[j] = QueuedRow(age)
    \/ \E e \in Engines : job'[j] = Claimed(j, e)
    \/ ~Present(j) /\ j \in issued' /\ job'[j] = AutoCreated
    \/ /\ Present(j)
       /\ \/ \E seen : job'[j] = LoggedRow(j, seen)
          \/ \E final \in {"success", "failed", "running"}, age \in Age :
                job'[j] = FinalRow(j, final, age)
          \/ \E o : job'[j] = FailedRow(j, o)
          \/ job'[j] \in {Touched(j), CancelledRow(j)}
    \/ job[j].lastEvent = "fresh" /\ job'[j] = [job[j] EXCEPT !.lastEvent = "old"]
    \/ job[j].claimAge = "fresh" /\ job'[j] = [job[j] EXCEPT !.claimAge = "old"]

\* One handler writes one row.
LEMMA OneRow ==
    ASSUME TypeInv, NEW i, NEW row, job' = [job EXCEPT ![i] = row], NEW j \in Jobs
    PROVE  job'[j] = IF i = j THEN row ELSE job[j]
  BY DEF TypeInv, TypeOK

\* Each handler changes a row in one of the ways RowStep names.
LEMMA RowStepProceed ==
    ASSUME JobInv, NEW t \in Tasks, Proceed(t), NEW j \in Jobs
    PROVE  RowStep(j)
  <1> DEFINE i == task[t].job
  <1> USE DEF JobInv
  <1>t. t \in Procs /\ task[t] \in TaskState
    BY DEF Procs, TypeInv, TypeOK
  <1>a. task[t].pc \notin {"idle", "create_insert", "count", "reap", "off"} => i \in Jobs
    BY <1>t DEF TypeInv, ArgsOK
  <1>1. CASE CreateInsert(t)
    <2>1. CASE UNCHANGED <<job, issued>>
      BY <2>1 DEF RowStep
    <2>2. CASE \E k \in FreshIds(task[t].target) : Insert(k, QueuedRow("fresh"))
      <3>1. PICK k \in Jobs \ issued : Insert(k, QueuedRow("fresh"))
        BY <2>2 DEF FreshIds
      <3>2. job' = [job EXCEPT ![k] = QueuedRow("fresh")] /\ k \in issued'
        BY <3>1 DEF Insert
      <3> QED
        BY <3>1, <3>2, OneRow DEF RowStep, Age
    <2> QED
      BY <1>1, <2>1, <2>2 DEF CreateInsert
  <1>2. CASE ClaimWrite(t)
    <2>1. task[t].engine \in Engines
      BY <1>2, <1>t DEF ClaimWrite, At, TypeInv, ArgsOK
    <2>2. job' = job \/ job' = [job EXCEPT ![i] = Claimed(i, task[t].engine)]
      BY <1>2 DEF ClaimWrite
    <2> QED
      BY <2>1, <2>2, OneRow DEF RowStep
  <1>3. CASE EnsureInsert(t)
    <2>1. \/ job' = job
          \/ ~Present(i) /\ i \in issued' /\ job' = [job EXCEPT ![i] = AutoCreated]
      BY <1>3 DEF EnsureInsert, Insert
    <2>2. job'[j] = job[j] \/ (~Present(j) /\ j \in issued' /\ job'[j] = AutoCreated)
      BY <2>1, OneRow
    <2> QED
      BY <2>2 DEF RowStep
  <1>4. CASE LogCommit(t)
    <2>1. job' = job \/ (Present(i) /\ job' = [job EXCEPT ![i] = LoggedRow(i, task[t].seen)])
      BY <1>4 DEF LogCommit
    <2> QED
      BY <2>1, OneRow DEF RowStep
  <1>5. CASE SaveCommit(t)
    <2>1. i \in Jobs /\ Present(i)
      BY <1>5, <1>t, <1>a DEF SaveCommit, At, HolderInv, Holds
    <2>2. job' = [job EXCEPT ![i] = Touched(i)]
      BY <1>5 DEF SaveCommit
    <2> QED
      BY <2>1, <2>2, OneRow DEF RowStep
  <1>6. ASSUME NEW final \in Finals, NEW age \in Ends, NEW todo \in SUBSET Steps,
               Finalize(t, final, age, todo)
        PROVE RowStep(j)
    <2>1. job' = job \/ (Present(i) /\ job' = [job EXCEPT ![i] = FinalRow(i, final, age)])
      BY <1>6 DEF Finalize
    <2>2. age \in Age /\ final \in {"success", "failed", "running"}
      BY FinalsAssumption DEF Age
    <2>3. job'[j] = job[j] \/ (Present(j) /\ job'[j] = FinalRow(j, final, age))
      BY <2>1, OneRow
    <2> QED
      BY <2>2, <2>3 DEF RowStep
  <1>7. CASE CancelWrite(t)
    <2>1. job' = job \/ (Present(i) /\ job' = [job EXCEPT ![i] = CancelledRow(i)])
      BY <1>7 DEF CancelWrite
    <2> QED
      BY <2>1, OneRow DEF RowStep
  <1>8. CASE DeleteWrite(t)
    <2>1. job' = [job EXCEPT ![i] = Absent]
      BY <1>8 DEF DeleteWrite
    <2> QED
      BY <2>1, OneRow DEF RowStep
  <1>9. CASE UNCHANGED job
    BY <1>9 DEF RowStep
  <1>10. CASE Snapshot(t)
    <2>1. job' = job \/ (Present(i) /\ job' = [job EXCEPT ![i] = Touched(i)])
      BY <1>10 DEF Snapshot
    <2>2. job'[j] = job[j] \/ (Present(j) /\ job'[j] = Touched(j))
      BY <2>1, OneRow
    <2> QED
      BY <2>2 DEF RowStep
  <1> QED
    BY <1>1, <1>2, <1>3, <1>4, <1>5, <1>6, <1>7, <1>8, <1>9, <1>10
       DEF Proceed, rows, TerminalCheck, LogStep, LogNothing, LogJob, NoStep, SaveStep, SaveParsed,
           DeleteStep

\* So does every step of the system.
LEMMA RowStepNext ==
    ASSUME JobInv, [Next]_vars, NEW j \in Jobs
    PROVE  RowStep(j)
  <1> USE DEF JobInv
  <1>1. ASSUME NEW k \in Jobs \ issued, NEW age \in Age, Insert(k, QueuedRow(age))
        PROVE RowStep(j)
    <2>1. job' = [job EXCEPT ![k] = QueuedRow(age)] /\ k \in issued'
      BY <1>1 DEF Insert
    <2> QED
      BY <2>1, OneRow DEF RowStep
  <1>2. ASSUME NEW g \in Targets, StartPipeline(g) PROVE RowStep(j)
    <2>1. PICK k \in Jobs \ issued : Insert(k, QueuedRow("fresh"))
      BY <1>2 DEF StartPipeline, FreshIds
    <2> QED
      BY <1>1, <2>1 DEF Age
  <1>3. ASSUME NEW i \in Jobs, EnqueueFollowUp(i) PROVE RowStep(j)
    <2>1. PICK k \in Jobs \ issued : Insert(k, QueuedRow("null"))
      BY <1>3 DEF EnqueueFollowUp, FreshIds
    <2> QED
      BY <1>1, <2>1 DEF Age
  <1>4. ASSUME NEW i \in Jobs, EventAges(i) \/ ClaimAges(i) PROVE RowStep(j)
    <2>1. CASE EventAges(i)
      <3>1. /\ job[i].lastEvent = "fresh"
            /\ job' = [job EXCEPT ![i] = [job[i] EXCEPT !.lastEvent = "old"]]
        BY <2>1 DEF EventAges
      <3> QED
        BY <3>1, OneRow DEF RowStep
    <2>2. CASE ClaimAges(i)
      <3>1. /\ job[i].claimAge = "fresh"
            /\ job' = [job EXCEPT ![i] = [job[i] EXCEPT !.claimAge = "old"]]
        BY <2>2 DEF ClaimAges
      <3> QED
        BY <3>1, OneRow DEF RowStep
    <2> QED
      BY <1>4, <2>1, <2>2
  <1>5. ASSUME NEW p \in Procs, FailCommit(p) PROVE RowStep(j)
    <2>1. task[p].job \in Jobs /\ Present(task[p].job)
      BY <1>5 DEF FailCommit, At, TypeInv, ArgsOK, HolderInv, Holds
    <2>2. job' = [job EXCEPT ![task[p].job] = FailedRow(task[p].job, task[p].overall)]
      BY <1>5 DEF FailCommit
    <2> QED
      BY <2>1, <2>2, OneRow DEF RowStep
  <1>6. ASSUME NEW t \in Tasks, Proceed(t) PROVE RowStep(j)
    BY <1>6, RowStepProceed
  <1>7. CASE UNCHANGED job
    BY <1>7 DEF RowStep
  <1> QED
    BY <1>2, <1>3, <1>4, <1>5, <1>6, <1>7
       DEF Next, vars, rows, Request, CreateCheck, ClaimRead, Callback, FailRead,
           CancelRead, DeleteRead, Fail, FailSelect, DeadlockVictim, DbError,
           Rollback, Reap, ReaperScan, ReaperCount, ReaperSleep, ReaperFail,
           ReaperError, Restart, EnginesDie

\* An id is never forgotten.
LEMMA IssuedGrows == [Next]_vars => issued \subseteq issued'
  BY DEF Next, vars, rows, StartPipeline, EnqueueFollowUp, Insert, EventAges, ClaimAges,
         Request, CreateCheck, ClaimRead, Callback, FailRead, CancelRead, DeleteRead,
         Proceed, CreateInsert, ClaimWrite, EnsureInsert, TerminalCheck, LogStep,
         LogNothing, LogJob, LogCommit, NoStep, SaveStep, SaveCommit, SaveParsed, Snapshot, Finalize,
         CancelWrite, DeleteStep, DeleteWrite,
         Fail, FailSelect, FailCommit, DeadlockVictim, DbError, Rollback,
         Reap, ReaperScan, ReaperCount, ReaperSleep, ReaperFail,
         ReaperError, Restart, EnginesDie

\* The invariants of a row follow from RowStep alone.
LEMMA RowInvNext ==
    ASSUME JobInv, [Next]_vars
    PROVE  RowInv'
  <1> SUFFICES ASSUME NEW j \in Jobs
               PROVE  /\ job'[j].status = "queued" =>
                            job'[j].claimedBy = None /\ job'[j].claimAge = "null"
                      /\ job'[j].status = "success" => job'[j].overall = "success"
                      /\ job'[j].status = "absent" => job'[j] = Absent
                      /\ job'[j].status # "absent" => j \in issued'
    BY DEF RowInv, Present
  <1>1. RowStep(j) /\ issued \subseteq issued'
    BY RowStepNext, IssuedGrows
  <1>2. /\ job[j] \in JobRow
        /\ job[j].status = "queued" => job[j].claimedBy = None /\ job[j].claimAge = "null"
        /\ job[j].status = "success" => job[j].overall = "success"
        /\ job[j].status = "absent" => job[j] = Absent
        /\ job[j].status # "absent" => j \in issued
    BY DEF JobInv, RowInv, TypeInv, TypeOK, Present
  <1>3. CASE job'[j] \in {job[j], Absent}
    BY <1>1, <1>2, <1>3 DEF Absent
  <1>4. CASE j \in issued' /\ \E age \in Age : job'[j] = QueuedRow(age)
    BY <1>4 DEF QueuedRow, Absent
  <1>5. CASE \E e \in Engines : job'[j] = Claimed(j, e)
    BY <1>1, <1>2, <1>5 DEF Claimed, JobRow
  <1>6. CASE j \in issued' /\ job'[j] = AutoCreated
    BY <1>6 DEF AutoCreated, Absent
  <1>7. CASE Present(j) /\ \E seen : job'[j] = LoggedRow(j, seen)
    BY <1>1, <1>2, <1>7 DEF LoggedRow, JobRow, Present
  <1>8. CASE Present(j) /\ \E final \in {"success", "failed", "running"}, age \in Age :
                job'[j] = FinalRow(j, final, age)
    BY <1>1, <1>2, <1>8 DEF FinalRow, Verdict, JobRow, Present
  <1>9. CASE Present(j) /\ \E o : job'[j] = FailedRow(j, o)
    BY <1>1, <1>2, <1>9 DEF FailedRow, JobRow, Present
  <1>10. CASE Present(j) /\ job'[j] \in {Touched(j), CancelledRow(j)}
    BY <1>1, <1>2, <1>10 DEF Touched, CancelledRow, JobRow, Present
  <1>11. CASE job[j].lastEvent = "fresh" /\ job'[j] = [job[j] EXCEPT !.lastEvent = "old"]
    BY <1>1, <1>2, <1>11 DEF JobRow, Absent
  <1>12. CASE job[j].claimAge = "fresh" /\ job'[j] = [job[j] EXCEPT !.claimAge = "old"]
    BY <1>1, <1>2, <1>12 DEF JobRow, Absent
  <1> QED
    BY <1>1, <1>3, <1>4, <1>5, <1>6, <1>7, <1>8, <1>9, <1>10, <1>11, <1>12 DEF RowStep

\* A step that puts a handler outside HolderPC leaves no new holder.
LEMMA NoNewHolder ==
    ASSUME TypeInv, NEW q \in Procs, NEW s, Become(q, s), s.pc \notin HolderPC,
           NEW p \in Procs, NEW j \in Jobs, Holds(p, j)'
    PROVE  p # q /\ Holds(p, j)
  BY DEF TypeInv, TypeOK, Become, Holds, HolderPC

\* A handler that returns holds nothing.
LEMMA ReturnHolder ==
    ASSUME TypeInv, NEW q \in Procs, Return(q),
           NEW p \in Procs, NEW j \in Jobs, Holds(p, j)'
    PROVE  p # q /\ Holds(p, j)
  <1> DEFINE s == IF q = Reaper THEN [Idle EXCEPT !.pc = "reap"] ELSE Idle
  <1>1. s.pc \notin HolderPC /\ Become(q, s)
    BY IdleType DEF Return, HolderPC, Idle
  <1> QED
    BY <1>1, NoNewHolder

\* Nor does one that moves to a label outside HolderPC.
LEMMA GotoHolder ==
    ASSUME TypeInv, NEW q \in Procs, NEW label, Goto(q, label), label \notin HolderPC,
           NEW p \in Procs, NEW j \in Jobs, Holds(p, j)'
    PROVE  p # q /\ Holds(p, j)
  BY DEF TypeInv, TypeOK, TaskState, Goto, Holds, HolderPC

\* Nor does one that goes on to the deployment snapshot.
LEMMA ToSnapshotHolder ==
    ASSUME TypeInv, NEW q \in Procs, ToSnapshot(q),
           NEW p \in Procs, NEW j \in Jobs, Holds(p, j)'
    PROVE  p # q /\ Holds(p, j)
  <1> DEFINE s == [Idle EXCEPT !.pc = "snapshot", !.job = task[q].job]
  <1>1. s.pc \notin HolderPC /\ Become(q, s)
    BY DEF ToSnapshot, HolderPC, Idle
  <1> QED
    BY <1>1, NoNewHolder

\* Nor does one whose step of a callback is done.
LEMMA AfterSaveHolder ==
    ASSUME TypeInv, NEW q \in Procs, AfterSave(q),
           NEW p \in Procs, NEW j \in Jobs, Holds(p, j)'
    PROVE  p # q /\ Holds(p, j)
  <1>1. CASE ToSnapshot(q)
    BY <1>1, ToSnapshotHolder
  <1>2. CASE ~ToSnapshot(q)
    <2> DEFINE s == [task[q] EXCEPT !.pc = "save_step", !.step = None, !.state = "none",
                                    !.fresh = FALSE, !.todo = @ \ {task[q].step}]
    <2>1. Become(q, s)
      BY <1>2 DEF AfterSave
    <2>2. s.pc \notin HolderPC
      BY DEF TypeInv, TypeOK, TaskState, HolderPC
    <2> QED
      BY <2>1, <2>2, NoNewHolder
  <1> QED
    BY <1>1, <1>2

\* A row that vanishes was deleted, and nobody held it.
LEMMA Vanishes ==
    ASSUME JobInv, [Next]_vars, NEW j \in Jobs, Present(j), ~Present(j)'
    PROVE  \E t \in Tasks : DeleteWrite(t) /\ task[t].job = j
  <1> USE DEF JobInv
  <1>1. job'[j].status = "absent" /\ job[j].status # "absent" /\ job[j] \in JobRow
    BY DEF Present, TypeInv, TypeOK
  <1>2. ASSUME NEW i, NEW row, i = j => row.status # "absent",
               job' = [job EXCEPT ![i] = row]
        PROVE FALSE
    BY <1>1, <1>2, OneRow
  <1>3. job' # job
    BY <1>1
  <1>4. ASSUME NEW k, NEW age, Insert(k, QueuedRow(age)) PROVE FALSE
    BY <1>2, <1>4 DEF Insert, QueuedRow, Absent
  <1>5. ASSUME NEW t \in Tasks, Proceed(t) PROVE DeleteWrite(t) /\ task[t].job = j
    <2> DEFINE i == task[t].job
    <2>1. CASE CreateInsert(t)
      BY <1>3, <1>4, <2>1 DEF CreateInsert
    <2>2. CASE ClaimWrite(t)
      <3>1. Claimed(j, task[t].engine).status # "absent"
        BY <1>1 DEF Claimed, JobRow
      <3> QED
        BY <1>2, <1>3, <2>2, <3>1 DEF ClaimWrite
    <2>3. CASE EnsureInsert(t)
      BY <1>2, <1>3, <2>3 DEF EnsureInsert, Insert, AutoCreated, Absent
    <2>4. CASE LogCommit(t)
      <3>1. LoggedRow(j, task[t].seen).status # "absent"
        BY <1>1 DEF LoggedRow, JobRow
      <3> QED
        BY <1>2, <1>3, <2>4, <3>1 DEF LogCommit
    <2>5. CASE SaveCommit(t)
      <3>1. Touched(j).status # "absent"
        BY <1>1 DEF Touched, JobRow
      <3> QED
        BY <1>2, <2>5, <3>1 DEF SaveCommit
    <2>6. CASE \E final \in Finals, age \in Ends, todo \in SUBSET Steps :
                 Finalize(t, final, age, todo)
      <3>1. PICK final \in Finals, age \in Ends :
              \E todo \in SUBSET Steps : Finalize(t, final, age, todo)
        BY <2>6
      <3>2. FinalRow(j, final, age).status # "absent"
        BY <1>1, FinalsAssumption DEF FinalRow, JobRow
      <3> QED
        BY <1>2, <1>3, <3>1, <3>2 DEF Finalize
    <2>7. CASE CancelWrite(t)
      <3>1. CancelledRow(j).status # "absent"
        BY <1>1 DEF CancelledRow, JobRow
      <3> QED
        BY <1>2, <1>3, <2>7, <3>1 DEF CancelWrite
    <2>8. CASE DeleteWrite(t)
      BY <1>1, <2>8, OneRow DEF DeleteWrite
    <2>9. CASE Snapshot(t)
      <3>1. Touched(j).status # "absent"
        BY <1>1 DEF Touched, JobRow
      <3> QED
        BY <1>2, <1>3, <2>9, <3>1 DEF Snapshot
    <2> QED
      BY <1>3, <1>5, <2>1, <2>2, <2>3, <2>4, <2>5, <2>6, <2>7, <2>8, <2>9
         DEF Proceed, rows, TerminalCheck, LogStep, LogNothing, LogJob, NoStep, SaveStep, SaveParsed,
           DeleteStep
  <1>6. ASSUME NEW i \in Jobs, EventAges(i) \/ ClaimAges(i) PROVE FALSE
    <2>1. /\ [job[j] EXCEPT !.lastEvent = "old"].status # "absent"
          /\ [job[j] EXCEPT !.claimAge = "old"].status # "absent"
      BY <1>1 DEF JobRow
    <2>2. CASE EventAges(i)
      <3>1. job' = [job EXCEPT ![i] = [job[i] EXCEPT !.lastEvent = "old"]]
        BY <2>2 DEF EventAges
      <3> QED
        BY <1>2, <2>1, <3>1
    <2>3. CASE ClaimAges(i)
      <3>1. job' = [job EXCEPT ![i] = [job[i] EXCEPT !.claimAge = "old"]]
        BY <2>3 DEF ClaimAges
      <3> QED
        BY <1>2, <2>1, <3>1
    <2> QED
      BY <1>6, <2>2, <2>3
  <1>7. ASSUME NEW p \in Procs, FailCommit(p) PROVE FALSE
    <2>1. FailedRow(j, task[p].overall).status # "absent"
      BY <1>1 DEF FailedRow, JobRow
    <2> QED
      BY <1>2, <1>7, <2>1 DEF FailCommit
  <1> QED
    BY <1>3, <1>4, <1>5, <1>6, <1>7
       DEF Next, vars, rows, StartPipeline, EnqueueFollowUp, Request, CreateCheck,
           ClaimRead, Callback, FailRead,
           CancelRead, DeleteRead, Fail, FailSelect, DeadlockVictim, DbError,
           Rollback, Reap, ReaperScan, ReaperCount, ReaperSleep, ReaperFail,
           ReaperError, Restart, EnginesDie

\* What becomes of a handler that another one's step leaves alone.
LEMMA OtherHolder ==
    ASSUME TypeInv, NEW q \in Procs, NEW s, Become(q, s),
           NEW p \in Procs, p # q, NEW j \in Jobs, Holds(p, j)'
    PROVE  Holds(p, j)
  BY DEF TypeInv, TypeOK, Become, Holds

\* The steps that make a holder have just seen the row.
LEMMA HolderProceed ==
    ASSUME JobInv, NEW t \in Tasks, Proceed(t),
           NEW p \in Procs, NEW j \in Jobs, Holds(p, j)'
    PROVE  Present(j)
  <1> USE DEF JobInv
  <1>t. t \in Procs /\ task[t] \in TaskState
    BY DEF Procs, TypeInv, TypeOK
  <1>h. Holds(p, j) => Present(j)
    BY DEF HolderInv
  <1>1. CASE Return(t)
    BY <1>t, <1>h, <1>1, ReturnHolder
  <1>2. ASSUME NEW label, Goto(t, label), label \notin HolderPC PROVE Present(j)
    BY <1>t, <1>h, <1>2, GotoHolder
  <1>3. ASSUME NEW s, Become(t, s), s.pc \notin HolderPC PROVE Present(j)
    BY <1>t, <1>h, <1>3, NoNewHolder
  <1>4. ASSUME NEW s, Become(t, s), p # t PROVE Present(j)
    BY <1>t, <1>h, <1>4, OtherHolder
  <1>5. CASE EnsureInsert(t)
    BY <1>5, <1>2 DEF EnsureInsert, HolderPC
  <1>12. CASE ToSnapshot(t)
    BY <1>t, <1>h, <1>12, ToSnapshotHolder
  <1>6. CASE TerminalCheck(t)
    <2>1. Body[task[t].type] \notin HolderPC
      BY <1>t, BodyType DEF TaskState, HolderPC
    <2> QED
      BY <1>1, <1>2, <1>6, <2>1 DEF TerminalCheck
  <1>7. ASSUME NEW s \in Steps, LogStep(t, s) PROVE Present(j)
    <2> DEFINE new(a) == [task[t] EXCEPT !.pc = "log_job", !.step = s,
                            !.fresh = (steps[task[t].job][s] = "none"), !.append = a]
    <2>1. CASE Return(t)
      BY <1>1, <2>1
    <2>2. CASE ~Return(t)
      <3>1. PICK a \in BOOLEAN : Become(t, new(a))
        BY <1>7, <2>2 DEF LogStep
      <3>2. steps[task[t].job][s] # "none" \/ Present(task[t].job)
        BY <1>7, <2>2 DEF LogStep
      <3>3. CASE p = t
        <4>1. task'[t] = new(a)
          BY <1>t, <3>1 DEF Become, TypeInv, TypeOK
        <4>2. /\ new(a).pc = "log_job" /\ new(a).job = task[t].job
              /\ new(a).fresh = (steps[task[t].job][s] = "none")
          BY <1>t DEF TaskState
        <4>3. new(a).job = j /\ new(a).fresh
          BY <3>3, <4>1, <4>2 DEF Holds
        <4> QED
          BY <3>2, <4>2, <4>3
      <3> QED
        BY <1>4, <3>1, <3>3
    <2> QED
      BY <2>1, <2>2
  <1>13. CASE LogNothing(t)
    <2> DEFINE s == [Idle EXCEPT !.pc = "log_commit", !.job = task[t].job,
                                 !.seen = job[task[t].job].status]
    <2>1. CASE p = t
      <3>1. task'[t] = s /\ s.pc = "log_commit" /\ ~s.fresh
        BY <1>t, <1>13 DEF LogNothing, Become, TypeInv, TypeOK, Idle
      <3> QED
        BY <2>1, <3>1 DEF Holds
    <2> QED
      BY <1>4, <1>13, <2>1 DEF LogNothing
  <1>8. CASE LogJob(t)
    <2> DEFINE s == [task[t] EXCEPT !.pc = "log_commit",
                                    !.seen = job[task[t].job].status]
    <2>1. Return(t) \/ Become(t, s)
      BY <1>8 DEF LogJob
    <2>2. CASE p = t /\ Become(t, s)
      <3>1. task'[t] = s
        BY <1>t, <2>2 DEF Become, TypeInv, TypeOK
      <3>2. s.pc = "log_commit" /\ s.job = task[t].job /\ s.fresh = task[t].fresh
        BY <1>t DEF TaskState
      <3>3. task[t].job = j /\ task[t].fresh /\ task[t].pc = "log_job"
        BY <1>8, <2>2, <3>1, <3>2 DEF Holds, LogJob, At
      <3> QED
        BY <1>h, <2>2, <3>3 DEF Holds
    <2> QED
      BY <1>1, <1>4, <2>1, <2>2
  <1>9. ASSUME NEW s \in Steps, NEW state \in Reported, SaveStep(t, s, state)
        PROVE Present(j)
    <2> DEFINE saved == [task[t] EXCEPT !.pc = "save_commit", !.step = s, !.state = state,
                                        !.fresh = (steps[task[t].job][s] = "none")]
               less  == [task[t] EXCEPT !.todo = @ \ {s}]
    <2>1. CASE Present(task[t].job) /\ Become(t, saved)
      <3>1. CASE p = t
        <4>1. task'[t] = saved /\ saved.job = task[t].job
          BY <1>t, <2>1 DEF Become, TypeInv, TypeOK, TaskState
        <4> QED
          BY <2>1, <3>1, <4>1 DEF Holds
      <3> QED
        BY <1>4, <2>1, <3>1
    <2>2. CASE Become(t, less)
      <3>1. less.pc \notin HolderPC
        BY <1>t, <1>9 DEF SaveStep, At, TaskState, HolderPC
      <3> QED
        BY <1>3, <2>2, <3>1
    <2> QED
      BY <1>9, <1>12, <2>1, <2>2 DEF SaveStep
  <1>10. CASE SaveCommit(t)
    BY <1>t, <1>h, <1>10, AfterSaveHolder DEF SaveCommit
  <1>11. ASSUME NEW final, NEW age, NEW todo, Finalize(t, final, age, todo)
         PROVE Present(j)
    <2>1. [task[t] EXCEPT !.pc = "save_step", !.todo = todo].pc \notin HolderPC
      BY <1>t DEF TaskState, HolderPC
    <2> QED
      BY <1>3, <1>11, <2>1 DEF Finalize
  <1>14. ASSUME NEW s \in Steps, DeleteStep(t, s) PROVE Present(j)
    <2>1. [task[t] EXCEPT !.todo = @ \cup {s}].pc \notin HolderPC
      BY <1>t, <1>14 DEF TaskState, HolderPC, DeleteStep, At
    <2> QED
      BY <1>3, <1>14, <2>1 DEF DeleteStep
  <1> QED
    BY <1>1, <1>5, <1>6, <1>7, <1>8, <1>9, <1>10, <1>11, <1>12, <1>13, <1>14
       DEF Proceed, CreateInsert, ClaimWrite, LogCommit, NoStep, SaveParsed, Snapshot,
           CancelWrite, DeleteWrite

\* Whoever holds a row after a step saw it present before the step.
LEMMA HolderNext ==
    ASSUME JobInv, [Next]_vars, NEW p \in Procs, NEW j \in Jobs, Holds(p, j)'
    PROVE  Present(j)
  <1> USE DEF JobInv
  <1>h. Holds(p, j) => Present(j)
    BY DEF HolderInv
  <1>1. CASE UNCHANGED task
    BY <1>h, <1>1 DEF Holds
  <1>2. ASSUME NEW q \in Procs, Return(q) PROVE Present(j)
    BY <1>h, <1>2, ReturnHolder
  <1>3. ASSUME NEW q \in Procs, NEW label, Goto(q, label), label \notin HolderPC
        PROVE Present(j)
    BY <1>h, <1>3, GotoHolder
  <1>4. ASSUME NEW q \in Procs, NEW s, Become(q, s), s.pc \notin HolderPC
        PROVE Present(j)
    BY <1>h, <1>4, NoNewHolder
  <1>5. ASSUME NEW q \in Procs, NEW i, LoadForFail(q, i) PROVE Present(j)
    <2>1. [Idle EXCEPT !.pc = "fail_select", !.job = i,
                       !.overall = job[i].overall].pc \notin HolderPC
      BY DEF Idle, HolderPC
    <2> QED
      BY <1>4, <1>5, <2>1 DEF LoadForFail
  <1>6. ASSUME NEW t \in Tasks, Request(t) PROVE Present(j)
    <2>1. t \in Procs
      BY DEF Procs
    <2>2. ASSUME NEW s, Become(t, s), s.pc \in PC \ HolderPC PROVE Present(j)
      BY <1>4, <2>1, <2>2
    <2>3. ASSUME NEW g \in Targets, CreateCheck(t, g) PROVE Present(j)
      <3>1. [Idle EXCEPT !.pc = "create_insert", !.target = g].pc \in PC \ HolderPC
        BY DEF Idle, PC, HolderPC
      <3> QED
        BY <2>2, <2>3, <3>1 DEF CreateCheck
    <2>4. ASSUME NEW i \in Jobs, NEW e \in Engines, ClaimRead(t, e, i) PROVE Present(j)
      <3>1. [Idle EXCEPT !.pc = "claim_write", !.job = i, !.engine = e].pc \in PC \ HolderPC
        BY DEF Idle, PC, HolderPC
      <3> QED
        BY <2>2, <2>4, <3>1 DEF ClaimRead
    <2>5. ASSUME NEW i \in Jobs, NEW type \in CallbackType, Callback(t, i, type)
          PROVE Present(j)
      <3>1. [Idle EXCEPT !.pc = EnsureStep(i), !.job = i, !.type = type].pc \in PC \ HolderPC
        BY DEF Idle, PC, HolderPC, EnsureStep
      <3> QED
        BY <2>2, <2>5, <3>1 DEF Callback
    <2>6. ASSUME NEW i \in Jobs, FailRead(t, i) PROVE Present(j)
      BY <1>5, <2>1, <2>6 DEF FailRead
    <2>7. ASSUME NEW i \in Jobs, CancelRead(t, i) PROVE Present(j)
      <3>1. [Idle EXCEPT !.pc = "cancel_write", !.job = i].pc \in PC \ HolderPC
        BY DEF Idle, PC, HolderPC
      <3> QED
        BY <2>2, <2>7, <3>1 DEF CancelRead
    <2>8. ASSUME NEW i \in Jobs, DeleteRead(t, i) PROVE Present(j)
      <3>1. [Idle EXCEPT !.pc = "delete_write", !.job = i].pc \in PC \ HolderPC
        BY DEF Idle, PC, HolderPC
      <3> QED
        BY <2>2, <2>8, <3>1 DEF DeleteRead
    <2> QED
      BY <1>6, <2>3, <2>4, <2>5, <2>6, <2>7, <2>8 DEF Request
  <1>7. ASSUME NEW q \in Procs, FailSelect(q) PROVE Present(j)
    <2> DEFINE s == [task[q] EXCEPT !.pc = "fail_commit",
                       !.todo = {x \in Steps : steps[task[q].job][x] = "running"}]
    <2>1. CASE Present(task[q].job) /\ Become(q, s)
      <3>1. CASE p = q
        <4>1. task'[q] = s /\ s.job = task[q].job
          BY <2>1 DEF Become, TypeInv, TypeOK, TaskState
        <4> QED
          BY <2>1, <3>1, <4>1 DEF Holds
      <3>2. CASE p # q
        BY <1>h, <2>1, <3>2, OtherHolder
      <3> QED
        BY <3>1, <3>2
    <2> QED
      BY <1>2, <1>7, <2>1 DEF FailSelect
  <1>8. ASSUME NEW q \in Procs, Rollback(q) PROVE Present(j)
    <2>1. task[q].type \in CallbackType
      BY DEF TypeInv, TypeOK, TaskState
    <2>2. /\ Body[task[q].type] \notin HolderPC
          /\ "terminal_check" \notin HolderPC /\ "save_step" \notin HolderPC
      BY <2>1, BodyType DEF HolderPC
    <2>3. CASE AfterSave(q)
      BY <1>h, <2>3, AfterSaveHolder
    <2>4. CASE Return(q)
      BY <1>2, <2>4
    <2>5. CASE \/ Goto(q, "terminal_check") \/ Goto(q, Body[task[q].type])
               \/ Goto(q, "save_step")
      BY <1>3, <2>2, <2>5
    <2> QED
      BY <1>8, <2>3, <2>4, <2>5 DEF Rollback
  <1>9. CASE Reap
    <2>1. Reaper \in Procs
      BY DEF Procs
    <2>2. Idle.pc \notin HolderPC /\ "count" \notin HolderPC /\ "reap" \notin HolderPC
      BY DEF Idle, HolderPC
    <2>3. CASE ReaperScan
      BY <1>3, <2>1, <2>2, <2>3 DEF ReaperScan
    <2>4. CASE ReaperCount
      BY <1>1, <1>3, <2>1, <2>2, <2>4 DEF ReaperCount
    <2>5. CASE ReaperSleep
      BY <1>4, <2>1, <2>2, <2>5 DEF ReaperSleep
    <2>6. ASSUME NEW i \in Jobs, ReaperFail(i) PROVE Present(j)
      BY <1>1, <1>5, <2>1, <2>6 DEF ReaperFail
    <2> QED
      BY <1>9, <2>3, <2>4, <2>5, <2>6 DEF Reap
  <1>10. CASE ReaperError
    <2>1. Reaper \in Procs /\ Idle.pc \notin HolderPC
      BY DEF Procs, Idle, HolderPC
    <2> QED
      BY <1>4, <1>10, <2>1 DEF ReaperError
  <1>11. CASE Restart
    <2>1. task'[p] \in {Idle, [Idle EXCEPT !.pc = "off"]}
      BY <1>11 DEF Restart
    <2> QED
      BY <2>1 DEF Idle, Holds
  <1>12. ASSUME NEW q \in Procs, FailCommit(q) PROVE Present(j)
    BY <1>2, <1>12 DEF FailCommit
  <1>13. ASSUME NEW t \in Tasks, Proceed(t) PROVE Present(j)
    BY <1>13, HolderProceed
  <1>14. CASE \/ \E g \in Targets : StartPipeline(g)
              \/ \E i \in Jobs : EnqueueFollowUp(i) \/ EventAges(i) \/ ClaimAges(i)
              \/ EnginesDie
              \/ UNCHANGED vars
    BY <1>1, <1>14 DEF StartPipeline, EnqueueFollowUp, EventAges, ClaimAges, EnginesDie, vars
  <1> QED
    BY <1>6, <1>7, <1>8, <1>9, <1>10, <1>11, <1>12, <1>13, <1>14
       DEF Next, Fail, DeadlockVictim, DbError

\* A held row stays: the delete waits for its holders.
LEMMA HolderInvNext ==
    ASSUME JobInv, [Next]_vars
    PROVE  HolderInv'
  <1> SUFFICES ASSUME NEW p \in Procs, NEW j \in Jobs, Holds(p, j)', ~Present(j)'
               PROVE FALSE
    BY DEF HolderInv
  <1>1. Present(j)
    BY HolderNext
  <1>2. PICK t \in Tasks : DeleteWrite(t) /\ task[t].job = j
    BY <1>1, Vanishes
  <1>3. t \in Procs /\ Return(t)
    BY <1>2 DEF DeleteWrite, Procs
  <1>4. Holds(p, j)
    BY <1>3, ReturnHolder DEF JobInv
  <1> QED
    BY <1>2, <1>4 DEF DeleteWrite, RowFree, Unreferenced, References, Holds, At

\* The inductive invariant of the rows.
LEMMA JobInvCorrect == Spec => []JobInv
  <1>1. Init => JobInv
    BY TypeInvInit DEF Init, JobInv, RowInv, HolderInv, Holds, Present, Absent, Idle
  <1>2. JobInv /\ [Next]_vars => JobInv'
    BY TypeInvNext, RowInvNext, HolderInvNext DEF JobInv
  <1> QED
    BY <1>1, <1>2, PTL DEF Spec

-----------------------------------------------------------------------------
(* What follows.                                                              *)

\* A job in the queue belongs to nobody, for any number of handlers, engines
\* and jobs.
THEOREM QueuedUnclaimed == Spec => []QueuedIsUnclaimed
  <1>1. JobInv => QueuedIsUnclaimed
    BY DEF JobInv, RowInv, QueuedIsUnclaimed
  <1> QED
    BY <1>1, JobInvCorrect, PTL

\* A row that says success has the overall_result success.
THEOREM SuccessWhole == Spec => []SuccessIsWhole
  <1>1. JobInv => SuccessIsWhole
    BY DEF JobInv, RowInv, SuccessIsWhole
  <1> QED
    BY <1>1, JobInvCorrect, PTL

\* The claim of a row is final: whatever handlers, failures and restarts
\* overlap, claimed_by never changes from one engine to another.
THEOREM ClaimFinal == Spec => ClaimIsFinal
  <1>1. ASSUME JobInv, [Next]_vars, NEW j \in Jobs, job[j].claimedBy # None
        PROVE  job'[j].claimedBy = job[j].claimedBy \/ job'[j] = Absent
    <2>1. RowStep(j)
      BY <1>1, RowStepNext
    <2>2. /\ job[j] \in JobRow
          /\ job[j].status # "queued"
          /\ Present(j) /\ j \in issued
      BY <1>1 DEF JobInv, TypeInv, TypeOK, RowInv, Present, Absent
    <2>3. CASE \E e \in Engines : job'[j] = Claimed(j, e)
      BY <2>2, <2>3 DEF Claimed
    <2>4. CASE \E seen : job'[j] = LoggedRow(j, seen)
      BY <2>2, <2>4 DEF LoggedRow, JobRow
    <2>5. CASE \E final \in {"success", "failed", "running"}, age \in Age :
                  job'[j] = FinalRow(j, final, age)
      BY <2>2, <2>5 DEF FinalRow, JobRow
    <2>6. CASE \E o : job'[j] = FailedRow(j, o)
      BY <2>2, <2>6 DEF FailedRow, JobRow
    <2>7. CASE job'[j] \in {Touched(j), CancelledRow(j)}
      BY <2>2, <2>7 DEF Touched, CancelledRow, JobRow
    <2>8. CASE \/ job'[j] = [job[j] EXCEPT !.lastEvent = "old"]
               \/ job'[j] = [job[j] EXCEPT !.claimAge = "old"]
      BY <2>2, <2>8 DEF JobRow
    <2> QED
      BY <2>1, <2>2, <2>3, <2>4, <2>5, <2>6, <2>7, <2>8 DEF RowStep
  <1>2. JobInv /\ [Next]_vars =>
          [\A j \in Jobs : job[j].claimedBy # None =>
             job'[j].claimedBy = job[j].claimedBy \/ job'[j] = Absent]_vars
    BY <1>1
  <1> QED
    BY <1>2, JobInvCorrect, PTL DEF Spec, ClaimIsFinal

\* Only a new id is put into the queue.
LEMMA NewInQueue ==
    ASSUME JobInv, [Next]_vars, NEW j \in Jobs, job'[j].status = "queued"
    PROVE  job[j].status = "queued" \/ j \notin issued
  <1>1. RowStep(j)
    BY RowStepNext
  <1>2. job[j] \in JobRow
    BY DEF JobInv, TypeInv, TypeOK
  <1>3. CASE job'[j] \in {job[j], Absent}
    BY <1>3 DEF Absent
  <1>4. CASE \E e \in Engines : job'[j] = Claimed(j, e)
    BY <1>2, <1>4 DEF Claimed, JobRow
  <1>5. CASE job'[j] = AutoCreated
    BY <1>5 DEF AutoCreated, Absent
  <1>6. CASE \E seen : job'[j] = LoggedRow(j, seen)
    BY <1>2, <1>6 DEF LoggedRow, JobRow
  <1>7. CASE \E final \in {"success", "failed", "running"}, age \in Age :
                job'[j] = FinalRow(j, final, age)
    BY <1>2, <1>7 DEF FinalRow, JobRow
  <1>8. CASE \E o : job'[j] = FailedRow(j, o)
    BY <1>2, <1>8 DEF FailedRow, JobRow
  <1>9. CASE job'[j] \in {Touched(j), CancelledRow(j)}
    BY <1>2, <1>9 DEF Touched, CancelledRow, JobRow
  <1>10. CASE \/ job'[j] = [job[j] EXCEPT !.lastEvent = "old"]
              \/ job'[j] = [job[j] EXCEPT !.claimAge = "old"]
    BY <1>2, <1>10 DEF JobRow
  <1> QED
    BY <1>1, <1>3, <1>4, <1>5, <1>6, <1>7, <1>8, <1>9, <1>10 DEF RowStep

\* A job that has left the queue never returns to it.
THEOREM NeverBack == Spec => NeverRequeued
  <1>1. JobInv /\ [Next]_vars =>
          [\A j \in Jobs : job'[j].status = "queued" =>
             job[j].status = "queued" \/ j \notin issued]_vars
    BY NewInQueue
  <1> QED
    BY <1>1, JobInvCorrect, PTL DEF Spec, NeverRequeued

-----------------------------------------------------------------------------
(* The ledger.                                                                *)

\* A row changes for a reader as the ledger allows.
LEMMA RowImplements ==
    ASSUME JobInv, [Next]_vars, NEW j \in Jobs
    PROVE  Ledger!Change(j) \/ Seen(j)' = Seen(j)
  <1> DEFINE old == job[j]
             new == job'[j]
             Becomes(s, o, w) == new.status = s /\ new.overall = o /\ new.claimedBy = w
  <1>1. RowStep(j)
    BY RowStepNext
  <1>2. /\ old \in JobRow
        /\ old.status = "absent" => old = Absent
        /\ Present(j) <=> old.status # "absent"
    BY DEF JobInv, RowInv, TypeInv, TypeOK, Present
  <1>3. /\ Seen(j).status = old.status /\ Seen(j).overall = old.overall
        /\ Seen(j).owner = old.claimedBy
    BY DEF Seen
  <1>4. \A s, o, w : Becomes(s, o, w) => Ledger!Set(j, s, o, w)
    BY DEF Seen, Ledger!Set, Ledger!Entry
  <1>5. Ledger!Exists(j) <=> Present(j)
    BY <1>2, <1>3 DEF Ledger!Exists
  <1>6. Becomes(old.status, old.overall, old.claimedBy) => Seen(j)' = Seen(j)
    BY DEF Seen
  <1>7. CASE new = Absent
    <2>1. CASE Present(j)
      <3>1. Seen(j)' = Ledger!Blank
        BY <1>7 DEF Seen, Absent, Ledger!Blank, Ledger!Entry
      <3> QED
        BY <2>1, <3>1, <1>5 DEF Ledger!Change, Ledger!Remove
    <2> QED
      BY <2>1, <1>2, <1>6, <1>7
  <1>8. CASE j \notin issued /\ j \in issued' /\ \E age \in Age : new = QueuedRow(age)
    <2>1. Becomes("queued", "none", None)
      BY <1>8 DEF QueuedRow, Absent
    <2> QED
      BY <1>4, <1>8, <2>1 DEF Ledger!Change, Ledger!Queue
  <1>9. CASE \E e \in Engines : new = Claimed(j, e)
    <2>1. PICK e \in Engines : new = Claimed(j, e)
      BY <1>9
    <2>2. CASE old.status = "queued"
      <3>1. Becomes("running", old.overall, e)
        BY <1>2, <2>1, <2>2 DEF Claimed, JobRow
      <3>2. Ledger!Set(j, "running", Seen(j).overall, e)
        BY <1>3, <1>4, <3>1
      <3> QED
        BY <1>3, <2>2, <3>2 DEF Ledger!Change, Ledger!Claim
    <2> QED
      BY <1>6, <2>1, <2>2 DEF Claimed
  <1>10. CASE ~Present(j) /\ j \in issued' /\ new = AutoCreated
    <2>1. Becomes("running", "none", None)
      BY <1>10 DEF AutoCreated, Absent
    <2> QED
      BY <1>4, <1>5, <1>10, <2>1 DEF Ledger!Change, Ledger!Adopt
  <1>11. CASE Present(j) /\ \E seen : new = LoggedRow(j, seen)
    <2>1. \/ Becomes(old.status, old.overall, old.claimedBy)
          \/ Becomes("running", old.overall, old.claimedBy)
      BY <1>2, <1>11 DEF LoggedRow, JobRow
    <2>2. CASE Becomes("running", old.overall, old.claimedBy)
      <3>1. Ledger!Set(j, "running", Seen(j).overall, Seen(j).owner)
        BY <1>3, <1>4, <2>2
      <3> QED
        BY <1>5, <1>11, <3>1 DEF Ledger!Change, Ledger!Report
    <2> QED
      BY <1>6, <2>1, <2>2
  <1>12. CASE Present(j) /\ \E final \in {"success", "failed", "running"}, age \in Age :
                new = FinalRow(j, final, age)
    <2>1. PICK final \in {"success", "failed", "running"}, age \in Age :
                new = FinalRow(j, final, age)
      BY <1>12
    <2>2. Becomes(final, Verdict(final), old.claimedBy)
      BY <1>2, <2>1 DEF FinalRow, JobRow
    <2>3. Ledger!Set(j, final, Verdict(final), Seen(j).owner)
      BY <1>3, <1>4, <2>2
    <2> QED
      BY <1>5, <1>12, <2>3 DEF Verdict, Ledger!Change, Ledger!Complete
  <1>13. CASE Present(j) /\ \E o : new = FailedRow(j, o)
    <2>1. PICK o \in {Seen(j).overall, "failed"} : Becomes("failed", o, Seen(j).owner)
      BY <1>2, <1>3, <1>13 DEF FailedRow, JobRow
    <2> QED
      BY <1>4, <1>5, <1>13, <2>1 DEF Ledger!Change, Ledger!Fail
  <1>14. CASE Present(j) /\ new = CancelledRow(j)
    <2>1. Ledger!Set(j, "cancelled", Seen(j).overall, Seen(j).owner)
      BY <1>2, <1>3, <1>4, <1>14 DEF CancelledRow, JobRow
    <2> QED
      BY <1>5, <1>14, <2>1 DEF Ledger!Change, Ledger!Cancel
  <1>15. CASE new \in {old, Touched(j), [old EXCEPT !.lastEvent = "old"], [old EXCEPT !.claimAge = "old"]}
    BY <1>2, <1>6, <1>15 DEF Touched, JobRow
  <1> QED
    BY <1>1, <1>7, <1>8, <1>9, <1>10, <1>11, <1>12, <1>13, <1>14, <1>15 DEF RowStep

\* The handlers implement the ledger: every step of the system is a step of
\* the ledger, or one that no reader of a job sees.
THEOREM LedgerImplemented == Spec => ImplementsLedger
  <1>1. Init => Ledger!Init
    BY DEF Init, Ledger!Init, Ledger!Blank, Ledger!Entry, Seen, Absent
  <1>2. ASSUME JobInv, [Next]_vars PROVE [Ledger!Next]_(Ledger!ledger)
    <2>1. issued \subseteq issued'
      BY <1>2, IssuedGrows
    <2>2. \A j \in Jobs : Ledger!Change(j) \/ Seen(j)' = Seen(j)
      BY <1>2, RowImplements
    <2> QED
      BY <2>1, <2>2 DEF Ledger!Next
  <1> QED
    BY <1>1, <1>2, JobInvCorrect, PTL DEF Spec, ImplementsLedger, Ledger!Spec
=============================================================================
