---------------------------- MODULE JobStepsProofs ----------------------------
(* More about JobLifecycle: the steps of a job, and what the reaper may fail. *)
(* They rest on the invariant of the rows of JobLifecycleProofs.              *)
EXTENDS JobLifecycleProofs

-----------------------------------------------------------------------------
(* The steps and logs of a job.                                               *)

Bare(j) == ~heard[j] /\ \A s \in Steps : steps[j][s] = "none"

\* One handler writes the steps of one job.
LEMMA OneJobSteps ==
    ASSUME TypeInv, NEW i, NEW new, steps' = [steps EXCEPT ![i] = new], NEW j \in Jobs
    PROVE  steps'[j] = IF i = j THEN new ELSE steps[j]
  BY DEF TypeInv, TypeOK

LEMMA OneStep ==
    ASSUME TypeInv, NEW i, NEW r, NEW new, steps' = [steps EXCEPT ![i][r] = new],
           NEW j \in Jobs, NEW s \in Steps
    PROVE  steps'[j][s] = IF i = j /\ r = s THEN new ELSE steps[j][s]
  BY DEF TypeInv, TypeOK

LEMMA OneHeard ==
    ASSUME TypeInv, NEW i, NEW new, heard' = [heard EXCEPT ![i] = new], NEW j \in Jobs
    PROVE  heard'[j] = IF i = j THEN new ELSE heard[j]
  BY DEF TypeInv, TypeOK

\* Whoever writes a step or a log has the job's row, or keeps it from going.
LEMMA BareProceed ==
    ASSUME JobInv, NEW t \in Tasks, Proceed(t), NEW j \in Jobs, ~Present(j), Bare(j)
    PROVE  Bare(j)'
  <1> DEFINE i == task[t].job
  <1>t. TypeInv /\ t \in Procs
    BY DEF JobInv, Procs
  <1>1. CASE UNCHANGED <<steps, heard>>
    BY <1>1 DEF Bare
  <1>2. CASE ClaimWrite(t) /\ ~UNCHANGED <<steps, heard>>
    <2>1. /\ Present(i) /\ heard' = heard
          /\ steps' = [steps EXCEPT ![i][Clone] = Started(steps[i][Clone])]
      BY <1>2 DEF ClaimWrite
    <2>2. \A s \in Steps : steps'[j][s] = steps[j][s]
      BY <1>t, <2>1, OneStep
    <2> QED
      BY <2>1, <2>2 DEF Bare
  <1>3. CASE LogCommit(t) /\ ~UNCHANGED <<steps, heard>>
    <2>1. /\ Present(i)
          /\ heard' = [heard EXCEPT ![i] = heard[i] \/ task[t].append]
          /\ steps' = steps \/ steps' = [steps EXCEPT ![i][task[t].step] = "running"]
      BY <1>3 DEF LogCommit
    <2>2. \A s \in Steps : steps'[j][s] = steps[j][s]
      <3>1. CASE steps' = steps
        BY <3>1
      <3>2. CASE steps' = [steps EXCEPT ![i][task[t].step] = "running"]
        BY <1>t, <2>1, <3>2, OneStep
      <3> QED
        BY <2>1, <3>1, <3>2
    <2>3. heard'[j] = heard[j]
      BY <1>t, <2>1, OneHeard
    <2> QED
      BY <2>2, <2>3 DEF Bare
  <1>4. CASE SaveCommit(t)
    <2>1. i \in Jobs /\ Holds(t, i)
      BY <1>4, <1>t DEF SaveCommit, At, Holds, TypeInv, ArgsOK
    <2>2. Present(i)
      BY <1>t, <2>1 DEF JobInv, HolderInv
    <2>3. /\ steps' = [steps EXCEPT ![i][task[t].step] = task[t].state]
          /\ \E h : heard' = [heard EXCEPT ![i] = h]
      BY <1>4 DEF SaveCommit
    <2>4. \A s \in Steps : steps'[j][s] = steps[j][s]
      BY <1>t, <2>2, <2>3, OneStep
    <2>5. heard'[j] = heard[j]
      BY <1>t, <2>2, <2>3, OneHeard
    <2> QED
      BY <2>4, <2>5 DEF Bare
  <1>5. CASE SaveParsed(t)
    <2>1. PICK logs \in BOOLEAN :
            heard' = [heard EXCEPT ![i] = heard[i] \/ (logs /\ \E s \in Steps : steps[i][s] # "none")]
      BY <1>5 DEF SaveParsed
    <2>2. heard'[j] = IF i = j THEN heard[i] \/ (logs /\ \E s \in Steps : steps[i][s] # "none") ELSE heard[j]
      BY <1>t, <2>1, OneHeard
    <2>3. ~heard'[j]
      BY <2>2 DEF Bare
    <2> QED
      BY <1>5, <2>3 DEF SaveParsed, Bare
  <1>6. CASE DeleteWrite(t)
    <2>1. /\ steps' = [steps EXCEPT ![i] = [s \in Steps |-> "none"]]
          /\ heard' = [heard EXCEPT ![i] = FALSE]
      BY <1>6 DEF DeleteWrite
    <2>2. \A s \in Steps : steps'[j][s] = "none"
      BY <1>t, <2>1, OneJobSteps DEF Bare
    <2>3. ~heard'[j]
      BY <1>t, <2>1, OneHeard DEF Bare
    <2> QED
      BY <2>2, <2>3 DEF Bare
  <1> QED
    BY <1>1, <1>2, <1>3, <1>4, <1>5, <1>6
       DEF Proceed, rows, CreateInsert, EnsureInsert, TerminalCheck, LogStep, LogNothing,
           LogJob, NoStep, SaveStep, Snapshot, Finalize, CancelWrite, DeleteStep

LEMMA BareNext ==
    ASSUME JobInv, [Next]_vars, NEW j \in Jobs, ~Present(j), Bare(j)
    PROVE  Bare(j)'
  <1>1. ASSUME NEW t \in Tasks, Proceed(t) PROVE Bare(j)'
    BY <1>1, BareProceed
  <1>2. ASSUME NEW p \in Procs, FailCommit(p) PROVE Bare(j)'
    <2> DEFINE i == task[p].job
               new == [s \in Steps |-> IF s \in task[p].todo THEN "finished" ELSE steps[i][s]]
    <2>1. i \in Jobs /\ Holds(p, i)
      BY <1>2 DEF FailCommit, At, Holds, JobInv, TypeInv, ArgsOK
    <2>2. Present(i)
      BY <2>1 DEF JobInv, HolderInv
    <2>3. steps' = [steps EXCEPT ![i] = new] /\ heard' = heard
      BY <1>2 DEF FailCommit
    <2>4. steps'[j] = steps[j]
      <3> HIDE DEF new
      <3> QED
        BY <2>2, <2>3, OneJobSteps DEF JobInv
    <2> QED
      BY <2>3, <2>4 DEF Bare
  <1>3. CASE UNCHANGED <<steps, heard>>
    BY <1>3 DEF Bare
  <1> QED
    BY <1>1, <1>2, <1>3
       DEF Next, vars, rows, StartPipeline, EnqueueFollowUp, EventAges, ClaimAges, Request,
           CreateCheck, ClaimRead, Callback, FailRead, CancelRead, DeleteRead, Fail,
           FailSelect, DeadlockVictim, DbError, Rollback, Reap, ReaperScan, ReaperCount,
           ReaperSleep, ReaperFail, ReaperError, Restart, EnginesDie

LEMMA DeletedNext ==
    ASSUME JobInv, DeleteIsComplete, [Next]_vars
    PROVE  DeleteIsComplete'
  <1> SUFFICES ASSUME NEW j \in Jobs, ~Present(j)' PROVE Bare(j)'
    BY DEF DeleteIsComplete, Bare
  <1>1. CASE ~Present(j)
    BY <1>1, BareNext DEF DeleteIsComplete, Bare
  <1>2. CASE Present(j)
    <2>1. PICK t \in Tasks : DeleteWrite(t) /\ task[t].job = j
      BY <1>2, Vanishes
    <2>2. /\ steps' = [steps EXCEPT ![j] = [s \in Steps |-> "none"]]
          /\ heard' = [heard EXCEPT ![j] = FALSE]
      BY <2>1 DEF DeleteWrite
    <2>3. steps'[j] = [s \in Steps |-> "none"]
      BY <2>2 DEF JobInv, TypeInv, TypeOK
    <2>4. heard'[j] = FALSE
      BY <2>2 DEF JobInv, TypeInv, TypeOK
    <2> QED
      BY <2>3, <2>4 DEF Bare
  <1> QED
    BY <1>1, <1>2

\* A deleted job leaves no step and no log behind, and no handler that read the
\* job before puts one back.
THEOREM Deleted == Spec => []DeleteIsComplete
  <1>1. Init => DeleteIsComplete
    BY DEF Init, DeleteIsComplete
  <1> QED
    BY <1>1, DeletedNext, JobInvCorrect, PTL DEF Spec

-----------------------------------------------------------------------------
(* Who is about to fail a job.                                                *)

FailPC == {"fail_select", "fail_commit"}

\* A step of q that makes no one fail a job.
Away(q) ==
    /\ task'[q].pc \notin FailPC
    /\ \A p \in Procs \ {q} : task'[p] = task[p]

LEMMA BecomeMoves ==
    ASSUME TypeInv, NEW q \in Procs, NEW s, Become(q, s)
    PROVE  task'[q] = s /\ \A p \in Procs \ {q} : task'[p] = task[p]
  BY DEF TypeInv, TypeOK, Become

LEMMA GotoMoves ==
    ASSUME TypeInv, NEW q \in Procs, NEW label, Goto(q, label)
    PROVE  task'[q].pc = label /\ \A p \in Procs \ {q} : task'[p] = task[p]
  BY DEF TypeInv, TypeOK, TaskState, Goto

LEMMA ReturnMoves ==
    ASSUME TypeInv, NEW q \in Procs, Return(q)
    PROVE  Away(q)
  <1>1. /\ task'[q] = (IF q = Reaper THEN [Idle EXCEPT !.pc = "reap"] ELSE Idle)
        /\ \A p \in Procs \ {q} : task'[p] = task[p]
    BY BecomeMoves DEF Return
  <1> QED
    BY <1>1 DEF Away, FailPC, Idle

LEMMA ToSnapshotMoves ==
    ASSUME TypeInv, NEW q \in Procs, ToSnapshot(q)
    PROVE  Away(q)
  <1> DEFINE new == [Idle EXCEPT !.pc = "snapshot", !.job = task[q].job]
  <1>1. task'[q] = new /\ \A p \in Procs \ {q} : task'[p] = task[p]
    BY BecomeMoves DEF ToSnapshot
  <1> QED
    BY <1>1 DEF Away, FailPC, Idle

\* A handler that becomes s, which fails nothing.
LEMMA BecomeAway ==
    ASSUME TypeInv, NEW q \in Procs, NEW s, Become(q, s), s.pc \notin FailPC
    PROVE  Away(q)
  BY BecomeMoves DEF Away

LEMMA AfterSaveMoves ==
    ASSUME TypeInv, NEW q \in Procs, AfterSave(q)
    PROVE  Away(q)
  <1> DEFINE new == [task[q] EXCEPT !.pc = "save_step", !.step = None, !.state = "none",
                                    !.fresh = FALSE, !.todo = @ \ {task[q].step}]
  <1>1. CASE ToSnapshot(q)
    BY <1>1, ToSnapshotMoves
  <1>2. CASE Become(q, new)
    <2>1. new.pc = "save_step"
      BY DEF TypeInv, TypeOK, TaskState
    <2> HIDE DEF new
    <2> QED
      BY <1>2, <2>1, BecomeAway DEF FailPC
  <1> QED
    BY <1>1, <1>2 DEF AfterSave

LEMMA GotoAway ==
    ASSUME TypeInv, NEW q \in Procs, NEW label, Goto(q, label), label \notin FailPC
    PROVE  Away(q)
  BY GotoMoves DEF Away

\* No statement of the other handlers fails a job.
LEMMA ProceedAway ==
    ASSUME TypeInv, NEW t \in Tasks, Proceed(t)
    PROVE  Away(t)
  <1>t. t \in Procs /\ task[t] \in TaskState
    BY DEF Procs, TypeInv, TypeOK
  <1>1. CASE Return(t)
    BY <1>t, <1>1, ReturnMoves
  <1>2. CASE ToSnapshot(t) \/ AfterSave(t)
    BY <1>t, <1>2, ToSnapshotMoves, AfterSaveMoves
  <1>3. CASE \E label : Goto(t, label) /\ label \notin FailPC
    BY <1>t, <1>3, GotoAway
  <1>4. CASE \E s : Become(t, s) /\ s.pc \notin FailPC
    BY <1>t, <1>4, BecomeAway
  <1>5. CASE EnsureInsert(t) \/ TerminalCheck(t)
    <2>1. Return(t) \/ Goto(t, "terminal_check") \/ Goto(t, Body[task[t].type])
      BY <1>5 DEF EnsureInsert, TerminalCheck
    <2>2. Body[task[t].type] \notin FailPC
      BY <1>t DEF Body, TaskState, CallbackType, FailPC
    <2> QED
      BY <1>1, <1>3, <2>1, <2>2 DEF FailPC
  <1>6. ASSUME NEW s \in Steps, LogStep(t, s) PROVE Away(t)
    <2>1. CASE Return(t)
      BY <1>1, <2>1
    <2>2. CASE \E f, a : Become(t, [task[t] EXCEPT !.pc = "log_job", !.step = s, !.fresh = f, !.append = a])
      <3>1. PICK f, a : Become(t, [task[t] EXCEPT !.pc = "log_job", !.step = s, !.fresh = f, !.append = a])
        BY <2>2
      <3>2. [task[t] EXCEPT !.pc = "log_job", !.step = s, !.fresh = f, !.append = a].pc = "log_job"
        BY <1>t DEF TaskState
      <3> QED
        BY <1>4, <3>1, <3>2 DEF FailPC
    <2> QED
      BY <1>6, <2>1, <2>2 DEF LogStep
  <1>7. CASE LogNothing(t) \/ LogJob(t)
    <2> DEFINE nothing == [Idle EXCEPT !.pc = "log_commit", !.job = task[t].job,
                                       !.seen = job[task[t].job].status]
               loaded == [task[t] EXCEPT !.pc = "log_commit", !.seen = job[task[t].job].status]
    <2>1. Become(t, nothing) \/ Become(t, loaded) \/ Return(t)
      BY <1>7 DEF LogNothing, LogJob
    <2>2. nothing.pc = "log_commit" /\ loaded.pc = "log_commit"
      BY <1>t DEF Idle, TaskState
    <2> HIDE DEF nothing, loaded
    <2> QED
      BY <1>t, <1>1, <2>1, <2>2, BecomeAway DEF FailPC
  <1>8. ASSUME NEW s \in Steps, NEW state \in Reported, SaveStep(t, s, state) PROVE Away(t)
    <2>1. CASE ToSnapshot(t)
      BY <1>2, <2>1
    <2> DEFINE saved == [task[t] EXCEPT !.pc = "save_commit", !.step = s, !.state = state,
                                        !.fresh = (steps[task[t].job][s] = "none")]
    <2>2. CASE Become(t, saved)
      <3>1. saved.pc = "save_commit"
        BY <1>t DEF TaskState
      <3> HIDE DEF saved
      <3> QED
        BY <1>4, <2>2, <3>1 DEF FailPC
    <2>3. CASE Become(t, [task[t] EXCEPT !.todo = task[t].todo \ {s}]) /\ At(t, "save_step")
      <3>1. [task[t] EXCEPT !.todo = task[t].todo \ {s}].pc = "save_step"
        BY <1>t, <2>3 DEF TaskState, At
      <3> QED
        BY <1>4, <2>3, <3>1 DEF FailPC
    <2> QED
      BY <1>8, <2>1, <2>2, <2>3 DEF SaveStep
  <1>9. ASSUME NEW final, NEW age, NEW todo, Finalize(t, final, age, todo) PROVE Away(t)
    <2>1. Become(t, [task[t] EXCEPT !.pc = "save_step", !.todo = todo])
      BY <1>9 DEF Finalize
    <2>2. [task[t] EXCEPT !.pc = "save_step", !.todo = todo].pc = "save_step"
      BY <1>t DEF TaskState
    <2> QED
      BY <1>4, <2>1, <2>2 DEF FailPC
  <1>10. ASSUME NEW s \in Steps, DeleteStep(t, s) PROVE Away(t)
    <2> DEFINE more == [task[t] EXCEPT !.todo = task[t].todo \cup {s}]
    <2>1. Become(t, more) /\ At(t, "delete_write")
      BY <1>10 DEF DeleteStep
    <2>2. more.pc = "delete_write"
      BY <1>t, <2>1 DEF TaskState, At
    <2> HIDE DEF more
    <2> QED
      BY <1>4, <2>1, <2>2 DEF FailPC
  <1> QED
    BY <1>1, <1>2, <1>5, <1>6, <1>7, <1>8, <1>9, <1>10
       DEF Proceed, CreateInsert, ClaimWrite, LogCommit, NoStep, SaveCommit, SaveParsed, Snapshot,
           CancelWrite, DeleteWrite

\* The one who fails a job has read it as a request, or as the reaper, who
\* takes it from its verdicts; then it selects the running steps.
FailMoves(p) ==
    \/ task'[p] = task[p]
    \/ FailSelect(p) /\ task'[p].pc = "fail_commit" /\ task'[p].job = task[p].job
         /\ task'[p].todo = {s \in Steps : steps[task[p].job][s] = "running"}
    \/ task'[p].pc = "fail_select" /\ (p = Reaper => task'[p].job \in stuck)

LEMMA AwayMoves ==
    ASSUME TypeInv, NEW q \in Procs, Away(q), NEW p \in Procs, task'[p].pc \in FailPC
    PROVE  FailMoves(p)
  BY DEF Away, FailMoves

LEMMA LoadMoves ==
    ASSUME TypeInv, NEW q \in Procs, NEW j \in Jobs, LoadForFail(q, j)
    PROVE  /\ task'[q].pc = "fail_select" /\ task'[q].job = j
           /\ \A p \in Procs \ {q} : task'[p] = task[p]
  <1> DEFINE new == [Idle EXCEPT !.pc = "fail_select", !.job = j, !.overall = job[j].overall]
  <1>1. task'[q] = new /\ \A p \in Procs \ {q} : task'[p] = task[p]
    BY BecomeMoves DEF LoadForFail
  <1>2. new.pc = "fail_select" /\ new.job = j
    BY DEF Idle
  <1> QED
    BY <1>1, <1>2

LEMMA FailMovesNext ==
    ASSUME TypeInv, [Next]_vars, NEW p \in Procs, task'[p].pc \in FailPC
    PROVE  FailMoves(p)
  <1>1. ASSUME NEW q \in Procs, Away(q) PROVE FailMoves(p)
    BY <1>1, AwayMoves
  <1>2. CASE task' = task
    BY <1>2 DEF FailMoves
  <1>3. ASSUME NEW t \in Tasks, Proceed(t) PROVE FailMoves(p)
    BY <1>1, <1>3, ProceedAway DEF Procs
  <1>4. ASSUME NEW t \in Tasks, Request(t) PROVE FailMoves(p)
    <2>1. CASE Away(t)
      BY <1>1, <2>1 DEF Procs
    <2>2. ASSUME NEW j \in Jobs, FailRead(t, j) PROVE FailMoves(p)
      <3>1. LoadForFail(t, j) /\ t \in Procs /\ t # Reaper
        BY <2>2, ReaperAssumption DEF FailRead, Procs
      <3>2. task'[t].pc = "fail_select" /\ \A q \in Procs \ {t} : task'[q] = task[q]
        BY <3>1, LoadMoves
      <3> QED
        BY <3>1, <3>2 DEF FailMoves
    <2>3. Away(t) \/ \E j \in Jobs : FailRead(t, j)
      <3>t. t \in Procs
        BY DEF Procs
      <3>1. ASSUME NEW g \in Targets, CreateCheck(t, g)
            PROVE  Away(t)
        <4> DEFINE new == [Idle EXCEPT !.pc = "create_insert", !.target = g]
        <4>1. Become(t, new) /\ new.pc \in {"create_insert"}
          BY <3>1 DEF CreateCheck, Idle
        <4> HIDE DEF new
        <4> QED
          BY <3>t, <4>1, BecomeAway DEF FailPC
      <3>2. ASSUME NEW j \in Jobs, NEW e \in Engines, ClaimRead(t, e, j)
            PROVE  Away(t)
        <4> DEFINE new == [Idle EXCEPT !.pc = "claim_write", !.job = j, !.engine = e]
        <4>1. Become(t, new) /\ new.pc \in {"claim_write"}
          BY <3>2 DEF ClaimRead, Idle
        <4> HIDE DEF new
        <4> QED
          BY <3>t, <4>1, BecomeAway DEF FailPC
      <3>3. ASSUME NEW j \in Jobs, NEW type \in CallbackType, Callback(t, j, type)
            PROVE  Away(t)
        <4> DEFINE new == [Idle EXCEPT !.pc = EnsureStep(j), !.job = j, !.type = type]
        <4>1. Become(t, new) /\ new.pc \in {"terminal_check", "ensure_insert"}
          BY <3>3 DEF Callback, EnsureStep, Idle
        <4> HIDE DEF new
        <4> QED
          BY <3>t, <4>1, BecomeAway DEF FailPC
      <3>4. ASSUME NEW j \in Jobs, CancelRead(t, j)
            PROVE  Away(t)
        <4> DEFINE new == [Idle EXCEPT !.pc = "cancel_write", !.job = j]
        <4>1. Become(t, new) /\ new.pc \in {"cancel_write"}
          BY <3>4 DEF CancelRead, Idle
        <4> HIDE DEF new
        <4> QED
          BY <3>t, <4>1, BecomeAway DEF FailPC
      <3>5. ASSUME NEW j \in Jobs, DeleteRead(t, j)
            PROVE  Away(t)
        <4> DEFINE new == [Idle EXCEPT !.pc = "delete_write", !.job = j]
        <4>1. Become(t, new) /\ new.pc \in {"delete_write"}
          BY <3>5 DEF DeleteRead, Idle
        <4> HIDE DEF new
        <4> QED
          BY <3>t, <4>1, BecomeAway DEF FailPC
      <3> QED
        BY <1>4, <3>1, <3>2, <3>3, <3>4, <3>5 DEF Request
    <2> QED
      BY <2>1, <2>2, <2>3
  <1>5. ASSUME NEW q \in Procs, FailSelect(q) PROVE FailMoves(p)
    <2> DEFINE running == {s \in Steps : steps[task[q].job][s] = "running"}
               new == [task[q] EXCEPT !.pc = "fail_commit", !.todo = running]
    <2>1. CASE Return(q)
      BY <1>1, <2>1, ReturnMoves
    <2>2. CASE Become(q, new)
      <3>1. new.pc = "fail_commit" /\ new.job = task[q].job /\ new.todo = running
        BY DEF TypeInv, TypeOK, TaskState
      <3> HIDE DEF new
      <3>2. task'[q] = new /\ \A r \in Procs \ {q} : task'[r] = task[r]
        BY <2>2, BecomeMoves
      <3> QED
        BY <1>5, <3>1, <3>2 DEF FailMoves
    <2> QED
      BY <1>5, <2>1, <2>2 DEF FailSelect
  <1>6. ASSUME NEW q \in Procs, FailCommit(q) PROVE FailMoves(p)
    BY <1>1, <1>6, ReturnMoves DEF FailCommit
  <1>7. ASSUME NEW q \in Procs, Rollback(q) PROVE FailMoves(p)
    <2>1. \/ \E label \in {"terminal_check", "save_step", Body[task[q].type]} : Goto(q, label)
          \/ AfterSave(q) \/ Return(q)
      BY <1>7 DEF Rollback
    <2>2. {"terminal_check", "save_step", Body[task[q].type]} \cap FailPC = {}
      BY DEF TypeInv, TypeOK, Body, TaskState, CallbackType, FailPC
    <2>3. Away(q)
      BY <2>1, <2>2, GotoAway, AfterSaveMoves, ReturnMoves
    <2> QED
      BY <1>1, <2>3
  <1>8. CASE Reap \/ ReaperError
    <2>r. Reaper \in Procs
      BY DEF Procs
    <2>1. ASSUME NEW j \in Jobs, ReaperFail(j) PROVE FailMoves(p)
      <3>1. CASE LoadForFail(Reaper, j)
        <4>1. /\ task'[Reaper].pc = "fail_select" /\ task'[Reaper].job = j
              /\ \A r \in Procs \ {Reaper} : task'[r] = task[r]
          BY <2>r, <3>1, LoadMoves
        <4> QED
          BY <2>1, <4>1 DEF ReaperFail, FailMoves
      <3> QED
        BY <1>2, <2>1, <3>1 DEF ReaperFail
    <2>2. CASE ReaperScan \/ ReaperCount
      <3>1. task' = task \/ Goto(Reaper, "count") \/ Goto(Reaper, "reap")
        BY <2>2 DEF ReaperScan, ReaperCount
      <3> QED
        BY <1>1, <1>2, <2>r, <3>1, GotoAway DEF FailPC
    <2>3. CASE ReaperSleep \/ ReaperError
      <3>1. Become(Reaper, Idle) /\ Idle.pc \notin FailPC
        BY <2>3 DEF ReaperSleep, ReaperError, Idle, FailPC
      <3> QED
        BY <1>1, <2>r, <3>1, BecomeAway
    <2> QED
      BY <1>8, <2>1, <2>2, <2>3 DEF Reap
  <1>9. CASE Restart
    BY <1>9 DEF Restart, Idle, FailPC
  <1> QED
    BY <1>2, <1>3, <1>4, <1>5, <1>6, <1>7, <1>8, <1>9
       DEF Next, vars, StartPipeline, EnqueueFollowUp, EventAges, ClaimAges, Fail,
           DeadlockVictim, DbError, EnginesDie

-----------------------------------------------------------------------------
(* The reaper.                                                                *)

Taken(j) == j \in issued /\ job[j].status # "queued"

\* The rows the reaper has scanned, its verdicts and the job it fails: running
\* once, they are not queued again.
ReaperInv ==
    /\ \A r \in scan : Taken(r.job)
    /\ \A j \in stuck : Taken(j)
    /\ task[Reaper].pc \in FailPC => Taken(task[Reaper].job)

LEMMA TakenStays ==
    ASSUME JobInv, [Next]_vars, NEW j \in Jobs, Taken(j)
    PROVE  Taken(j)'
  BY NewInQueue, IssuedGrows DEF Taken

LEMMA ReaperListsNext ==
    ASSUME TypeInv, [Next]_vars
    PROVE  /\ scan' \subseteq scan \cup Suspects
           /\ stuck' \subseteq stuck \cup {r.job : r \in scan}
  <1>1. CASE UNCHANGED <<scan, stuck>>
    BY <1>1
  <1>2. CASE ReaperScan
    BY <1>2 DEF ReaperScan
  <1>3. CASE ReaperCount
    BY <1>3 DEF ReaperCount
  <1>4. CASE \E j \in Jobs : ReaperFail(j)
    BY <1>4 DEF ReaperFail
  <1>5. CASE ReaperError \/ Restart
    BY <1>5 DEF ReaperError, Restart
  <1> QED
    BY <1>1, <1>2, <1>3, <1>4, <1>5
       DEF Next, vars, reaperVars, StartPipeline, EnqueueFollowUp, EventAges, ClaimAges, Request,
           CreateCheck, ClaimRead, Callback, FailRead, CancelRead, DeleteRead, Proceed,
           CreateInsert, ClaimWrite, EnsureInsert, TerminalCheck, LogStep, LogNothing, LogJob,
           LogCommit, NoStep, SaveStep, SaveCommit, SaveParsed, Snapshot, Finalize, CancelWrite,
           DeleteStep, DeleteWrite, Fail, FailSelect, FailCommit, DeadlockVictim, DbError, Rollback, Reap,
           ReaperSleep, EnginesDie

LEMMA ReaperInvNext ==
    ASSUME JobInv, ReaperInv, [Next]_vars
    PROVE  ReaperInv'
  <1>t. TypeInv /\ Reaper \in Procs
    BY DEF JobInv, Procs
  <1>1. \A r \in Suspects : r.job \in Jobs /\ Taken(r.job)
    BY DEF Suspects, Taken, JobInv, RowInv, Present
  <1>2. /\ \A r \in scan : r.job \in Jobs
        /\ \A j \in stuck : j \in Jobs
        /\ task[Reaper].pc \in FailPC => task[Reaper].job \in Jobs
    BY <1>t DEF TypeInv, TypeOK, ArgsOK, FailPC
  <1>3. ASSUME NEW r \in scan' PROVE Taken(r.job)'
    <2>1. r.job \in Jobs /\ Taken(r.job)
      BY <1>t, <1>1, <1>2, <1>3, ReaperListsNext DEF ReaperInv
    <2> QED
      BY <2>1, TakenStays
  <1>4. ASSUME NEW j \in stuck' PROVE Taken(j)'
    <2>1. j \in Jobs /\ Taken(j)
      BY <1>t, <1>2, <1>4, ReaperListsNext DEF ReaperInv
    <2> QED
      BY <2>1, TakenStays
  <1>5. ASSUME task'[Reaper].pc \in FailPC PROVE Taken(task[Reaper].job)'
    <2>1. FailMoves(Reaper)
      BY <1>t, <1>5, FailMovesNext
    <2>2. CASE task'[Reaper] = task[Reaper]
      BY <1>2, <1>5, <2>2, TakenStays DEF ReaperInv, Taken
    <2>3. CASE FailSelect(Reaper) /\ task'[Reaper].job = task[Reaper].job
      <3>1. task[Reaper].pc \in FailPC
        BY <2>3 DEF FailSelect, At, FailPC
      <3> QED
        BY <1>2, <2>3, <3>1, TakenStays DEF ReaperInv, Taken
    <2>4. CASE task'[Reaper].job \in stuck
      BY <1>2, <2>4, TakenStays DEF ReaperInv, Taken
    <2> QED
      BY <2>1, <2>2, <2>3, <2>4 DEF FailMoves
  <1> QED
    BY <1>3, <1>4, <1>5 DEF ReaperInv

LEMMA ReaperInvCorrect == Spec => []ReaperInv
  <1>1. Init => ReaperInv
    BY DEF Init, ReaperInv, Idle, FailPC, Procs
  <1> QED
    BY <1>1, ReaperInvNext, JobInvCorrect, PTL DEF Spec

\* A job the reaper fails had been taken from the queue, for any number of jobs
\* in its scan and whatever happened to them since.
THEOREM QueueSpared == Spec => ReaperSparesQueued
  <1>1. JobInv /\ ReaperInv =>
          [FailCommit(Reaper) => job[task[Reaper].job].status # "queued"]_vars
    BY DEF FailCommit, At, ReaperInv, Taken, FailPC
  <1> QED
    BY <1>1, ReaperInvCorrect, JobInvCorrect, PTL DEF Spec, ReaperSparesQueued

-----------------------------------------------------------------------------
(* The steps of a failing job.                                                *)

\* Between the SELECT of the running steps and the commit no other step starts:
\* whoever starts one writes the job's row, which is locked.
SettleInv ==
    \A p \in Procs : At(p, "fail_commit") =>
        \A s \in Steps \ {Clone} :
            steps[task[p].job][s] = "running" => s \in task[p].todo

LEMMA StartsProceed ==
    ASSUME JobInv, NEW t \in Tasks, Proceed(t), NEW j \in Jobs, ~RowFree(j),
           NEW s \in Steps \ {Clone}
    PROVE  steps'[j][s] \in {steps[j][s], "none", "finished"}
  <1> DEFINE i == task[t].job
  <1>t. TypeInv /\ t \in Procs
    BY DEF JobInv, Procs
  <1>1. CASE UNCHANGED steps
    BY <1>1
  <1>2. CASE ClaimWrite(t) /\ ~UNCHANGED steps
    <2>1. steps' = [steps EXCEPT ![i][Clone] = Started(steps[i][Clone])]
      BY <1>2 DEF ClaimWrite
    <2> QED
      BY <1>t, <2>1, OneStep
  <1>3. CASE LogCommit(t) /\ ~UNCHANGED steps
    <2>1. RowFree(i) /\ steps' = [steps EXCEPT ![i][task[t].step] = "running"]
      BY <1>3 DEF LogCommit
    <2> QED
      BY <1>t, <2>1, OneStep
  <1>4. CASE SaveCommit(t)
    <2>1. RowFree(i) /\ steps' = [steps EXCEPT ![i][task[t].step] = task[t].state]
      BY <1>4 DEF SaveCommit
    <2> QED
      BY <1>t, <2>1, OneStep
  <1>5. CASE DeleteWrite(t)
    <2>1. steps' = [steps EXCEPT ![i] = [r \in Steps |-> "none"]]
      BY <1>5 DEF DeleteWrite
    <2> QED
      BY <1>t, <2>1, OneJobSteps
  <1> QED
    BY <1>1, <1>2, <1>3, <1>4, <1>5
       DEF Proceed, rows, CreateInsert, EnsureInsert, TerminalCheck, LogStep, LogNothing,
           LogJob, NoStep, SaveStep, SaveParsed, Snapshot, Finalize, CancelWrite,
           DeleteStep

LEMMA FailSteps ==
    ASSUME TypeInv, NEW p \in Procs, FailCommit(p), NEW j \in Jobs, NEW s \in Steps
    PROVE  steps'[j][s] = IF task[p].job = j /\ s \in task[p].todo THEN "finished" ELSE steps[j][s]
  <1> DEFINE new == [r \in Steps |-> IF r \in task[p].todo THEN "finished" ELSE steps[task[p].job][r]]
  <1>1. steps' = [steps EXCEPT ![task[p].job] = new]
    BY DEF FailCommit
  <1>2. steps'[j] = IF task[p].job = j THEN new ELSE steps[j]
    <2> HIDE DEF new
    <2> QED
      BY <1>1, OneJobSteps
  <1> QED
    BY <1>2

LEMMA StartsNext ==
    ASSUME JobInv, [Next]_vars, NEW j \in Jobs, ~RowFree(j), NEW s \in Steps \ {Clone}
    PROVE  steps'[j][s] \in {steps[j][s], "none", "finished"}
  <1>1. ASSUME NEW t \in Tasks, Proceed(t) PROVE steps'[j][s] \in {steps[j][s], "none", "finished"}
    BY <1>1, StartsProceed
  <1>2. ASSUME NEW p \in Procs, FailCommit(p) PROVE steps'[j][s] \in {steps[j][s], "none", "finished"}
    BY <1>2, FailSteps DEF JobInv
  <1>3. CASE UNCHANGED steps
    BY <1>3
  <1> QED
    BY <1>1, <1>2, <1>3
       DEF Next, vars, rows, StartPipeline, EnqueueFollowUp, EventAges, ClaimAges, Request,
           CreateCheck, ClaimRead, Callback, FailRead, CancelRead, DeleteRead, Fail,
           FailSelect, DeadlockVictim, DbError, Rollback, Reap, ReaperScan, ReaperCount,
           ReaperSleep, ReaperFail, ReaperError, Restart, EnginesDie

LEMMA SettleInvNext ==
    ASSUME JobInv, SettleInv, [Next]_vars
    PROVE  SettleInv'
  <1> SUFFICES ASSUME NEW p \in Procs, task'[p].pc = "fail_commit", NEW s \in Steps \ {Clone},
                      steps'[task'[p].job][s] = "running"
               PROVE  s \in task'[p].todo
    BY DEF SettleInv, At
  <1>1. FailMoves(p)
    BY FailMovesNext DEF FailPC, JobInv
  <1>2. CASE task'[p] = task[p]
    <2>1. task[p].job \in Jobs /\ ~RowFree(task[p].job)
      BY <1>2 DEF JobInv, TypeInv, ArgsOK, RowFree, At
    <2>2. steps[task[p].job][s] = "running"
      BY <1>2, <2>1, StartsNext
    <2> QED
      BY <1>2, <2>2 DEF SettleInv, At
  <1>3. CASE FailSelect(p) /\ task'[p].job = task[p].job
               /\ task'[p].todo = {r \in Steps : steps[task[p].job][r] = "running"}
    BY <1>3 DEF FailSelect, rows
  <1> QED
    BY <1>1, <1>2, <1>3 DEF FailMoves

LEMMA SettleInvCorrect == Spec => []SettleInv
  <1>1. Init => SettleInv
    BY DEF Init, SettleInv, At, Idle
  <1> QED
    BY <1>1, SettleInvNext, JobInvCorrect, PTL DEF Spec

\* When a failure commits, no step that a callback reported is left running,
\* for any number of steps and handlers.
THEOREM StepsSettled == Spec => FailSettlesSteps
  <1>1. ASSUME JobInv, SettleInv, NEW p \in Procs, FailCommit(p), NEW s \in Steps \ {Clone}
        PROVE  steps'[task[p].job][s] # "running"
    <2>1. task[p].job \in Jobs /\ At(p, "fail_commit")
      BY <1>1 DEF FailCommit, At, JobInv, TypeInv, ArgsOK
    <2>2. steps'[task[p].job][s] = IF s \in task[p].todo THEN "finished" ELSE steps[task[p].job][s]
      BY <1>1, <2>1, FailSteps DEF JobInv
    <2> QED
      BY <1>1, <2>1, <2>2 DEF SettleInv
  <1>2. JobInv /\ SettleInv =>
          [\A p \in Procs : FailCommit(p) =>
             \A s \in Steps \ {Clone} : steps'[task[p].job][s] # "running"]_vars
    BY <1>1
  <1> QED
    BY <1>2, SettleInvCorrect, JobInvCorrect, PTL DEF Spec, FailSettlesSteps
===============================================================================
