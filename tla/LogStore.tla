------------------------------- MODULE LogStore -------------------------------
(***************************************************************************)
(* The logs of one job, as the callbacks of app/main.py write them:         *)
(* log_batch appends the lines a step prints while it runs, step_complete   *)
(* replaces them by the step's whole log, pipeline_complete saves every     *)
(* step again and then the log of the pipeline cut per step.                *)
(*                                                                          *)
(* The engine retries a callback whose answer is late, so a message may be  *)
(* received again, late, and while its first delivery is still handled:     *)
(* what was sent stays in sent.  A handler is a transaction or a sequence   *)
(* of transactions; its advisory locks are held until the transaction ends, *)
(* its SELECTs see what is committed (and its own writes), and its writes   *)
(* become visible at its commit.                                            *)
(*                                                                          *)
(* A line of a step's log is its sequence number in the stream; the size of *)
(* a log is what its lines come to.  Hashes, levels and line counts are     *)
(* functions of the lines and are left out; a step is finished or not       *)
(* (success, failed and skipped are one).                                   *)
(***************************************************************************)
EXTENDS Naturals, Sequences, FiniteSets

CONSTANTS
    Steps,          \* the names of the steps
    Order,          \* the steps in the order the engine lists them
    Requests,       \* callback requests in flight at the same time
    Length,         \* the number of lines each step prints
    Bytes,          \* the length of each of these lines, in UTF-8
    Meta,           \* the lines of internal state, as <<step, line>>
    Kept,           \* how many last lines of a step the final callback keeps
    Listed,         \* the steps in the "steps" list of the final callback
    None,           \* no value
    MaxDeliveries,  \* bound on the requests received
    Faults          \* database errors: "batch" (in a log_batch), "step" (in a
                    \* step_complete), "final" (in the saves of the final
                    \* callback), "parse" (in its last transaction)

ASSUME StepsAssumption == IsFiniteSet(Steps) /\ Order \in Seq(Steps)
ASSUME LengthAssumption == Length \in [Steps -> Nat] /\ Kept \in Nat
\* A line has text: a first line without any would be dropped by the next batch.
ASSUME BytesAssumption == \A s \in Steps : Bytes[s] \in [1..Length[s] -> Nat \ {0}]
ASSUME ListedAssumption == Listed \subseteq Steps
ASSUME FaultsAssumption == Faults \subseteq {"batch", "step", "final", "parse"}
ASSUME BoundAssumption == MaxDeliveries \in Nat

\* The member of a set of numbers that k - 1 others precede.
Nth(set, k) == CHOOSE n \in set : Cardinality({m \in set : m < n}) = k - 1

\* The elements of a sequence at some positions, in their order: what a loop
\* keeps that passes over the others.
Pick(seq, positions) ==
    [k \in 1..Cardinality(positions) |-> seq[Nth(positions, k)]]

VARIABLES
    streamed,   \* the engine: how many lines of each step it put in a batch
    ended,      \* the engine: the steps that are over
    sent,       \* the engine: the callbacks sent at least once
    received,   \* the requests received so far
    logs,       \* step_logs: the rows of each step, oldest first
    cursor,     \* pipeline_steps.metadata.log_sequence_end
    finished,   \* the steps whose row is success, failed or skipped
    reported,   \* the steps with a callback_received_at
    completed,  \* pipeline_jobs.completed_steps
    terminal,   \* pipeline_jobs.status is terminal
    exposed,    \* history: the steps whose log the last transaction of a final
                \* callback wrote although the step was not over
    req         \* the handlers in flight

engine == <<streamed, ended, sent>>
rows == <<logs, cursor, finished, reported, completed, terminal, exposed>>
vars == <<engine, received, rows, req>>

Source == {"log_batch", "step_complete", "pipeline_complete"}
Lines == Seq(Nat)
Row == [lines : Lines, source : Source]
Group == [step : Steps, lines : Lines]
Message == [type : Source, groups : Seq(Group), logs : Seq(Group)]

\* A write of step_logs that waits for its commit.
Write == [insert : BOOLEAN, row : Row]

ASSUME NoneAssumption == None \notin Write

PC == {"idle", "append", "save_lock", "save_read", "save_commit", "finalize",
       "parse"}

\* locks: the keys pipeline-step:<job>:<step> it holds; logLocks: the keys
\* step-log:<step>; loaded and count: completed_steps as read and as counted.
Handler == [pc : PC, type : Source, todo : Seq(Group), logs : Seq(Group),
            locks : SUBSET Steps, logLocks : SUBSET Steps,
            writes : [Steps -> Write \cup {None}],
            loaded : 0..Cardinality(Steps), count : 0..Cardinality(Steps)]

NoWrites == [s \in Steps |-> None]

Idle == [pc |-> "idle", type |-> "log_batch", todo |-> <<>>, logs |-> <<>>,
         locks |-> {}, logLocks |-> {}, writes |-> NoWrites,
         loaded |-> 0, count |-> 0]

At(r, label) == req[r].pc = label
Become(r, state) == req' = [req EXCEPT ![r] = state]
Busy(r) == req[r].todo # <<>>
Current(r) == Head(req[r].todo).step

Init ==
    /\ streamed = [s \in Steps |-> 0]
    /\ ended = {}
    /\ sent = {}
    /\ received = 0
    /\ logs = [s \in Steps |-> <<>>]
    /\ cursor = [s \in Steps |-> 0]
    /\ finished = {}
    /\ reported = {}
    /\ completed = 0
    /\ terminal = FALSE
    /\ exposed = {}
    /\ req = [r \in Requests |-> Idle]

-----------------------------------------------------------------------------
(* The engine.                                                              *)

Printed(s) == [n \in 1..Length[s] |-> n]
KeptLines(s) == Pick(Printed(s), {n \in 1..Length[s] : n + Kept > Length[s]})

Send(m) == sent' = sent \cup {m}

\* The steps of a batch, in the order their events come.
Orders == {o \in UNION {[1..n -> Steps] : n \in 1..Cardinality(Steps)} :
             \A i, k \in DOMAIN o : i # k => o[i] # o[k]}

\* A batch: the next line of some running steps.
SendBatch(order) ==
    /\ \A i \in DOMAIN order : order[i] \notin ended /\ streamed[order[i]] < Length[order[i]]
    /\ Send([type |-> "log_batch", logs |-> <<>>,
             groups |-> [i \in DOMAIN order |->
               [step |-> order[i], lines |-> <<streamed[order[i]] + 1>>]]])
    /\ streamed' = [s \in Steps |->
         IF \E i \in DOMAIN order : order[i] = s THEN streamed[s] + 1 ELSE streamed[s]]
    /\ UNCHANGED <<ended, received, rows, req>>

SendStepComplete(s) ==
    /\ s \notin ended
    /\ ended' = ended \cup {s}
    /\ Send([type |-> "step_complete", logs |-> <<>>,
             groups |-> <<[step |-> s, lines |-> Printed(s)]>>])
    /\ UNCHANGED <<streamed, received, rows, req>>

FinalGroups == [i \in DOMAIN Order |-> [step |-> Order[i], lines |-> KeptLines(Order[i])]]

SendPipelineComplete ==
    /\ ended = Steps
    /\ Send([type |-> "pipeline_complete", logs |-> FinalGroups,
             groups |-> Pick(FinalGroups, {i \in DOMAIN Order : Order[i] \in Listed})])
    /\ UNCHANGED <<streamed, ended, received, rows, req>>

-----------------------------------------------------------------------------
(* receive_result.                                                          *)

FirstPC(type) == CASE type = "log_batch" -> "append"
                   [] type = "step_complete" -> "save_lock"
                   [] type = "pipeline_complete" -> "finalize"

\* The callback of a terminal job is ignored.
Receive(r, m) ==
    /\ At(r, "idle")
    /\ received < MaxDeliveries
    /\ received' = received + 1
    /\ IF terminal THEN UNCHANGED req
       ELSE Become(r, [Idle EXCEPT !.pc = FirstPC(m.type), !.type = m.type,
                                   !.todo = m.groups, !.logs = m.logs])
    /\ UNCHANGED <<engine, rows>>

-----------------------------------------------------------------------------
(* What transactions read and write.                                        *)

\* Mutant: without the advisory lock.
StepLockIgnored(r, s) == TRUE

StepLockFree(r, s) == \A q \in Requests \ {r} : s \notin req[q].locks
LogLockFree(r, s) == \A q \in Requests \ {r} : s \notin req[q].logLocks

\* The row both writers look at: the first by log_id.
Stored(s) == IF logs[s] = <<>> THEN <<>> ELSE logs[s][1].lines

\* A row of pipeline_steps exists: of the step's own callbacks.  The row of the
\* clone step that claim_job inserts, and the end that _fail_job_in_db writes, are
\* left to JobLifecycle.
Known(s) == s \in finished \/ logs[s] # <<>>

Put(s, lines, source) ==
    [insert |-> logs[s] = <<>>, row |-> [lines |-> lines, source |-> source]]

Applied(s, w) ==
    IF w = None THEN logs[s]
    ELSE IF w.insert THEN Append(logs[s], w.row)
    ELSE [logs[s] EXCEPT ![1] = w.row]

Commit(r) == logs' = [s \in Steps |-> Applied(s, req[r].writes[s])]

-----------------------------------------------------------------------------
(* _append_stream_log_batch.                                                *)

\* Mutant: events that were stored already are appended again.
EveryLine(s, lines) == lines

NewLines(s, lines) == Pick(lines, {i \in DOMAIN lines : lines[i] > cursor[s]})

\* Mutant: a batch that comes after the step's end is appended.
NeverClosed(s) == FALSE

Closed(s) == s \in finished

\* One step of the batch: its lock, then its row and its log.
AppendGroup(r) ==
    /\ At(r, "append")
    /\ Busy(r)
    /\ LET g == Head(req[r].todo)
           s == g.step
           new == NewLines(s, g.lines) IN
         /\ StepLockFree(r, s)
         /\ Become(r, [req[r] EXCEPT
              !.todo = Tail(@),
              !.locks = @ \cup {s},
              !.writes[s] = IF Closed(s) \/ new = <<>> THEN @
                            ELSE Put(s, Stored(s) \o new, "log_batch")])
    /\ UNCHANGED <<engine, received, rows>>

AppendCommit(r) ==
    /\ At(r, "append")
    /\ ~Busy(r)
    /\ Commit(r)
    /\ cursor' = [s \in Steps |->
         LET w == req[r].writes[s] IN
           IF w = None THEN cursor[s] ELSE w.row.lines[Len(w.row.lines)]]
    /\ Become(r, Idle)
    /\ UNCHANGED <<engine, received, finished, reported, completed, terminal, exposed>>

\* An error rolls the transaction back, wherever it comes; it is taken at the
\* end.  It is swallowed: every event of the batch is acknowledged.
AppendFails(r) ==
    /\ At(r, "append")
    /\ ~Busy(r)
    /\ "batch" \in Faults
    /\ Become(r, Idle)
    /\ UNCHANGED <<engine, received, rows>>

\* Mutant: the locks are the process's own (asyncio.Lock), and the server, which
\* would break a cycle of waits, sees none.
WaitsUnseen(r, q) == FALSE

\* q holds the advisory lock r waits for.
WaitsFor(r, q) ==
    /\ r # q
    /\ req[r].pc \in {"append", "save_lock"} /\ Busy(r) /\ Current(r) \in req[q].locks

\* PostgreSQL aborts a transaction of a cycle of waits.  Only a batch holds a
\* step's lock while it asks for the next one's.
DeadlockVictim(r) ==
    /\ At(r, "append")
    /\ \E cycle \in SUBSET Requests :
         /\ r \in cycle
         /\ \A q \in cycle : \E p \in cycle : WaitsFor(q, p)
         /\ \A q \in cycle : \E p \in cycle : WaitsFor(p, q)
    /\ Become(r, Idle)
    /\ UNCHANGED <<engine, received, rows>>

-----------------------------------------------------------------------------
(* _upsert_step_log.                                                        *)

\* _normalise_step_log_lines
Normalised(s, lines) == Pick(lines, {i \in DOMAIN lines : <<s, lines[i]>> \notin Meta})

\* The bytes of a log: those of its lines, each with the newline after it.
Octets(s, lines) == UNION {{i} \X (0..Bytes[s][lines[i]]) : i \in DOMAIN lines}

\* size_bytes, and one more for a newline at the end.
Size(s, lines) == Cardinality(Octets(s, lines))

\* Mutant: the last log wins, however short.
AlwaysReplaces(s, lines, source) == TRUE

\* Mutant: the logs are compared by their lines.
ReplacesByLines(s, lines, source) ==
    \/ logs[s] = <<>>
    \/ source = "step_complete" /\ logs[s][1].source = "log_batch"
    \/ Len(lines) >= Len(Stored(s))

\* A log that is no smaller replaces the stored one, and the log of a completed
\* step what was streamed.
Replaces(s, lines, source) ==
    \/ logs[s] = <<>>
    \/ source = "step_complete" /\ logs[s][1].source = "log_batch"
    \/ Size(s, lines) >= Size(s, Stored(s))

Upsert(s, raw, source) ==
    LET lines == Normalised(s, raw) IN
      IF lines # <<>> /\ Replaces(s, lines, source) THEN Put(s, lines, source) ELSE None

\* No lock is taken for a log without a user's line.
LogKeys(s, raw) == IF Normalised(s, raw) = <<>> THEN {} ELSE {s}

-----------------------------------------------------------------------------
(* _save_step_to_db.                                                        *)

SaveLock(r) ==
    /\ At(r, "save_lock")
    /\ StepLockFree(r, Current(r))
    /\ Become(r, [req[r] EXCEPT !.pc = "save_read", !.locks = {Current(r)}])
    /\ UNCHANGED <<engine, received, rows>>

\* Mutant: the step is counted on top of those already finished.
CountTwice(s) == Cardinality(finished) + 1

\* Mutant: the count lacks its filter on the status.
CountEvery(s) == Cardinality({k \in Steps : Known(k)} \cup {s})

\* The SELECT count sees this transaction's step as finished.
Count(s) == Cardinality(finished \cup {s})

SaveRead(r) ==
    /\ At(r, "save_read")
    /\ LET g == Head(req[r].todo)
           keys == LogKeys(g.step, g.lines) IN
         /\ \A s \in keys : LogLockFree(r, s)
         /\ Become(r, [req[r] EXCEPT !.pc = "save_commit", !.logLocks = keys,
                         !.writes[g.step] = Upsert(g.step, g.lines, req[r].type),
                         !.loaded = completed, !.count = Count(g.step)])
    /\ UNCHANGED <<engine, received, rows>>

\* The transaction is over, and its locks with it.
Ended(state, pc, todo) ==
    [state EXCEPT !.pc = pc, !.todo = todo, !.locks = {}, !.logLocks = {},
                  !.writes = NoWrites, !.loaded = 0, !.count = 0]

\* After one step is saved, or could not be: the handler of step_complete
\* answers, that of pipeline_complete goes on.
AfterSave(state) ==
    IF state.type = "step_complete" THEN Idle
    ELSE IF Len(state.todo) > 1 THEN Ended(state, "save_lock", Tail(state.todo))
    ELSE Ended(state, "parse", state.logs)

SaveCommit(r) ==
    /\ At(r, "save_commit")
    /\ Commit(r)
    /\ finished' = finished \cup {Current(r)}
    /\ reported' = IF req[r].type = "step_complete"
                   THEN reported \cup {Current(r)} ELSE reported
    /\ completed' = IF req[r].count # req[r].loaded THEN req[r].count ELSE completed
    /\ Become(r, AfterSave(req[r]))
    /\ UNCHANGED <<engine, received, cursor, terminal, exposed>>

SaveFails(r) ==
    /\ At(r, "save_commit")
    /\ IF req[r].type = "step_complete" THEN "step" \in Faults ELSE "final" \in Faults
    /\ Become(r, AfterSave(req[r]))
    /\ UNCHANGED <<engine, received, rows>>

-----------------------------------------------------------------------------
(* pipeline_complete: _finalize_job_in_db, then _save_parsed_data_to_db, of *)
(* which only _save_log_lines writes logs.                                  *)

Finalize(r) ==
    /\ At(r, "finalize")
    /\ terminal' = TRUE
    /\ Become(r, IF Busy(r) THEN [req[r] EXCEPT !.pc = "save_lock"]
                 ELSE Ended(req[r], "parse", req[r].logs))
    /\ UNCHANGED <<engine, received, logs, cursor, finished, reported, completed,
                   exposed>>

FinalizeFails(r) ==
    /\ At(r, "finalize")
    /\ "final" \in Faults
    /\ Become(r, Ended(req[r], "parse", req[r].logs))
    /\ UNCHANGED <<engine, received, rows>>

\* A step without a row is passed over.
ParseStep(r) ==
    /\ At(r, "parse")
    /\ Busy(r)
    /\ LET g == Head(req[r].todo)
           s == g.step
           keys == IF Known(s) THEN LogKeys(s, g.lines) ELSE {} IN
         /\ \A k \in keys : LogLockFree(r, k)
         /\ Become(r, [req[r] EXCEPT
              !.todo = Tail(@),
              !.logLocks = @ \cup keys,
              !.writes[s] = IF keys = {} THEN @
                            ELSE Upsert(s, g.lines, "pipeline_complete")])
         /\ exposed' = exposed \cup (keys \ finished)
    /\ UNCHANGED <<engine, received, logs, cursor, finished, reported, completed,
                   terminal>>

ParseCommit(r) ==
    /\ At(r, "parse")
    /\ ~Busy(r)
    /\ Commit(r)
    /\ Become(r, Idle)
    /\ UNCHANGED <<engine, received, cursor, finished, reported, completed, terminal,
                   exposed>>

ParseFails(r) ==
    /\ At(r, "parse")
    /\ ~Busy(r)
    /\ "parse" \in Faults
    /\ Become(r, Idle)
    /\ UNCHANGED <<engine, received, rows>>

-----------------------------------------------------------------------------
Engine ==
    \/ \E order \in Orders : SendBatch(order)
    \/ \E s \in Steps : SendStepComplete(s)
    \/ SendPipelineComplete

Handle(r) ==
    \/ AppendGroup(r) \/ AppendCommit(r) \/ DeadlockVictim(r)
    \/ SaveLock(r) \/ SaveRead(r) \/ SaveCommit(r)
    \/ Finalize(r) \/ ParseStep(r) \/ ParseCommit(r)

Fails(r) == AppendFails(r) \/ SaveFails(r) \/ FinalizeFails(r) \/ ParseFails(r)

Next ==
    \/ Engine
    \/ \E r \in Requests : Handle(r) \/ Fails(r) \/ \E m \in sent : Receive(r, m)

Spec == Init /\ [][Next]_vars

\* The event loop resumes a handler whose database call can return.
FairSpec == Spec /\ \A r \in Requests : WF_vars(Handle(r))

-----------------------------------------------------------------------------
(* Properties.                                                              *)

\* Every variable holds a value of its kind.
TypeOK ==
    /\ streamed \in [Steps -> Nat]
    /\ ended \subseteq Steps
    /\ \A m \in sent : m \in Message
    /\ received \in 0..MaxDeliveries
    /\ logs \in [Steps -> Seq(Row)]
    /\ cursor \in [Steps -> Nat]
    /\ finished \subseteq Steps
    /\ reported \subseteq finished
    /\ completed \in 0..Cardinality(Steps)
    /\ terminal \in BOOLEAN
    /\ exposed \subseteq Steps
    /\ req \in [Requests -> Handler]

\* "step당 로그 한 행을 유지": a step has one row of step_logs, however the
\* retries of its callbacks overlap (the advisory locks of
\* _append_stream_log_batch and _save_step_to_db are held until the commit).
\* A step that the final callback lists and could save is never exposed.
OneLogPerStep == \A s \in Steps \ exposed : Len(logs[s]) <= 1

\* A stored log has its lines in the order they were printed and none twice,
\* whatever was redelivered: the batches go on from log_sequence_end, and no
\* batch touches a step that is over.
StoredInOrder ==
    \A s \in Steps \ exposed : \A i, k \in DOMAIN Stored(s) :
        i < k => Stored(s)[i] < Stored(s)[k]

\* "step_complete later reconciles the authoritative full step log": once it
\* is recorded (callback_received_at) the stored log is the whole log of the
\* step, and neither a late batch nor the final callback changes that.
ReportedIsWhole ==
    \A s \in reported \ exposed :
        LET whole == Normalised(s, Printed(s)) IN whole # <<>> => Stored(s) = whole

\* The job never counts more completed steps than there are: counts read
\* before another handler's commit may be too low, never too high.
CountNeverOvercounts == completed <= Cardinality(finished)

UserLines(s) == {Stored(s)[i] : i \in {k \in DOMAIN Stored(s) : <<s, Stored(s)[k]>> \notin Meta}}

\* A line the user could read in a step's log stays there, through late batches,
\* retries and writes that overlap.  Only the cut log of the final callback may
\* drop one, of a step whose step_complete was never recorded, and only if it is
\* no smaller: it may then hold fewer and other lines than were streamed.
OnlyCutDropsLines ==
    [][\A s \in Steps \ exposed :
          \/ UserLines(s) \subseteq UserLines(s)'
          \/ /\ s \notin reported
             /\ logs'[s][1].source = "pipeline_complete"
             /\ Size(s, Stored(s)) <= Size(s, Stored(s))']_vars

\* Every callback is answered: batches that lock their steps in opposite
\* orders wait for each other until PostgreSQL aborts one.
CallbacksReturn == \A r \in Requests : ~At(r, "idle") ~> At(r, "idle")
===============================================================================
