---------------------------- MODULE LogStoreProofs ----------------------------
(***************************************************************************)
(* That a step keeps one row of step_logs, and that completed_steps never   *)
(* runs ahead of the steps, for any number of steps, requests and           *)
(* deliveries, whatever the callbacks carry.  Nothing is assumed of the     *)
(* lines, so the proof needs the shape of a handler's record but not the    *)
(* types of what it holds.                                                  *)
(***************************************************************************)
EXTENDS LogStore, FiniteSetTheorems, TLAPS

(* The invariant of the locks.                                              *)

Fields == {"pc", "type", "todo", "logs", "locks", "logLocks", "writes", "loaded", "count"}

Formed(h) ==
    /\ h = [x \in Fields |-> h[x]]
    /\ h.writes = [s \in Steps |-> h.writes[s]]

\* While a step is saved, its lock is held.
Holds(h) == h.pc \in {"save_read", "save_commit"} => Head(h.todo).step \in h.locks

\* A write that waits for its commit is guarded by the step's lock, the log's
\* lock, or both: a batch relies on the first, and on the step not being over.
Guarded(h, s, over, open) ==
    h.writes[s] # None =>
        \/ h.pc = "append" /\ s \in h.locks /\ s \notin over
        \/ h.pc = "save_commit" /\ s \in h.locks /\ s \in h.logLocks
        \/ h.pc = "parse" /\ s \in h.logLocks /\ s \in over \cup open

\* What was read when the write was prepared is still so.
Fits(h, s, open, table) ==
    h.writes[s] # None /\ s \notin open /\ h.writes[s].insert => table[s] = <<>>

Apart(h, k) == h.locks \cap k.locks = {} /\ h.logLocks \cap k.logLocks = {}

AtMostOne(t) == t = <<>> \/ \E row : t = <<row>>

LogInv ==
    /\ req = [r \in Requests |-> req[r]]
    /\ logs = [s \in Steps |-> logs[s]]
    /\ \A r \in Requests : Formed(req[r]) /\ Holds(req[r])
    /\ \A r \in Requests, s \in Steps :
         Guarded(req[r], s, finished, exposed) /\ Fits(req[r], s, exposed, logs)
    /\ \A r, q \in Requests : r # q => Apart(req[r], req[q])
    /\ \A s \in Steps \ exposed : AtMostOne(logs[s])

LEMMA PutFits ==
    ASSUME NEW s, NEW lines, NEW source
    PROVE  Put(s, lines, source).insert => logs[s] = <<>>
  BY DEF Put

LEMMA IdleFormed ==
    /\ Formed(Idle) /\ Holds(Idle)
    /\ Idle.writes = NoWrites /\ Idle.locks = {} /\ Idle.logLocks = {}
  BY DEF Formed, Fields, Holds, Idle, NoWrites

\* A handler goes on, and nothing is committed.
LEMMA HandlerGoesOn ==
    ASSUME LogInv, NEW r \in Requests, NEW h, Become(r, h),
           logs' = logs, finished' = finished, exposed \subseteq exposed',
           Formed(h), Holds(h),
           \A s \in Steps : Guarded(h, s, finished', exposed') /\ Fits(h, s, exposed', logs'),
           \A q \in Requests \ {r} : Apart(h, req[q])
    PROVE  LogInv'
  <1>1. req' = [q \in Requests |-> IF q = r THEN h ELSE req[q]]
    BY DEF LogInv, Become
  <1>2. \A q \in Requests, s \in Steps :
          Guarded(req'[q], s, finished', exposed') /\ Fits(req'[q], s, exposed', logs')
    BY <1>1 DEF LogInv, Guarded, Fits
  <1>3. \A p, q \in Requests : p # q => Apart(req'[p], req'[q])
    BY <1>1 DEF LogInv, Apart
  <1> QED
    BY <1>1, <1>2, <1>3 DEF LogInv

\* A transaction commits, and releases its locks.
LEMMA HandlerCommits ==
    ASSUME LogInv, NEW r \in Requests, NEW h, Become(r, h), Commit(r),
           exposed' = exposed,
           \/ finished' = finished
           \/ At(r, "save_commit") /\ finished' = finished \cup {Current(r)},
           Formed(h), Holds(h),
           h.writes = NoWrites, h.locks = {}, h.logLocks = {}
    PROVE  LogInv'
  <1>1. req' = [q \in Requests |-> IF q = r THEN h ELSE req[q]]
    BY DEF LogInv, Become
  <1>2. logs' = [s \in Steps |-> Applied(s, req[r].writes[s])]
    BY DEF Commit
  <1>3. \A s \in Steps : h.writes[s] = None
    BY DEF NoWrites
  <1>4. ASSUME NEW q \in Requests \ {r}, NEW s \in Steps
        PROVE  Guarded(req[q], s, finished', exposed') /\ Fits(req[q], s, exposed', logs')
    <2>1. /\ Guarded(req[q], s, finished, exposed) /\ Fits(req[q], s, exposed, logs)
          /\ Guarded(req[r], s, finished, exposed)
          /\ Apart(req[q], req[r]) /\ Holds(req[r])
      BY DEF LogInv
    <2>2. Guarded(req[q], s, finished', exposed')
      BY <2>1 DEF Guarded, Apart, Holds, At, Current
    <2>3. Fits(req[q], s, exposed', logs')
      <3>1. CASE req[r].writes[s] = None
        BY <1>2, <2>1, <3>1 DEF Applied, Fits
      <3>2. CASE req[r].writes[s] # None /\ req[q].writes[s] # None
        BY <2>1, <3>2 DEF Guarded, Apart, Fits
      <3> QED
        BY <3>1, <3>2 DEF Fits
    <2> QED
      BY <2>2, <2>3
  <1>5. ASSUME NEW s \in Steps \ exposed PROVE AtMostOne(logs'[s])
    <2> DEFINE w == req[r].writes[s]
    <2>1. AtMostOne(logs[s]) /\ Fits(req[r], s, exposed, logs)
      BY DEF LogInv
    <2>2. CASE w = None
      BY <1>2, <2>1, <2>2 DEF Applied
    <2>3. CASE w # None /\ w.insert
      <3>1. logs'[s] = Append(<<>>, w.row)
        BY <1>2, <2>1, <2>3 DEF Applied, Fits
      <3>2. logs'[s] = <<w.row>>
        BY <3>1
      <3> QED
        BY <3>2 DEF AtMostOne
    <2>4. CASE w # None /\ ~w.insert
      <3>1. logs'[s] = [logs[s] EXCEPT ![1] = w.row]
        BY <1>2, <2>4 DEF Applied
      <3>2. CASE logs[s] = <<>>
        BY <3>1, <3>2 DEF AtMostOne
      <3>3. CASE \E row : logs[s] = <<row>>
        <4>1. PICK row : logs[s] = <<row>>
          BY <3>3
        <4>2. logs'[s] = <<w.row>>
          BY <3>1, <4>1
        <4> QED
          BY <4>2 DEF AtMostOne
      <3> QED
        BY <2>1, <3>2, <3>3 DEF AtMostOne
    <2> QED
      BY <2>2, <2>3, <2>4
  <1>6. \A p, q \in Requests : p # q => Apart(req'[p], req'[q])
    BY <1>1 DEF LogInv, Apart
  <1>7. \A q \in Requests, s \in Steps :
          Guarded(req'[q], s, finished', exposed') /\ Fits(req'[q], s, exposed', logs')
    BY <1>1, <1>3, <1>4 DEF Guarded, Fits
  <1> QED
    BY <1>1, <1>2, <1>5, <1>6, <1>7 DEF LogInv

LEMMA EndedFormed ==
    ASSUME NEW h, NEW pc, NEW todo, Formed(h)
    PROVE  LET e == Ended(h, pc, todo) IN
             /\ Formed(e) /\ e.pc = pc /\ e.todo = todo /\ e.type = h.type
             /\ e.writes = NoWrites /\ e.locks = {} /\ e.logLocks = {}
  BY DEF Formed, Fields, Ended, NoWrites

LEMMA AfterSaveFormed ==
    ASSUME NEW h, Formed(h)
    PROVE  LET e == AfterSave(h) IN
             /\ Formed(e) /\ Holds(e)
             /\ e.writes = NoWrites /\ e.locks = {} /\ e.logLocks = {}
  <1>1. CASE h.type = "step_complete"
    BY <1>1, IdleFormed DEF AfterSave
  <1>2. CASE h.type # "step_complete" /\ Len(h.todo) > 1
    <2>1. AfterSave(h) = Ended(h, "save_lock", Tail(h.todo))
      BY <1>2 DEF AfterSave
    <2> QED
      BY <2>1, EndedFormed DEF Holds
  <1>3. CASE h.type # "step_complete" /\ ~(Len(h.todo) > 1)
    <2>1. AfterSave(h) = Ended(h, "parse", h.logs)
      BY <1>3 DEF AfterSave
    <2> QED
      BY <2>1, EndedFormed DEF Holds
  <1> QED
    BY <1>1, <1>2, <1>3

\* A handler that is between transactions holds nothing and writes nothing.
LEMMA HandlerReleases ==
    ASSUME LogInv, NEW r \in Requests, NEW h, Become(r, h),
           logs' = logs, finished' = finished, exposed' = exposed,
           Formed(h), Holds(h),
           h.writes = NoWrites, h.locks = {}, h.logLocks = {}
    PROVE  LogInv'
  <1>1. \A s \in Steps : h.writes[s] = None
    BY DEF NoWrites
  <1>2. \A s \in Steps : Guarded(h, s, finished', exposed') /\ Fits(h, s, exposed', logs')
    BY <1>1 DEF Guarded, Fits
  <1>3. \A q \in Requests \ {r} : Apart(h, req[q])
    BY DEF Apart
  <1>4. exposed \subseteq exposed'
    OBVIOUS
  <1> QED
    BY <1>2, <1>3, <1>4, HandlerGoesOn

SentInv == \A m \in sent : m.type \in Source

LEMMA SentTyped == SentInv /\ [Next]_vars => SentInv'
  <1> SUFFICES ASSUME SentInv, [Next]_vars PROVE SentInv'
    OBVIOUS
  <1>1. CASE Engine
    <2>1. ASSUME NEW order \in Orders, SendBatch(order) PROVE SentInv'
      BY <2>1 DEF SendBatch, Send, SentInv, Source
    <2>2. ASSUME NEW s \in Steps, SendStepComplete(s) PROVE SentInv'
      BY <2>2 DEF SendStepComplete, Send, SentInv, Source
    <2>3. CASE SendPipelineComplete
      BY <2>3 DEF SendPipelineComplete, Send, SentInv, Source
    <2> QED
      BY <1>1, <2>1, <2>2, <2>3 DEF Engine
  <1>2. ASSUME NEW r \in Requests, Handle(r) \/ Fails(r) \/ \E m \in sent : Receive(r, m)
        PROVE  sent' = sent
    BY <1>2 DEF Handle, Fails, Receive, AppendGroup, AppendCommit, DeadlockVictim,
         SaveLock, SaveRead, SaveCommit, Finalize, ParseStep, ParseCommit,
         AppendFails, SaveFails, FinalizeFails, ParseFails, engine
  <1> QED
    BY <1>1, <1>2 DEF Next, SentInv, vars, engine

LEMMA ReceiveKeepsLocks ==
    ASSUME LogInv, NEW r \in Requests, NEW m, m.type \in Source, Receive(r, m)
    PROVE  LogInv'
  <1>1. CASE terminal
    BY <1>1 DEF Receive, rows, LogInv
  <1>2. CASE ~terminal
    <2> DEFINE h == [Idle EXCEPT !.pc = FirstPC(m.type), !.type = m.type,
                                 !.todo = m.groups, !.logs = m.logs]
    <2>1. Become(r, h) /\ logs' = logs /\ finished' = finished /\ exposed' = exposed
      BY <1>2 DEF Receive, rows
    <2>2. FirstPC(m.type) \in {"append", "save_lock", "finalize"}
      BY DEF FirstPC, Source
    <2>3. /\ Formed(h) /\ h.pc = FirstPC(m.type)
          /\ h.writes = NoWrites /\ h.locks = {} /\ h.logLocks = {}
      BY DEF Formed, Fields, Idle, NoWrites
    <2>4. Holds(h)
      BY <2>2, <2>3 DEF Holds
    <2> HIDE DEF h
    <2> QED
      BY <2>1, <2>3, <2>4, HandlerReleases
  <1> QED
    BY <1>1, <1>2

\* A step of a batch is locked before its row is read.
LEMMA AppendKeepsLocks ==
    ASSUME LogInv, NEW r \in Requests, AppendGroup(r)
    PROVE  LogInv'
  <1> DEFINE g == Head(req[r].todo)
             old == req[r]
             pending == IF Closed(g.step) \/ NewLines(g.step, g.lines) = <<>>
                        THEN old.writes[g.step]
                        ELSE Put(g.step, Stored(g.step) \o NewLines(g.step, g.lines), "log_batch")
             h == [old EXCEPT !.todo = Tail(@), !.locks = @ \cup {g.step},
                              !.writes[g.step] = pending]
  <1>1. /\ old.pc = "append" /\ StepLockFree(r, g.step) /\ Become(r, h)
        /\ logs' = logs /\ finished' = finished /\ exposed' = exposed
    BY DEF AppendGroup, At, rows
  <1>2. /\ Formed(old) /\ Holds(old)
        /\ \A s \in Steps : Guarded(old, s, finished, exposed) /\ Fits(old, s, exposed, logs)
        /\ \A q \in Requests \ {r} : Apart(old, req[q])
    BY DEF LogInv
  <1>3. /\ Formed(h) /\ h.pc = "append" /\ h.locks = old.locks \cup {g.step}
        /\ h.logLocks = old.logLocks
        /\ \A s \in Steps : h.writes[s] = IF s = g.step THEN pending ELSE old.writes[s]
    <2> HIDE DEF pending
    <2> QED
      BY <1>1, <1>2 DEF Formed, Fields
  <1>4. ASSUME NEW s \in Steps
        PROVE  Guarded(h, s, finished', exposed') /\ Fits(h, s, exposed', logs')
    <2>1. CASE s = g.step /\ ~(Closed(g.step) \/ NewLines(g.step, g.lines) = <<>>)
      <3>2. h.writes[s] = Put(s, Stored(s) \o NewLines(s, g.lines), "log_batch")
        BY <1>3, <2>1
      <3>1. h.writes[s].insert => logs[s] = <<>>
        BY <3>2, PutFits
      <3> QED
        BY <1>1, <1>3, <2>1, <3>1 DEF Guarded, Fits, Closed
    <2>2. CASE h.writes[s] = old.writes[s]
      BY <1>1, <1>2, <1>3, <2>2 DEF Guarded, Fits
    <2> QED
      BY <1>3, <2>1, <2>2
  <1>5. \A q \in Requests \ {r} : Apart(h, req[q])
    BY <1>1, <1>2, <1>3 DEF Apart, StepLockFree
  <1>6. Holds(h)
    BY <1>3 DEF Holds
  <1> HIDE DEF h
  <1> QED
    BY <1>1, <1>3, <1>4, <1>5, <1>6, HandlerGoesOn

LEMMA CommitKeepsLocks ==
    ASSUME LogInv, NEW r \in Requests,
           AppendCommit(r) \/ SaveCommit(r) \/ ParseCommit(r)
    PROVE  LogInv'
  <1>1. CASE AppendCommit(r) \/ ParseCommit(r)
    <2> DEFINE h == Idle
    <2>1. /\ Become(r, h) /\ Commit(r)
          /\ exposed' = exposed /\ finished' = finished
      BY <1>1 DEF AppendCommit, ParseCommit
    <2>2. /\ Formed(h) /\ Holds(h)
          /\ h.writes = NoWrites /\ h.locks = {} /\ h.logLocks = {}
      BY IdleFormed
    <2> HIDE DEF h
    <2> QED
      BY <2>1, <2>2, HandlerCommits
  <1>2. CASE SaveCommit(r)
    <2>1. /\ Become(r, AfterSave(req[r])) /\ Commit(r) /\ At(r, "save_commit")
          /\ exposed' = exposed /\ finished' = finished \cup {Current(r)}
      BY <1>2 DEF SaveCommit
    <2>2. Formed(req[r])
      BY DEF LogInv
    <2> QED
      BY <2>1, <2>2, AfterSaveFormed, HandlerCommits
  <1> QED
    BY <1>1, <1>2

LEMMA FailureKeepsLocks ==
    ASSUME LogInv, NEW r \in Requests, Fails(r) \/ DeadlockVictim(r)
    PROVE  LogInv'
  <1>1. Formed(req[r])
    BY DEF LogInv
  <1>2. CASE AppendFails(r) \/ DeadlockVictim(r) \/ ParseFails(r)
    <2>1. Become(r, Idle) /\ logs' = logs /\ exposed' = exposed /\ finished' = finished
      BY <1>2 DEF AppendFails, DeadlockVictim, ParseFails, rows
    <2> QED
      BY <2>1, IdleFormed, HandlerReleases
  <1>3. CASE SaveFails(r)
    <2>1. /\ Become(r, AfterSave(req[r]))
          /\ logs' = logs /\ exposed' = exposed /\ finished' = finished
      BY <1>3 DEF SaveFails, rows
    <2> QED
      BY <1>1, <2>1, AfterSaveFormed, HandlerReleases
  <1>4. CASE FinalizeFails(r)
    <2> DEFINE h == Ended(req[r], "parse", req[r].logs)
    <2>1. Become(r, h) /\ logs' = logs /\ exposed' = exposed /\ finished' = finished
      BY <1>4 DEF FinalizeFails, rows
    <2>2. /\ Formed(h) /\ Holds(h)
          /\ h.writes = NoWrites /\ h.locks = {} /\ h.logLocks = {}
      BY <1>1, EndedFormed DEF Holds
    <2> HIDE DEF h
    <2> QED
      BY <2>1, <2>2, HandlerReleases
  <1> QED
    BY <1>2, <1>3, <1>4 DEF Fails

\* Between two transactions a handler has no write that waits.
LEMMA NothingPending ==
    ASSUME LogInv, NEW r \in Requests, req[r].pc \notin {"append", "save_commit", "parse"}
    PROVE  \A s \in Steps : req[r].writes[s] = None
  BY DEF LogInv, Guarded

LEMMA FinalizeKeepsLocks ==
    ASSUME LogInv, NEW r \in Requests, Finalize(r)
    PROVE  LogInv'
  <1> DEFINE old == req[r]
  <1>1. /\ old.pc = "finalize" /\ logs' = logs /\ finished' = finished /\ exposed' = exposed
        /\ Formed(old)
    BY DEF Finalize, At, LogInv
  <1>2. CASE Busy(r)
    <2> DEFINE h == [old EXCEPT !.pc = "save_lock"]
    <2>1. Become(r, h)
      BY <1>2 DEF Finalize
    <2>2. /\ Formed(h) /\ h.pc = "save_lock" /\ h.writes = old.writes
          /\ h.locks = old.locks /\ h.logLocks = old.logLocks
      BY <1>1 DEF Formed, Fields
    <2>3. \A s \in Steps : h.writes[s] = None
      BY <1>1, <2>2, NothingPending
    <2>4. \A s \in Steps : Guarded(h, s, finished', exposed') /\ Fits(h, s, exposed', logs')
      BY <2>3 DEF Guarded, Fits
    <2>5. \A q \in Requests \ {r} : Apart(h, req[q])
      BY <2>2 DEF LogInv, Apart
    <2>6. Holds(h) /\ exposed \subseteq exposed'
      BY <1>1, <2>2 DEF Holds
    <2> HIDE DEF h
    <2> QED
      BY <1>1, <2>1, <2>2, <2>4, <2>5, <2>6, HandlerGoesOn
  <1>3. CASE ~Busy(r)
    <2> DEFINE h == Ended(old, "parse", old.logs)
    <2>1. Become(r, h)
      BY <1>3 DEF Finalize
    <2>2. /\ Formed(h) /\ Holds(h)
          /\ h.writes = NoWrites /\ h.locks = {} /\ h.logLocks = {}
      BY <1>1, EndedFormed DEF Holds
    <2> HIDE DEF h
    <2> QED
      BY <1>1, <2>1, <2>2, HandlerReleases
  <1> QED
    BY <1>2, <1>3

LEMMA SaveLockKeepsLocks ==
    ASSUME LogInv, NEW r \in Requests, SaveLock(r)
    PROVE  LogInv'
  <1> DEFINE old == req[r]
             h == [old EXCEPT !.pc = "save_read", !.locks = {Current(r)}]
  <1>1. /\ old.pc = "save_lock" /\ StepLockFree(r, Current(r)) /\ Become(r, h)
        /\ logs' = logs /\ finished' = finished /\ exposed' = exposed /\ Formed(old)
    BY DEF SaveLock, At, rows, LogInv
  <1>2. /\ Formed(h) /\ h.pc = "save_read" /\ h.todo = old.todo /\ h.writes = old.writes
        /\ h.locks = {Current(r)} /\ h.logLocks = old.logLocks
    BY <1>1 DEF Formed, Fields
  <1>3. \A s \in Steps : h.writes[s] = None
    BY <1>1, <1>2, NothingPending
  <1>4. \A s \in Steps : Guarded(h, s, finished', exposed') /\ Fits(h, s, exposed', logs')
    BY <1>3 DEF Guarded, Fits
  <1>5. \A q \in Requests \ {r} : Apart(h, req[q])
    BY <1>1, <1>2 DEF LogInv, Apart, StepLockFree
  <1>6. Holds(h) /\ exposed \subseteq exposed'
    BY <1>1, <1>2 DEF Holds, Current
  <1> HIDE DEF h
  <1> QED
    BY <1>1, <1>2, <1>4, <1>5, <1>6, HandlerGoesOn

\* The log to be written is absent, or guarded by the lock of the log.
LEMMA UpsertIsLocked ==
    ASSUME NEW s, NEW raw, NEW source, Upsert(s, raw, source) # None
    PROVE  /\ s \in LogKeys(s, raw)
           /\ Upsert(s, raw, source).insert => logs[s] = <<>>
  <1>1. Normalised(s, raw) # <<>> /\ Replaces(s, Normalised(s, raw), source)
    BY DEF Upsert
  <1>2. Upsert(s, raw, source) = Put(s, Normalised(s, raw), source)
    BY <1>1 DEF Upsert
  <1> QED
    BY <1>1, <1>2, PutFits DEF LogKeys

LEMMA SaveReadKeepsLocks ==
    ASSUME LogInv, NEW r \in Requests, SaveRead(r)
    PROVE  LogInv'
  <1> DEFINE old == req[r]
             g == Head(old.todo)
             keys == LogKeys(g.step, g.lines)
             write == Upsert(g.step, g.lines, old.type)
             number == Count(g.step)
             h == [old EXCEPT !.pc = "save_commit", !.logLocks = keys,
                              !.writes[g.step] = write,
                              !.loaded = completed, !.count = number]
  <1>1. /\ old.pc = "save_read" /\ Become(r, h)
        /\ \A s \in keys : LogLockFree(r, s)
        /\ logs' = logs /\ finished' = finished /\ exposed' = exposed
        /\ Formed(old) /\ Holds(old)
    BY DEF SaveRead, At, rows, LogInv
  <1>2. /\ Formed(h) /\ h.pc = "save_commit" /\ h.todo = old.todo
        /\ h.locks = old.locks /\ h.logLocks = keys
        /\ \A s \in Steps : h.writes[s] = IF s = g.step THEN write ELSE old.writes[s]
    <2> HIDE DEF keys, write, number, g
    <2> QED
      BY <1>1 DEF Formed, Fields
  <1>3. \A s \in Steps : old.writes[s] = None
    BY <1>1, NothingPending
  <1>4. write # None => g.step \in keys /\ (write.insert => logs[g.step] = <<>>)
    BY UpsertIsLocked
  <1> HIDE DEF h, write, keys
  <1>5. \A s \in Steps : Guarded(h, s, finished', exposed') /\ Fits(h, s, exposed', logs')
    BY <1>1, <1>2, <1>3, <1>4 DEF Guarded, Fits, Holds
  <1>6. \A q \in Requests \ {r} : Apart(h, req[q])
    BY <1>1, <1>2 DEF LogInv, Apart, LogLockFree
  <1>7. Holds(h) /\ exposed \subseteq exposed'
    BY <1>1, <1>2 DEF Holds
  <1> QED
    BY <1>1, <1>2, <1>5, <1>6, <1>7, HandlerGoesOn

LEMMA ParseStepKeepsLocks ==
    ASSUME LogInv, NEW r \in Requests, ParseStep(r)
    PROVE  LogInv'
  <1> DEFINE old == req[r]
             g == Head(old.todo)
             keys == IF Known(g.step) THEN LogKeys(g.step, g.lines) ELSE {}
             write == IF keys = {} THEN old.writes[g.step]
                      ELSE Upsert(g.step, g.lines, "pipeline_complete")
             h == [old EXCEPT !.todo = Tail(@), !.logLocks = @ \cup keys,
                              !.writes[g.step] = write]
  <1>1. /\ old.pc = "parse"
        /\ \A k \in keys : LogLockFree(r, k)
        /\ exposed' = exposed \cup (keys \ finished)
        /\ logs' = logs /\ finished' = finished
        /\ Formed(old) /\ Holds(old)
    BY DEF ParseStep, At, LogInv
  <1>2. Become(r, h)
    BY Zenon DEF ParseStep, Become
  <1>3. /\ Formed(h) /\ h.pc = "parse" /\ h.locks = old.locks
        /\ h.logLocks = old.logLocks \cup keys
        /\ \A s \in Steps : h.writes[s] = IF s = g.step THEN write ELSE old.writes[s]
    <2> HIDE DEF keys, write, g
    <2> QED
      BY <1>1 DEF Formed, Fields
  <1>4. ASSUME keys # {}, write # None
        PROVE  g.step \in keys /\ (write.insert => logs[g.step] = <<>>)
    BY <1>4, UpsertIsLocked
  <1>5. keys = {} => write = old.writes[g.step]
    OBVIOUS
  <1>6. \A s \in Steps : Guarded(old, s, finished, exposed) /\ Fits(old, s, exposed, logs)
    BY DEF LogInv
  <1> HIDE DEF h, write, keys
  <1>7. ASSUME NEW s \in Steps
        PROVE  Guarded(h, s, finished', exposed') /\ Fits(h, s, exposed', logs')
    <2>1. CASE s = g.step /\ keys # {}
      BY <1>1, <1>3, <1>4, <2>1 DEF Guarded, Fits
    <2>2. CASE h.writes[s] = old.writes[s]
      BY <1>1, <1>3, <1>6, <2>2 DEF Guarded, Fits
    <2> QED
      BY <1>3, <1>5, <2>1, <2>2
  <1>8. \A q \in Requests \ {r} : Apart(h, req[q])
    BY <1>1, <1>3 DEF LogInv, Apart, LogLockFree
  <1>9. Holds(h) /\ exposed \subseteq exposed'
    BY <1>1, <1>3 DEF Holds
  <1> QED
    BY <1>1, <1>2, <1>3, <1>7, <1>8, <1>9, HandlerGoesOn

LEMMA LogInvCorrect == Spec => [](LogInv /\ SentInv)
  <1>1. Init => LogInv /\ SentInv
    <2> SUFFICES ASSUME Init PROVE LogInv /\ SentInv
      OBVIOUS
    <2>1. \A r \in Requests : req[r] = Idle
      BY DEF Init
    <2>2. \A s \in Steps : Idle.writes[s] = None
      BY IdleFormed DEF NoWrites
    <2>3. \A r, q \in Requests : Apart(req[r], req[q])
      BY <2>1, IdleFormed DEF Apart
    <2> QED
      BY <2>1, <2>2, <2>3, IdleFormed DEF Init, LogInv, SentInv, Guarded, Fits, AtMostOne
  <1>2. LogInv /\ SentInv /\ [Next]_vars => LogInv'
    <2> SUFFICES ASSUME LogInv, SentInv, [Next]_vars PROVE LogInv'
      OBVIOUS
    <2>1. CASE Engine \/ UNCHANGED vars
      BY <2>1 DEF Engine, SendBatch, SendStepComplete, SendPipelineComplete, LogInv,
           vars, rows
    <2>2. ASSUME NEW r \in Requests, Handle(r) \/ Fails(r) \/ \E m \in sent : Receive(r, m)
          PROVE  LogInv'
      <3>1. CASE \E m \in sent : Receive(r, m)
        BY <3>1, ReceiveKeepsLocks DEF SentInv
      <3>2. CASE Fails(r) \/ DeadlockVictim(r)
        BY <3>2, FailureKeepsLocks
      <3>3. CASE Handle(r) /\ ~DeadlockVictim(r)
        BY <3>3, AppendKeepsLocks, CommitKeepsLocks, SaveLockKeepsLocks,
           SaveReadKeepsLocks, FinalizeKeepsLocks, ParseStepKeepsLocks DEF Handle
      <3> QED
        BY <2>2, <3>1, <3>2, <3>3
    <2> QED
      BY <2>1, <2>2 DEF Next
  <1> QED
    BY <1>1, <1>2, SentTyped, PTL DEF Spec

\* A step has one row of step_logs: the two advisory locks, of the step and of
\* its log, and the look at the step's end, keep every two writers apart.
THEOREM OneRow == Spec => []OneLogPerStep
  <1>1. ASSUME NEW t, AtMostOne(t) PROVE Len(t) <= 1
    <2>1. CASE t = <<>>
      BY <2>1
    <2>2. CASE \E row : t = <<row>>
      BY <2>2
    <2> QED
      BY <1>1, <2>1, <2>2 DEF AtMostOne
  <1>2. ASSUME LogInv PROVE OneLogPerStep
    <2> SUFFICES ASSUME NEW s \in Steps \ exposed PROVE Len(logs[s]) <= 1
      BY DEF OneLogPerStep
    <2>1. AtMostOne(logs[s])
      BY <1>2 DEF LogInv
    <2> QED
      BY <1>1, <2>1
  <1>3. LogInv => OneLogPerStep
    BY <1>2
  <1> QED
    BY <1>3, LogInvCorrect, PTL

-----------------------------------------------------------------------------
(* The number of completed steps.                                           *)

\* What a handler has counted was true when it read the rows, and steps do
\* not become unfinished.
Backed(h, over) ==
    h.pc = "save_commit" =>
        h.count \in Nat /\ h.count <= Cardinality(over \cup {Head(h.todo).step})

CountInv ==
    /\ IsFiniteSet(finished)
    /\ completed \in Nat /\ completed <= Cardinality(finished)
    /\ \A r \in Requests : Backed(req[r], finished)

LEMMA MoreSteps ==
    ASSUME NEW over, IsFiniteSet(over), NEW more, IsFiniteSet(more), over \subseteq more,
           NEW s
    PROVE  /\ IsFiniteSet(over \cup {s})
           /\ Cardinality(over) \in Nat /\ Cardinality(over \cup {s}) \in Nat
           /\ Cardinality(more) \in Nat
           /\ Cardinality(over) <= Cardinality(more)
           /\ Cardinality(over \cup {s}) <= Cardinality(more \cup {s})
  <1>1. IsFiniteSet(over \cup {s}) /\ IsFiniteSet(more \cup {s})
    BY FS_AddElement
  <1>2. over \cup {s} \subseteq more \cup {s}
    OBVIOUS
  <1> QED
    BY <1>1, <1>2, FS_Subset, FS_CardinalityType

\* An action that leaves the count and the steps alone and stops no handler at
\* the commit of a save.
LEMMA CountUntouched ==
    ASSUME LogInv, CountInv, NEW r \in Requests, NEW h, Become(r, h),
           finished' = finished, completed' = completed, h.pc # "save_commit"
    PROVE  CountInv'
  <1>1. req' = [q \in Requests |-> IF q = r THEN h ELSE req[q]]
    BY DEF LogInv, Become
  <1>2. \A q \in Requests : Backed(req'[q], finished')
    BY <1>1 DEF CountInv, Backed
  <1> QED
    BY <1>2 DEF CountInv

LEMMA CountRead ==
    ASSUME LogInv, CountInv, NEW r \in Requests, SaveRead(r)
    PROVE  CountInv'
  <1> DEFINE old == req[r]
             g == Head(old.todo)
             keys == LogKeys(g.step, g.lines)
             write == Upsert(g.step, g.lines, old.type)
             number == Count(g.step)
             h == [old EXCEPT !.pc = "save_commit", !.logLocks = keys,
                              !.writes[g.step] = write,
                              !.loaded = completed, !.count = number]
  <1>1. Become(r, h) /\ finished' = finished /\ completed' = completed /\ Formed(old)
    BY DEF SaveRead, rows, LogInv
  <1>2. h.todo = old.todo /\ h.count = number
    <2> HIDE DEF keys, write, number, g
    <2> QED
      BY <1>1 DEF Formed, Fields
  <1>3. number \in Nat /\ number <= Cardinality(finished \cup {g.step})
    BY MoreSteps DEF Count, CountInv
  <1> HIDE DEF h, number
  <1>4. Backed(h, finished)
    BY <1>2, <1>3 DEF Backed
  <1>5. req' = [q \in Requests |-> IF q = r THEN h ELSE req[q]]
    BY <1>1 DEF LogInv, Become
  <1>6. \A q \in Requests : Backed(req'[q], finished')
    BY <1>1, <1>4, <1>5 DEF CountInv
  <1> QED
    BY <1>1, <1>6 DEF CountInv

LEMMA CountCommit ==
    ASSUME LogInv, CountInv, NEW r \in Requests, SaveCommit(r)
    PROVE  CountInv'
  <1> DEFINE old == req[r]
             s == Current(r)
             h == AfterSave(old)
  <1>1. /\ old.pc = "save_commit" /\ Become(r, h) /\ finished' = finished \cup {s}
        /\ completed' = (IF old.count # old.loaded THEN old.count ELSE completed)
    BY DEF SaveCommit, At
  <1>2. old.count \in Nat /\ old.count <= Cardinality(finished \cup {s})
    BY <1>1 DEF CountInv, Backed, Current
  <1>3. /\ IsFiniteSet(finished')
        /\ Cardinality(finished) <= Cardinality(finished')
        /\ Cardinality(finished) \in Nat /\ Cardinality(finished') \in Nat
        /\ \A k : /\ Cardinality(finished \cup {k}) <= Cardinality(finished' \cup {k})
                  /\ Cardinality(finished \cup {k}) \in Nat
                  /\ Cardinality(finished' \cup {k}) \in Nat
    <2>1. IsFiniteSet(finished) /\ IsFiniteSet(finished') /\ finished \subseteq finished'
      BY <1>1, FS_AddElement DEF CountInv
    <2> QED
      BY <2>1, MoreSteps
  <1>4. completed' \in Nat /\ completed' <= Cardinality(finished')
    BY <1>1, <1>2, <1>3 DEF CountInv
  <1>5. req' = [q \in Requests |-> IF q = r THEN h ELSE req[q]]
    BY <1>1 DEF LogInv, Become
  <1>6. h.pc # "save_commit"
    <2>1. Formed(old)
      BY DEF LogInv
    <2> QED
      BY <2>1, IdleFormed, EndedFormed DEF AfterSave, Idle
  <1> HIDE DEF h
  <1>7. ASSUME NEW q \in Requests PROVE Backed(req'[q], finished')
    <2>1. CASE q = r
      BY <1>5, <1>6, <2>1 DEF Backed
    <2>2. CASE q # r
      <3>1. req'[q] = req[q] /\ Backed(req[q], finished)
        BY <1>5, <2>2 DEF CountInv
      <3> DEFINE k == Head(req[q].todo).step
      <3>2. /\ Cardinality(finished \cup {k}) <= Cardinality(finished' \cup {k})
            /\ Cardinality(finished \cup {k}) \in Nat
            /\ Cardinality(finished' \cup {k}) \in Nat
        BY <1>3
      <3> QED
        BY <3>1, <3>2 DEF Backed
    <2> QED
      BY <2>1, <2>2
  <1> QED
    BY <1>3, <1>4, <1>7 DEF CountInv

LEMMA CountStep == LogInv /\ SentInv /\ CountInv /\ [Next]_vars => CountInv'
  <1> SUFFICES ASSUME LogInv, SentInv, CountInv, [Next]_vars PROVE CountInv'
    OBVIOUS
  <1>1. CASE Engine \/ UNCHANGED vars
    BY <1>1 DEF Engine, SendBatch, SendStepComplete, SendPipelineComplete, CountInv,
         vars, rows
  <1>2. ASSUME NEW r \in Requests, Handle(r) \/ Fails(r) \/ \E m \in sent : Receive(r, m)
        PROVE  CountInv'
    <2> DEFINE Quiet(h) == /\ Become(r, h) /\ h.pc # "save_commit"
                           /\ finished' = finished /\ completed' = completed
    <2>1. Formed(req[r])
      BY DEF LogInv
    <2>2. CASE SaveRead(r)
      BY <2>2, CountRead
    <2>3. CASE SaveCommit(r)
      BY <2>3, CountCommit
    <2>4. CASE \E m \in sent : Receive(r, m)
      <3>1. PICK m \in sent : Receive(r, m)
        BY <2>4
      <3>2. CASE terminal
        BY <3>1, <3>2 DEF Receive, rows, CountInv
      <3>3. CASE ~terminal
        <4> DEFINE h == [Idle EXCEPT !.pc = FirstPC(m.type), !.type = m.type,
                                     !.todo = m.groups, !.logs = m.logs]
        <4>1. FirstPC(m.type) # "save_commit"
          BY DEF SentInv, Source, FirstPC
        <4>2. h.pc = FirstPC(m.type)
          BY DEF Idle
        <4>3. Become(r, h) /\ finished' = finished /\ completed' = completed
          BY <3>1, <3>3 DEF Receive, rows
        <4> HIDE DEF h
        <4> QED
          BY <4>1, <4>2, <4>3, CountUntouched
      <3> QED
        BY <3>2, <3>3
    <2>5. CASE AppendCommit(r) \/ ParseCommit(r) \/ AppendFails(r) \/ DeadlockVictim(r)
               \/ ParseFails(r)
      <3>1. Quiet(Idle)
        BY <2>5 DEF AppendCommit, ParseCommit, AppendFails, DeadlockVictim, ParseFails,
             rows, Idle
      <3> DEFINE h == Idle
      <3>2. Quiet(h)
        BY <3>1
      <3> HIDE DEF h
      <3> QED
        BY <3>2, CountUntouched
    <2>6. CASE SaveFails(r)
      <3> DEFINE h == AfterSave(req[r])
      <3>1. h.pc # "save_commit"
        BY <2>1, IdleFormed, EndedFormed DEF AfterSave, Idle
      <3>2. Quiet(h)
        BY <2>6, <3>1 DEF SaveFails, rows
      <3> HIDE DEF h
      <3> QED
        BY <3>2, CountUntouched
    <2>7. CASE Finalize(r) \/ FinalizeFails(r)
      <3> DEFINE saves == [req[r] EXCEPT !.pc = "save_lock"]
                 ends == Ended(req[r], "parse", req[r].logs)
      <3>1. saves.pc = "save_lock"
        BY <2>1 DEF Formed, Fields
      <3>2. ends.pc = "parse"
        BY <2>1, EndedFormed
      <3>3. (Become(r, saves) \/ Become(r, ends)) /\ finished' = finished /\ completed' = completed
        BY <2>7 DEF Finalize, FinalizeFails, rows
      <3> HIDE DEF saves, ends
      <3> QED
        BY <3>1, <3>2, <3>3, CountUntouched
    <2>8. CASE SaveLock(r)
      <3> DEFINE h == [req[r] EXCEPT !.pc = "save_read", !.locks = {Current(r)}]
      <3>1. h.pc = "save_read"
        BY <2>1 DEF Formed, Fields
      <3>2. Quiet(h)
        BY <2>8, <3>1 DEF SaveLock, rows
      <3> HIDE DEF h
      <3> QED
        BY <3>2, CountUntouched
    <2>9. CASE AppendGroup(r)
      <3> DEFINE g == Head(req[r].todo)
                 locks == req[r].locks \cup {g.step}
                 write == IF Closed(g.step) \/ NewLines(g.step, g.lines) = <<>>
                          THEN req[r].writes[g.step]
                          ELSE Put(g.step, Stored(g.step) \o NewLines(g.step, g.lines), "log_batch")
                 h == [req[r] EXCEPT !.todo = Tail(@), !.locks = locks, !.writes[g.step] = write]
      <3>1. /\ Become(r, h) /\ req[r].pc = "append"
            /\ finished' = finished /\ completed' = completed
        BY <2>9 DEF AppendGroup, At, rows
      <3> HIDE DEF g, locks, write
      <3>2. h.pc = "append"
        BY <2>1, <3>1 DEF Formed, Fields
      <3> HIDE DEF h
      <3> QED
        BY <3>1, <3>2, CountUntouched
    <2>10. CASE ParseStep(r)
      <3> DEFINE g == Head(req[r].todo)
                 keys == IF Known(g.step) THEN LogKeys(g.step, g.lines) ELSE {}
                 write == IF keys = {} THEN req[r].writes[g.step]
                          ELSE Upsert(g.step, g.lines, "pipeline_complete")
                 h == [req[r] EXCEPT !.todo = Tail(@), !.logLocks = @ \cup keys,
                                     !.writes[g.step] = write]
      <3>1. req[r].pc = "parse" /\ finished' = finished /\ completed' = completed
        BY <2>10 DEF ParseStep, At
      <3>2. Become(r, h)
        BY <2>10, Zenon DEF ParseStep, Become
      <3> HIDE DEF g, keys, write
      <3>3. h.pc = "parse"
        BY <2>1, <3>1 DEF Formed, Fields
      <3> HIDE DEF h
      <3> QED
        BY <3>1, <3>2, <3>3, CountUntouched
    <2> QED
      BY <1>2, <2>2, <2>3, <2>4, <2>5, <2>6, <2>7, <2>8, <2>9, <2>10 DEF Handle, Fails
  <1> QED
    BY <1>1, <1>2 DEF Next

\* The job is never shown more completed steps than it has, though overlapping
\* saves count under different locks and may write a count that is old.
THEOREM CountHolds == Spec => []CountNeverOvercounts
  <1>1. Init => CountInv
    BY FS_EmptySet DEF Init, CountInv, Backed, Idle
  <1>2. CountInv => CountNeverOvercounts
    BY DEF CountInv, CountNeverOvercounts
  <1> QED
    BY <1>1, <1>2, CountStep, LogInvCorrect, PTL DEF Spec
===============================================================================
