--------------------------- MODULE ApprovalProofs ---------------------------
(* Proofs about Approval, for any number of jobs, records and handlers.       *)
EXTENDS Approval, TLAPS

\* A handler that is at work knows its job, and its record from where it has one.
ArgsOK ==
    \A h \in Handlers :
        /\ handler[h].pc # "idle" => handler[h].job \in Jobs
        /\ handler[h].pc \in {"insert", "approve", "reject"} => handler[h].record \in Records

TypeInv == TypeOK /\ ArgsOK

\* No critical weakness is in the way of what may be approved, on its way into a
\* record, in a record, accepted by a handler or by a job.
CriticalInv ==
    /\ \A j \in Jobs : summary[j].verdict = "block_pending_approval" =>
          summary[j].reasons \cap Critical = {}
    /\ \A r \in Records : record[r].reasons \cap Critical = {}
    /\ \A h \in Handlers : handler[h].pc \in {"insert", "approve"} =>
          handler[h].cwes \cap Critical = {}
    /\ AcceptsNoCritical

-----------------------------------------------------------------------------
\* What is stored of a report is a summary.
LEMMA StoredType ==
    ASSUME NEW s \in Reports
    PROVE  /\ Stored(s) \in Summary
           /\ Stored(s).verdict = "block_pending_approval" =>
                 Stored(s).reasons \cap Critical = {}
  <1>1. s \in [verdict : {"absent", "pass", "block", "block_pending_approval"},
               found : SUBSET Cwes]
    BY DEF Reports
  <1>2. CASE s.verdict = "absent"
    BY <1>1, <1>2 DEF Stored, Summary
  <1>3. CASE s.verdict # "absent"
    <2>1. s.verdict = "block" <=> s.found \cap Critical # {}
      BY <1>3 DEF Reports
    <2>2. Stored(s) = [verdict |-> s.verdict, reasons |-> s.found]
      BY <1>3 DEF Stored
    <2> QED
      BY <1>1, <1>3, <2>1, <2>2 DEF Summary
  <1> QED
    BY <1>2, <1>3

\* Nothing is accepted that is critical.
LEMMA AcceptedType ==
    ASSUME NEW body \in SUBSET Cwes, NEW reasons \in SUBSET Cwes
    PROVE  /\ Accepted(body, reasons) \in SUBSET Cwes
           /\ reasons \cap Critical = {} => Accepted(body, reasons) \cap Critical = {}
  BY DEF Accepted

\* The handlers' idle state and the empty rows are in their domains.
LEMMA RowTypes ==
    Idle \in HandlerState /\ NoRecord \in RecordRow /\ NoSummary \in Summary
  BY DEF Idle, HandlerState, NoRecord, RecordRow, NoSummary, Summary

\* The types hold at first.
LEMMA TypeInvInit == Init => TypeInv
  <1> SUFFICES ASSUME Init PROVE TypeInv
    OBVIOUS
  <1>1. job \in [Jobs -> JobRow]
    BY DEF Init, JobRow
  <1>2. issued \in 0 .. MaxRecords /\ stored \in 0 .. MaxCompletions
    BY BoundsAssumption DEF Init
  <1> QED
    BY <1>1, <1>2, RowTypes DEF Init, TypeInv, TypeOK, ArgsOK, Idle

\* A handler keeps the types.
LEMMA HandlerType ==
    ASSUME TypeInv, NEW h \in Handlers, Handling(h)
    PROVE  TypeInv'
  <1>t. /\ job \in [Jobs -> JobRow] /\ summary \in [Jobs -> Summary]
        /\ record \in [Records -> RecordRow] /\ issued \in 0 .. MaxRecords
        /\ stored \in 0 .. MaxCompletions
        /\ handler \in [Handlers -> HandlerState] /\ handler[h] \in HandlerState
    BY DEF TypeInv, TypeOK
  <1>0. ASSUME NEW x \in HandlerState, handler' = [handler EXCEPT ![h] = x],
               x.pc # "idle" => x.job \in Jobs,
               x.pc \in {"insert", "approve", "reject"} => x.record \in Records
        PROVE  handler' \in [Handlers -> HandlerState] /\ ArgsOK'
    BY <1>t, <1>0 DEF TypeInv, ArgsOK
  <1>i. ASSUME handler' = [handler EXCEPT ![h] = Idle]
        PROVE  handler' \in [Handlers -> HandlerState] /\ ArgsOK'
    BY <1>0, <1>i, RowTypes DEF Idle
  <1>1. ASSUME NEW j \in Jobs, RequestCheck(h, j) PROVE TypeInv'
    <2> DEFINE x == [pc |-> "insert", job |-> j, record |-> issued', cwes |-> summary[j].reasons]
    <2>1. issued' \in Records /\ issued' \in 0 .. MaxRecords
      BY <1>1, <1>t, BoundsAssumption DEF RequestCheck, Records
    <2>2. x \in HandlerState
      BY <1>t, <2>1 DEF HandlerState, Summary
    <2>3. handler' = [handler EXCEPT ![h] = x]
      BY <1>1 DEF RequestCheck
    <2>4. handler' \in [Handlers -> HandlerState] /\ ArgsOK'
      BY <1>0, <2>1, <2>2, <2>3
    <2> QED
      BY <1>1, <1>t, <2>1, <2>4 DEF RequestCheck, TypeInv, TypeOK
  <1>2. CASE RequestInsert(h)
    <2>1. handler' \in [Handlers -> HandlerState] /\ ArgsOK'
      BY <1>2, <1>i DEF RequestInsert
    <2>2. handler[h].job \in Jobs /\ handler[h].record \in Records
      BY <1>2 DEF RequestInsert, TypeInv, ArgsOK
    <2>3. [status |-> "pending", job |-> handler[h].job,
           reasons |-> handler[h].cwes, followup |-> None] \in RecordRow
      BY <1>t, <2>2 DEF RecordRow, HandlerState
    <2>4. record' \in [Records -> RecordRow]
      BY <1>2, <1>t, <2>3 DEF RequestInsert
    <2> QED
      BY <1>2, <1>t, <2>1, <2>4 DEF RequestInsert, TypeInv, TypeOK
  <1>3. ASSUME NEW j \in Jobs, NEW body \in SUBSET Cwes, ApproveCheck(h, j, body) PROVE TypeInv'
    <2> DEFINE x == [Idle EXCEPT !.pc = "checked", !.job = j, !.cwes = body]
    <2>1. x \in HandlerState /\ x.pc = "checked" /\ x.job = j
      BY DEF Idle, HandlerState
    <2>2. handler' = [handler EXCEPT ![h] = x]
      BY <1>3 DEF ApproveCheck
    <2>3. handler' \in [Handlers -> HandlerState] /\ ArgsOK'
      BY <1>0, <2>1, <2>2
    <2> QED
      BY <1>3, <1>t, <2>3 DEF ApproveCheck, TypeInv, TypeOK
  <1>4. CASE ApprovePick(h)
    <2>0. handler[h].job \in Jobs
      BY <1>4 DEF ApprovePick, TypeInv, ArgsOK
    <2>1. ASSUME NEW r \in Newest(handler[h].job),
                 handler' = [handler EXCEPT ![h] =
                    [handler[h] EXCEPT !.pc = "approve", !.record = r,
                                       !.cwes = Accepted(handler[h].cwes, record[r].reasons)]]
          PROVE  handler' \in [Handlers -> HandlerState] /\ ArgsOK'
      <3> DEFINE x == [handler[h] EXCEPT !.pc = "approve", !.record = r,
                                         !.cwes = Accepted(handler[h].cwes, record[r].reasons)]
      <3>1. r \in Records
        BY DEF Newest, Pending
      <3>2. handler[h].cwes \in SUBSET Cwes /\ record[r].reasons \in SUBSET Cwes
        BY <1>t, <3>1 DEF HandlerState, RecordRow
      <3>3. Accepted(handler[h].cwes, record[r].reasons) \in SUBSET Cwes
        BY <3>2, AcceptedType
      <3>4. x \in HandlerState /\ x.job = handler[h].job /\ x.record = r
        BY <1>t, <3>1, <3>3 DEF HandlerState
      <3>5. handler' = [handler EXCEPT ![h] = x]
        BY <2>1
      <3> QED
        BY <1>0, <2>0, <3>1, <3>4, <3>5
    <2>2. handler' \in [Handlers -> HandlerState] /\ ArgsOK'
      BY <1>4, <1>i, <2>1 DEF ApprovePick
    <2> QED
      BY <1>4, <1>t, <2>2 DEF ApprovePick, TypeInv, TypeOK
  <1>5. CASE ApproveWrite(h)
    <2>1. handler' \in [Handlers -> HandlerState] /\ ArgsOK'
      BY <1>5, <1>i DEF ApproveWrite
    <2>2. handler[h].record \in Records
      BY <1>5 DEF ApproveWrite, TypeInv, ArgsOK
    <2>3. ASSUME NEW f \in Jobs PROVE
             /\ [state |-> "present", origin |-> handler[h].record,
                 accepted |-> handler[h].cwes] \in JobRow
             /\ [record[handler[h].record] EXCEPT !.status = "approved", !.followup = f] \in RecordRow
      <3>1. [state |-> "present", origin |-> handler[h].record,
             accepted |-> handler[h].cwes] \in JobRow
        BY <1>t, <2>2 DEF JobRow, HandlerState
      <3>2. record[handler[h].record] \in RecordRow
        BY <1>t, <2>2
      <3>3. [record[handler[h].record] EXCEPT !.status = "approved", !.followup = f] \in RecordRow
        BY <3>2 DEF RecordRow
      <3> QED
        BY <3>1, <3>3
    <2>4. job' \in [Jobs -> JobRow] /\ record' \in [Records -> RecordRow]
      <3>1. ASSUME NEW f \in Jobs,
                   job' = [job EXCEPT ![f] = [state |-> "present", origin |-> handler[h].record,
                                              accepted |-> handler[h].cwes]],
                   record' = Updated(handler[h].record, [record[handler[h].record] EXCEPT
                                        !.status = "approved", !.followup = f])
            PROVE  job' \in [Jobs -> JobRow] /\ record' \in [Records -> RecordRow]
        <4>1. job' \in [Jobs -> JobRow]
          BY <1>t, <2>3, <3>1
        <4>2. record' \in [Records -> RecordRow]
          BY <1>t, <2>2, <2>3, <3>1 DEF Updated
        <4> QED
          BY <4>1, <4>2
      <3>2. CASE UNCHANGED <<job, record>>
        BY <1>t, <3>2
      <3> QED
        BY <1>5, <3>1, <3>2 DEF ApproveWrite
    <2> QED
      BY <1>5, <1>t, <2>1, <2>4 DEF ApproveWrite, TypeInv, TypeOK
  <1>6. ASSUME NEW j \in Jobs, RejectPick(h, j) PROVE TypeInv'
    <2>1. PICK r \in Newest(j) : handler' = [handler EXCEPT ![h] =
             [Idle EXCEPT !.pc = "reject", !.job = j, !.record = r]]
      BY <1>6 DEF RejectPick
    <2> DEFINE x == [Idle EXCEPT !.pc = "reject", !.job = j, !.record = r]
    <2>2. r \in Records
      BY DEF Newest, Pending
    <2>3. x \in HandlerState /\ x.job = j /\ x.record = r
      BY <2>2 DEF Idle, HandlerState
    <2>4. handler' \in [Handlers -> HandlerState] /\ ArgsOK'
      BY <1>0, <2>1, <2>2, <2>3
    <2> QED
      BY <1>6, <1>t, <2>4 DEF RejectPick, TypeInv, TypeOK
  <1>7. CASE RejectWrite(h)
    <2>1. handler' \in [Handlers -> HandlerState] /\ ArgsOK'
      BY <1>7, <1>i DEF RejectWrite
    <2>2. handler[h].record \in Records
      BY <1>7 DEF RejectWrite, TypeInv, ArgsOK
    <2>3. [record[handler[h].record] EXCEPT !.status = "rejected"] \in RecordRow
      BY <1>t, <2>2 DEF RecordRow
    <2>4. record' \in [Records -> RecordRow]
      BY <1>7, <1>t, <2>2, <2>3 DEF RejectWrite, Updated
    <2> QED
      BY <1>7, <1>t, <2>1, <2>4 DEF RejectWrite, TypeInv, TypeOK
  <1> QED
    BY <1>1, <1>2, <1>3, <1>4, <1>5, <1>6, <1>7 DEF Handling

\* The types are an invariant.
LEMMA TypeInvNext == TypeInv /\ [Next]_vars => TypeInv'
  <1> SUFFICES ASSUME TypeInv, [Next]_vars PROVE TypeInv'
    OBVIOUS
  <1>t. /\ job \in [Jobs -> JobRow] /\ summary \in [Jobs -> Summary]
        /\ record \in [Records -> RecordRow] /\ stored \in 0 .. MaxCompletions
    BY DEF TypeInv, TypeOK
  <1>1. ASSUME NEW j \in Jobs, Delete(j) PROVE TypeInv'
    <2>1. job' \in [Jobs -> JobRow]
      BY <1>1, <1>t DEF Delete, JobRow
    <2>2. summary' \in [Jobs -> Summary] /\ record' \in [Records -> RecordRow]
      BY <1>1, <1>t, RowTypes DEF Delete
    <2> QED
      BY <1>1, <2>1, <2>2 DEF Delete, TypeInv, TypeOK, ArgsOK
  <1>2. ASSUME NEW j \in Jobs, NEW s \in Reports, StoreVerdict(j, s) PROVE TypeInv'
    <2>1. summary' \in [Jobs -> Summary]
      BY <1>2, <1>t, StoredType DEF StoreVerdict
    <2>2. stored' \in 0 .. MaxCompletions
      BY <1>2, <1>t, BoundsAssumption DEF StoreVerdict
    <2> QED
      BY <1>2, <2>1, <2>2 DEF StoreVerdict, TypeInv, TypeOK, ArgsOK
  <1>3. CASE UNCHANGED vars
    BY <1>3 DEF vars, TypeInv, TypeOK, ArgsOK
  <1> QED
    BY <1>1, <1>2, <1>3, HandlerType DEF Next

\* Every variable stays in its domain.
THEOREM TypeCorrect == Spec => []TypeOK
  <1>1. TypeInv => TypeOK
    BY DEF TypeInv
  <1> QED
    BY <1>1, TypeInvInit, TypeInvNext, PTL DEF Spec

-----------------------------------------------------------------------------
\* Nothing critical at first.
LEMMA CriticalInvInit == Init => CriticalInv
  BY DEF Init, CriticalInv, AcceptsNoCritical, NoSummary, NoRecord, Idle

\* A handler passes nothing critical on.
LEMMA HandlerCritical ==
    ASSUME TypeInv, CriticalInv, NEW h \in Handlers, Handling(h)
    PROVE  CriticalInv'
  <1>t. /\ job \in [Jobs -> JobRow] /\ record \in [Records -> RecordRow]
        /\ handler \in [Handlers -> HandlerState] /\ handler[h] \in HandlerState
    BY DEF TypeInv, TypeOK
  <1>0. ASSUME summary' = summary,
               \A g \in Handlers \ {h} : handler'[g] = handler[g],
               handler'[h].pc \in {"insert", "approve"} => handler'[h].cwes \cap Critical = {},
               \A r \in Records : record'[r].reasons \cap Critical = {},
               \A j \in Jobs : job'[j].accepted \cap Critical = {}
        PROVE  CriticalInv'
    BY <1>0 DEF CriticalInv, AcceptsNoCritical
  <1>1. ASSUME NEW j \in Jobs, RequestCheck(h, j) PROVE CriticalInv'
    <2>1. summary[j].reasons \cap Critical = {}
      BY <1>1 DEF RequestCheck, AwaitsApproval, CriticalInv
    <2>2. /\ handler'[h].cwes \cap Critical = {}
          /\ \A g \in Handlers \ {h} : handler'[g] = handler[g]
          /\ job' = job /\ summary' = summary /\ record' = record
      BY <1>1, <1>t, <2>1 DEF RequestCheck
    <2> QED
      BY <1>0, <2>2 DEF CriticalInv, AcceptsNoCritical
  <1>2. CASE RequestInsert(h)
    <2>1. handler[h].record \in Records /\ handler[h].cwes \cap Critical = {}
      BY <1>2 DEF RequestInsert, TypeInv, ArgsOK, CriticalInv
    <2>2. /\ handler'[h].pc = "idle" /\ \A g \in Handlers \ {h} : handler'[g] = handler[g]
          /\ job' = job /\ summary' = summary
      BY <1>2, <1>t DEF RequestInsert, Idle
    <2>3. \A r \in Records : record'[r].reasons \cap Critical = {}
      BY <1>2, <1>t, <2>1 DEF RequestInsert, CriticalInv
    <2> QED
      BY <1>0, <2>2, <2>3 DEF CriticalInv, AcceptsNoCritical
  <1>3. ASSUME NEW j \in Jobs, NEW body \in SUBSET Cwes, ApproveCheck(h, j, body)
        PROVE  CriticalInv'
    <2>1. /\ handler'[h].pc = "checked" /\ \A g \in Handlers \ {h} : handler'[g] = handler[g]
          /\ job' = job /\ summary' = summary /\ record' = record
      BY <1>3, <1>t DEF ApproveCheck, Idle
    <2> QED
      BY <1>0, <2>1 DEF CriticalInv, AcceptsNoCritical
  <1>4. CASE ApprovePick(h)
    <2>1. \A g \in Handlers \ {h} : handler'[g] = handler[g]
      BY <1>4, <1>t DEF ApprovePick
    <2>2. job' = job /\ summary' = summary /\ record' = record
      BY <1>4 DEF ApprovePick
    <2>3. CASE handler' = [handler EXCEPT ![h] = Idle]
      <3>1. handler'[h].pc = "idle"
        BY <1>t, <2>3 DEF Idle
      <3> QED
        BY <1>0, <2>1, <2>2, <3>1 DEF CriticalInv, AcceptsNoCritical
    <2>4. ASSUME NEW r \in Newest(handler[h].job),
                 handler' = [handler EXCEPT ![h] =
                    [handler[h] EXCEPT !.pc = "approve", !.record = r,
                                       !.cwes = Accepted(handler[h].cwes, record[r].reasons)]]
          PROVE  CriticalInv'
      <3>1. r \in Records
        BY DEF Newest, Pending
      <3>2. /\ handler[h].cwes \in SUBSET Cwes /\ record[r].reasons \in SUBSET Cwes
            /\ record[r].reasons \cap Critical = {}
        BY <1>t, <3>1 DEF HandlerState, RecordRow, CriticalInv
      <3>3. Accepted(handler[h].cwes, record[r].reasons) \cap Critical = {}
        BY <3>2, AcceptedType
      <3>4. handler'[h].cwes = Accepted(handler[h].cwes, record[r].reasons)
        BY <1>t, <2>4 DEF HandlerState
      <3> QED
        BY <1>0, <2>1, <2>2, <3>3, <3>4 DEF CriticalInv, AcceptsNoCritical
    <2> QED
      BY <1>4, <2>3, <2>4 DEF ApprovePick
  <1>5. CASE ApproveWrite(h)
    <2>1. handler[h].record \in Records /\ handler[h].cwes \cap Critical = {}
      BY <1>5 DEF ApproveWrite, TypeInv, ArgsOK, CriticalInv
    <2>2. /\ handler'[h].pc = "idle" /\ \A g \in Handlers \ {h} : handler'[g] = handler[g]
          /\ summary' = summary
      BY <1>5, <1>t DEF ApproveWrite, Idle
    <2>3. /\ \A r \in Records : record'[r].reasons \cap Critical = {}
          /\ \A j \in Jobs : job'[j].accepted \cap Critical = {}
      <3>1. ASSUME NEW f \in Jobs,
                   job' = [job EXCEPT ![f] = [state |-> "present", origin |-> handler[h].record,
                                              accepted |-> handler[h].cwes]],
                   record' = Updated(handler[h].record, [record[handler[h].record] EXCEPT
                                        !.status = "approved", !.followup = f])
            PROVE  /\ \A r \in Records : record'[r].reasons \cap Critical = {}
                   /\ \A j \in Jobs : job'[j].accepted \cap Critical = {}
        <4>1. \A j \in Jobs : job'[j].accepted \cap Critical = {}
          BY <1>t, <2>1, <3>1 DEF CriticalInv, AcceptsNoCritical
        <4>2. \A r \in Records : record'[r].reasons = record[r].reasons
          BY <1>t, <2>1, <3>1 DEF Updated, RecordRow
        <4> QED
          BY <4>1, <4>2 DEF CriticalInv
      <3>2. CASE UNCHANGED <<job, record>>
        BY <3>2 DEF CriticalInv, AcceptsNoCritical
      <3> QED
        BY <1>5, <3>1, <3>2 DEF ApproveWrite
    <2> QED
      BY <1>0, <2>2, <2>3
  <1>6. ASSUME NEW j \in Jobs, RejectPick(h, j) PROVE CriticalInv'
    <2>1. PICK r \in Newest(j) : handler' = [handler EXCEPT ![h] =
             [Idle EXCEPT !.pc = "reject", !.job = j, !.record = r]]
      BY <1>6 DEF RejectPick
    <2>2. /\ handler'[h].pc = "reject" /\ \A g \in Handlers \ {h} : handler'[g] = handler[g]
      BY <1>t, <2>1 DEF Idle
    <2> QED
      BY <1>0, <1>6, <2>2 DEF RejectPick, CriticalInv, AcceptsNoCritical
  <1>7. CASE RejectWrite(h)
    <2>1. /\ handler'[h].pc = "idle" /\ \A g \in Handlers \ {h} : handler'[g] = handler[g]
          /\ job' = job /\ summary' = summary
      BY <1>7, <1>t DEF RejectWrite, Idle
    <2>2. handler[h].record \in Records
      BY <1>7 DEF RejectWrite, TypeInv, ArgsOK
    <2>3. \A r \in Records : record'[r].reasons = record[r].reasons
      BY <1>7, <1>t, <2>2 DEF RejectWrite, Updated, RecordRow
    <2> QED
      BY <1>0, <2>1, <2>3 DEF CriticalInv, AcceptsNoCritical
  <1> QED
    BY <1>1, <1>2, <1>3, <1>4, <1>5, <1>6, <1>7 DEF Handling

\* That nothing critical is on its way is an invariant.
LEMMA CriticalInvNext == TypeInv /\ CriticalInv /\ [Next]_vars => CriticalInv'
  <1> SUFFICES ASSUME TypeInv, CriticalInv, [Next]_vars PROVE CriticalInv'
    OBVIOUS
  <1>t. job \in [Jobs -> JobRow] /\ summary \in [Jobs -> Summary]
    BY DEF TypeInv, TypeOK
  <1>1. ASSUME NEW j \in Jobs, Delete(j) PROVE CriticalInv'
    <2>1. \A i \in Jobs : job'[i].accepted = job[i].accepted
      BY <1>1, <1>t DEF Delete, JobRow
    <2>2. \A i \in Jobs : summary'[i].verdict = "block_pending_approval" => summary'[i] = summary[i]
      BY <1>1, <1>t DEF Delete, NoSummary
    <2>3. \A r \in Records : record'[r].reasons \cap Critical = {}
      BY <1>1 DEF Delete, NoRecord, CriticalInv
    <2> QED
      BY <1>1, <2>1, <2>2, <2>3 DEF Delete, CriticalInv, AcceptsNoCritical
  <1>2. ASSUME NEW j \in Jobs, NEW s \in Reports, StoreVerdict(j, s) PROVE CriticalInv'
    <2>1. \A i \in Jobs : summary'[i] = IF i = j THEN Stored(s) ELSE summary[i]
      BY <1>2, <1>t DEF StoreVerdict
    <2>2. \A i \in Jobs : summary'[i].verdict = "block_pending_approval" =>
             summary'[i].reasons \cap Critical = {}
      BY <2>1, StoredType DEF CriticalInv
    <2> QED
      BY <1>2, <2>2 DEF StoreVerdict, CriticalInv, AcceptsNoCritical
  <1>3. CASE UNCHANGED vars
    BY <1>3 DEF vars, CriticalInv, AcceptsNoCritical
  <1> QED
    BY <1>1, <1>2, <1>3, HandlerCritical DEF Next

\* No job is ever queued with a critical weakness accepted.
THEOREM NoCriticalAccepted == Spec => []AcceptsNoCritical
  <1>1. TypeInv /\ CriticalInv => AcceptsNoCritical
    BY DEF CriticalInv
  <1> QED
    BY <1>1, TypeInvInit, TypeInvNext, CriticalInvInit, CriticalInvNext, PTL DEF Spec

-----------------------------------------------------------------------------
\* There are no records at first.
LEMMA RecordsInit == Init => RecordsHaveJobs
  BY DEF Init, RecordsHaveJobs, NoRecord

\* A record comes with its job and goes with it.
LEMMA RecordsNext == TypeInv /\ RecordsHaveJobs /\ [Next]_vars => RecordsHaveJobs'
  <1> SUFFICES ASSUME TypeInv, RecordsHaveJobs, [Next]_vars PROVE RecordsHaveJobs'
    OBVIOUS
  <1>t. /\ job \in [Jobs -> JobRow] /\ record \in [Records -> RecordRow]
        /\ \A r \in Records : record[r] \in RecordRow
    BY DEF TypeInv, TypeOK
  <1>0. ASSUME UNCHANGED <<job, record>> PROVE RecordsHaveJobs'
    BY <1>0 DEF RecordsHaveJobs, Present
  <1>1. ASSUME NEW h \in Handlers, RequestInsert(h) PROVE RecordsHaveJobs'
    <2>1. handler[h].record \in Records /\ handler[h].job \in Jobs /\ job' = job
      BY <1>1 DEF RequestInsert, TypeInv, ArgsOK
    <2>2. CASE Present(handler[h].job)
      <3>1. \A r \in Records : record'[r].job =
               IF r = handler[h].record THEN handler[h].job ELSE record[r].job
        BY <1>1, <1>t, <2>1, <2>2 DEF RequestInsert, MayRefer
      <3>2. \A r \in Records \ {handler[h].record} : record'[r] = record[r]
        BY <1>1, <1>t, <2>1, <2>2 DEF RequestInsert, MayRefer
      <3> QED
        BY <2>1, <2>2, <3>1, <3>2 DEF RecordsHaveJobs, Present
    <2>3. CASE ~Present(handler[h].job)
      BY <1>0, <1>1, <2>3 DEF RequestInsert, MayRefer
    <2> QED
      BY <2>2, <2>3
  <1>2. ASSUME NEW h \in Handlers, ApproveWrite(h) PROVE RecordsHaveJobs'
    <2>1. handler[h].record \in Records
      BY <1>2 DEF ApproveWrite, TypeInv, ArgsOK
    <2>2. ASSUME NEW f \in Jobs, Exists(handler[h].record), job[f].state = "none",
                 job' = [job EXCEPT ![f] = [state |-> "present", origin |-> handler[h].record,
                                            accepted |-> handler[h].cwes]],
                 record' = Updated(handler[h].record, [record[handler[h].record] EXCEPT
                                      !.status = "approved", !.followup = f])
          PROVE  RecordsHaveJobs'
      <3>1. \A r \in Records : /\ record'[r].job = record[r].job
                               /\ record'[r].status # "none" => record[r].status # "none"
        <4> DEFINE row == [record[handler[h].record] EXCEPT !.status = "approved", !.followup = f]
        <4>1. row.job = record[handler[h].record].job
          BY <1>t, <2>1 DEF RecordRow
        <4>2. \A r \in Records : record'[r] = IF r = handler[h].record THEN row ELSE record[r]
          BY <1>t, <2>1, <2>2 DEF Exists, Updated
        <4> QED
          BY <2>2, <4>1, <4>2 DEF Exists
      <3>2. \A j \in Jobs : Present(j) => Present(j)'
        BY <1>t, <2>2 DEF Present
      <3> QED
        BY <3>1, <3>2 DEF RecordsHaveJobs
    <2>3. CASE UNCHANGED <<job, record>>
      BY <1>0, <2>3
    <2> QED
      BY <1>2, <2>2, <2>3 DEF ApproveWrite
  <1>3. ASSUME NEW h \in Handlers, RejectWrite(h) PROVE RecordsHaveJobs'
    <2>1. handler[h].record \in Records /\ job' = job
      BY <1>3 DEF RejectWrite, TypeInv, ArgsOK
    <2>2. \A r \in Records : /\ record'[r].job = record[r].job
                             /\ record'[r].status # "none" => record[r].status # "none"
      BY <1>3, <1>t, <2>1 DEF RejectWrite, Updated, RecordRow
    <2> QED
      BY <2>1, <2>2 DEF RecordsHaveJobs, Present
  <1>4. ASSUME NEW j \in Jobs, Delete(j) PROVE RecordsHaveJobs'
    <2>1. \A r \in Records : record'[r].status # "none" =>
             record'[r] = record[r] /\ record[r].job # j
      BY <1>4 DEF Delete, NoRecord
    <2>2. \A i \in Jobs \ {j} : job'[i] = job[i]
      BY <1>4, <1>t DEF Delete
    <2> QED
      BY <2>1, <2>2 DEF RecordsHaveJobs, Present
  <1>5. ASSUME NEW j \in Jobs, NEW s \in Reports, StoreVerdict(j, s) PROVE RecordsHaveJobs'
    BY <1>0, <1>5 DEF StoreVerdict
  <1>6. CASE UNCHANGED vars
    BY <1>0, <1>6 DEF vars
  <1>7. ASSUME NEW h \in Handlers, NEW j \in Jobs, RequestCheck(h, j) \/ RejectPick(h, j)
        PROVE  RecordsHaveJobs'
    BY <1>0, <1>7 DEF RequestCheck, RejectPick
  <1>8. ASSUME NEW h \in Handlers,
               ApprovePick(h) \/ \E j \in Jobs, body \in SUBSET Cwes : ApproveCheck(h, j, body)
        PROVE  RecordsHaveJobs'
    BY <1>0, <1>8 DEF ApprovePick, ApproveCheck
  <1> QED
    BY <1>1, <1>2, <1>3, <1>4, <1>5, <1>6, <1>7, <1>8 DEF Next, Handling

\* Every record is of a job that exists.
THEOREM RecordsKeepJobs == Spec => []RecordsHaveJobs
  BY TypeInvInit, TypeInvNext, RecordsInit, RecordsNext, PTL DEF Spec

-----------------------------------------------------------------------------
\* Only ApproveWrite adds a job, and it approves the record it names.
LEMMA FollowUpStep ==
    ASSUME TypeInv, Next, NEW f \in Jobs, job[f].state = "none", job'[f].state = "present"
    PROVE  LET r == job'[f].origin IN
           /\ record[r].status # "none"
           /\ record'[r].status = "approved"
           /\ record'[r].followup = f
  <1>t. job \in [Jobs -> JobRow] /\ record \in [Records -> RecordRow]
    BY DEF TypeInv, TypeOK
  <1>1. job' # job
    OBVIOUS
  <1>2. ~\E j \in Jobs : Delete(j)
    BY <1>t DEF Delete, Present
  <1>3. PICK h \in Handlers : ApproveWrite(h)
    BY <1>1, <1>2 DEF Next, Handling, StoreVerdict, RequestCheck, RequestInsert, ApproveCheck,
                      ApprovePick, RejectPick, RejectWrite
  <1>4. handler[h].record \in Records /\ Exists(handler[h].record)
    BY <1>1, <1>3 DEF ApproveWrite, TypeInv, ArgsOK
  <1>5. PICK g \in Jobs :
           /\ job' = [job EXCEPT ![g] = [state |-> "present", origin |-> handler[h].record,
                                         accepted |-> handler[h].cwes]]
           /\ record' = Updated(handler[h].record, [record[handler[h].record] EXCEPT
                                    !.status = "approved", !.followup = g])
    BY <1>1, <1>3 DEF ApproveWrite
  <1>6. g = f /\ job'[f].origin = handler[h].record
    BY <1>t, <1>5
  <1>7. /\ record'[handler[h].record].status = "approved"
        /\ record'[handler[h].record].followup = f
    BY <1>t, <1>4, <1>5, <1>6 DEF Exists, Updated, RecordRow
  <1> QED
    BY <1>4, <1>6, <1>7 DEF Exists

\* No follow-up job without the approval of a record that is there.
THEOREM FollowUpApproved == Spec => FollowUpIsApproved
  <1> DEFINE A == \A f \in Jobs : job[f].state = "none" /\ job'[f].state = "present" =>
                    LET r == job'[f].origin IN
                    /\ record[r].status # "none"
                    /\ record'[r].status = "approved"
                    /\ record'[r].followup = f
  <1>1. TypeInv /\ [Next]_vars => [A]_vars
    BY FollowUpStep
  <1> QED
    BY <1>1, TypeInvInit, TypeInvNext, PTL DEF Spec, FollowUpIsApproved
=============================================================================
