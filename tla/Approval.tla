------------------------------ MODULE Approval ------------------------------
(***************************************************************************)
(* The approval workflow of app/main.py: request_approval, approve_job and  *)
(* reject_job, with the callback that stores a verdict and the deletion of  *)
(* a job.                                                                   *)
(*                                                                          *)
(* A handler is one transaction at PostgreSQL's READ COMMITTED: what it     *)
(* read may have changed by the time it writes.  It locks nothing, and      *)
(* SQLAlchemy updates a loaded record by its primary key, in the columns    *)
(* that were assigned; it rolls the transaction back when the row is gone.  *)
(*                                                                          *)
(* A record's number is its rank by created_at, the start of the            *)
(* transaction that inserts it.                                             *)
(***************************************************************************)
EXTENDS Naturals

CONSTANTS
    Jobs,            \* job ids
    Originals,       \* the jobs that exist at first
    Cwes,            \* weaknesses a verdict may name
    Critical,        \* critical_cwes
    Handlers,        \* requests in flight
    None,            \* no job, no record
    MaxRecords,      \* bound on the approval requests
    MaxCompletions   \* bound on the results stored

ASSUME OriginalsAssumption == Originals \subseteq Jobs
ASSUME CriticalAssumption == Critical \subseteq Cwes
ASSUME NoneAssumption == None \notin Jobs \cup (Nat \ {0})
ASSUME BoundsAssumption == MaxRecords \in Nat /\ MaxCompletions \in Nat

VARIABLES
    job,       \* pipeline_jobs
    summary,   \* security_summary: the latest verdict of each job
    record,    \* approval_records
    issued,    \* how many records have been given a created_at
    stored,    \* how many results have been stored
    handler    \* the handlers

vars == <<job, summary, record, issued, stored, handler>>

Records == 1 .. MaxRecords

\* origin: approval_record_id; accepted: approved_cwes.
JobRow == [state : {"none", "present", "deleted"}, origin : Records \cup {None},
           accepted : SUBSET Cwes]

\* "pass" stands for "warn" as well; the last three are of results without a
\* verdict.
Summary == [verdict : {"none", "pass", "block", "block_pending_approval",
                       "passed", "warning", "failed"},
            reasons : SUBSET Cwes]

RecordRow == [status : {"none", "pending", "approved", "rejected"},
              job : Jobs \cup {None}, reasons : SUBSET Cwes, followup : Jobs \cup {None}]

\* cwes: the reasons to record, or body["approved_cwes"], or those accepted.
HandlerState == [pc : {"idle", "insert", "checked", "approve", "reject"},
                 job : Jobs \cup {None}, record : Records \cup {None}, cwes : SUBSET Cwes]

NoSummary == [verdict |-> "none", reasons |-> {}]
NoRecord == [status |-> "none", job |-> None, reasons |-> {}, followup |-> None]
Idle == [pc |-> "idle", job |-> None, record |-> None, cwes |-> {}]

Present(j) == job[j].state = "present"
Pending(j) == {r \in Records : record[r].job = j /\ record[r].status = "pending"}

\* ORDER BY created_at DESC LIMIT 1
Newest(j) == {r \in Pending(j) : \A q \in Pending(j) : q <= r}

Init ==
    /\ job = [j \in Jobs |-> [state |-> IF j \in Originals THEN "present" ELSE "none",
                              origin |-> None, accepted |-> {}]]
    /\ summary = [j \in Jobs |-> NoSummary]
    /\ record = [r \in Records |-> NoRecord]
    /\ issued = 0
    /\ stored = 0
    /\ handler = [h \in Handlers |-> Idle]

-----------------------------------------------------------------------------
(* The verdict.                                                             *)

\* The engine blocks for good on a critical weakness, and asks for an approval
\* on others.  An engine may also report its findings without a verdict.
Reports == {s \in [verdict : {"absent", "pass", "block", "block_pending_approval"},
                   found : SUBSET Cwes] :
    s.verdict # "absent" =>
        /\ s.verdict = "pass" <=> s.found = {}
        /\ s.verdict = "block" <=> s.found \cap Critical # {}}

\* Mutant: a missing verdict is stored as it is.
StoredAsReported(s) == [verdict |-> s.verdict, reasons |-> s.found]

Stored(s) ==
    IF s.verdict # "absent" THEN [verdict |-> s.verdict, reasons |-> s.found]
    ELSE [verdict |-> CASE s.found = {} -> "passed"
                        [] s.found \cap Critical # {} -> "failed"
                        [] OTHER -> "warning",
          reasons |-> {}]

\* The final callback of an engine replaces the summary of the job.
StoreVerdict(j, s) ==
    /\ Present(j)
    /\ stored < MaxCompletions
    /\ stored' = stored + 1
    /\ summary' = [summary EXCEPT ![j] = Stored(s)]
    /\ UNCHANGED <<job, record, issued, handler>>

-----------------------------------------------------------------------------
(* request_approval                                                         *)

\* Mutant: a request may be made for any verdict that blocks.
AwaitsAny(j) == summary[j].verdict \in {"block", "block_pending_approval"}

AwaitsApproval(j) == summary[j].verdict = "block_pending_approval"

RequestCheck(h, j) ==
    /\ handler[h].pc = "idle"
    /\ Present(j)
    /\ AwaitsApproval(j)
    /\ Pending(j) = {}
    /\ issued < MaxRecords
    /\ issued' = issued + 1
    /\ handler' = [handler EXCEPT ![h] =
          [pc |-> "insert", job |-> j, record |-> issued', cwes |-> summary[j].reasons]]
    /\ UNCHANGED <<job, summary, record, stored>>

\* Mutant: no foreign key.
MayReferAnyway(j) == TRUE

\* The foreign key of approval_records.
MayRefer(j) == Present(j)

RequestInsert(h) ==
    /\ handler[h].pc = "insert"
    /\ IF MayRefer(handler[h].job)
       THEN record' = [record EXCEPT ![handler[h].record] =
               [status |-> "pending", job |-> handler[h].job,
                reasons |-> handler[h].cwes, followup |-> None]]
       ELSE UNCHANGED record
    /\ handler' = [handler EXCEPT ![h] = Idle]
    /\ UNCHANGED <<job, summary, issued, stored>>

-----------------------------------------------------------------------------
(* approve_job                                                              *)

\* A verdict "block" is refused at once.
ApproveCheck(h, j, body) ==
    /\ handler[h].pc = "idle"
    /\ summary[j].verdict # "block"
    /\ handler' = [handler EXCEPT ![h] =
          [Idle EXCEPT !.pc = "checked", !.job = j, !.cwes = body]]
    /\ UNCHANGED <<job, summary, record, issued, stored>>

\* Mutant: the critical weaknesses are not dropped.
AcceptedAsAsked(body, reasons) == IF body = {} THEN reasons ELSE body

\* With nothing, or an empty list, asked for, everything in the way is accepted.
Accepted(body, reasons) == IF body = {} THEN reasons ELSE body \ Critical

\* The newest pending record and the job are loaded, or 404.
ApprovePick(h) ==
    LET j == handler[h].job IN
    /\ handler[h].pc = "checked"
    /\ \/ /\ Present(j)
          /\ \E r \in Newest(j) : handler' = [handler EXCEPT ![h] =
                [handler[h] EXCEPT !.pc = "approve", !.record = r,
                                   !.cwes = Accepted(handler[h].cwes, record[r].reasons)]]
       \/ /\ ~Present(j) \/ Pending(j) = {}
          /\ handler' = [handler EXCEPT ![h] = Idle]
    /\ UNCHANGED <<job, summary, record, issued, stored>>

\* Mutant: nobody looks whether the UPDATE found its row.
ExistsAnyway(r) == TRUE

\* The UPDATE of a loaded record has found its row.
Exists(r) == record[r].status # "none"

\* UPDATE by primary key: nothing changes when the row is gone.
Updated(r, row) == IF record[r].status = "none" THEN record ELSE [record EXCEPT ![r] = row]

\* The decision and the follow-up job are one transaction.
ApproveWrite(h) ==
    LET r == handler[h].record IN
    /\ handler[h].pc = "approve"
    /\ \/ /\ Exists(r)
          /\ \E f \in Jobs :
                /\ job[f].state = "none"
                /\ job' = [job EXCEPT ![f] =
                      [state |-> "present", origin |-> r, accepted |-> handler[h].cwes]]
                /\ record' = Updated(r, [record[r] EXCEPT !.status = "approved", !.followup = f])
       \/ ~Exists(r) /\ UNCHANGED <<job, record>>
    /\ handler' = [handler EXCEPT ![h] = Idle]
    /\ UNCHANGED <<summary, issued, stored>>

-----------------------------------------------------------------------------
(* reject_job                                                               *)

RejectPick(h, j) ==
    /\ handler[h].pc = "idle"
    /\ \E r \in Newest(j) : handler' = [handler EXCEPT ![h] =
          [Idle EXCEPT !.pc = "reject", !.job = j, !.record = r]]
    /\ UNCHANGED <<job, summary, record, issued, stored>>

RejectWrite(h) ==
    LET r == handler[h].record IN
    /\ handler[h].pc = "reject"
    /\ record' = Updated(r, [record[r] EXCEPT !.status = "rejected"])
    /\ handler' = [handler EXCEPT ![h] = Idle]
    /\ UNCHANGED <<job, summary, issued, stored>>

-----------------------------------------------------------------------------
\* delete_pipeline: the records go with the job, its follow-ups stay.
Delete(j) ==
    /\ Present(j)
    /\ job' = [job EXCEPT ![j].state = "deleted"]
    /\ summary' = [summary EXCEPT ![j] = NoSummary]
    /\ record' = [r \in Records |-> IF record[r].job = j THEN NoRecord ELSE record[r]]
    /\ UNCHANGED <<issued, stored, handler>>

-----------------------------------------------------------------------------
Handling(h) ==
    \/ \E j \in Jobs : RequestCheck(h, j) \/ RejectPick(h, j)
    \/ \E j \in Jobs, body \in SUBSET Cwes : ApproveCheck(h, j, body)
    \/ RequestInsert(h) \/ ApprovePick(h) \/ ApproveWrite(h) \/ RejectWrite(h)

Next ==
    \/ \E h \in Handlers : Handling(h)
    \/ \E j \in Jobs : Delete(j) \/ \E s \in Reports : StoreVerdict(j, s)

Spec == Init /\ [][Next]_vars

-----------------------------------------------------------------------------
\* Every variable stays in its domain.
TypeOK ==
    /\ job \in [Jobs -> JobRow]
    /\ summary \in [Jobs -> Summary]
    /\ record \in [Records -> RecordRow]
    /\ issued \in 0 .. MaxRecords
    /\ stored \in 0 .. MaxCompletions
    /\ handler \in [Handlers -> HandlerState]

\* approve_job: "Critical CWE는 자동 제외".  No job is ever queued with a critical
\* weakness accepted: neither by a list of the approver, nor by accepting all
\* that stood in the way, whatever verdicts are stored while it is decided.
AcceptsNoCritical == \A j \in Jobs : job[j].accepted \cap Critical = {}

\* A record is of a job that exists, although a job may be deleted between the
\* check of a request and its INSERT.
RecordsHaveJobs ==
    \A r \in Records : record[r].status # "none" =>
        record[r].job \in {j \in Jobs : Present(j)}

\* A follow-up job appears only with the approval of a record that is still
\* there, and the record then names it: a deletion in between takes both.
FollowUpIsApproved ==
    [][\A f \in Jobs : job[f].state = "none" /\ job'[f].state = "present" =>
          LET r == job'[f].origin IN
          /\ record[r].status # "none"
          /\ record'[r].status = "approved"
          /\ record'[r].followup = f]_vars

\* approve_job and reject_job: 404 "승인 대기 레코드 없음".  Only a pending record is
\* decided.
DecidesOnlyPending ==
    [][\A r \in Records : record[r].status \in {"approved", "rejected"} =>
          record'[r] = record[r] \/ record'[r].status = "none"]_vars
=============================================================================
