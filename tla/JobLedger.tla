------------------------------- MODULE JobLedger -------------------------------
(***************************************************************************)
(* What the backend promises about a job to those who read it: a record     *)
(* that changes by whole operations, each at one instant.  The handlers of  *)
(* app/main.py, which are made of several transactions and overlap, are     *)
(* shown to implement it in JobLifecycle.                                   *)
(*                                                                          *)
(* The ledger is frank about what the code does not promise: a report, a    *)
(* failure or a cancellation may still change a record that has ended.      *)
(***************************************************************************)
CONSTANTS
    Jobs,      \* job ids
    Engines,   \* the engines that may own a job
    None       \* no engine

VARIABLES
    record,    \* the status, the result and the owner of every job
    issued     \* the ids that have been used

ledger == <<record, issued>>

Entry(status, overall, owner) ==
    [status |-> status, overall |-> overall, owner |-> owner]

Blank == Entry("absent", "none", None)

Init ==
    /\ record = [j \in Jobs |-> Blank]
    /\ issued = {}

Exists(j) == record[j].status # "absent"

Set(j, status, overall, owner) == record'[j] = Entry(status, overall, owner)

\* A job is queued once in its life, by whoever made its id.
Queue(j) ==
    /\ j \notin issued /\ j \in issued'
    /\ Set(j, "queued", "none", None)

\* A callback about a job that does not exist starts it.
Adopt(j) ==
    /\ ~Exists(j) /\ j \in issued'
    /\ Set(j, "running", "none", None)

\* One engine takes a queued job.
Claim(j) ==
    /\ record[j].status = "queued"
    /\ \E e \in Engines : Set(j, "running", record[j].overall, e)

\* Log lines show that the job runs.
Report(j) == Exists(j) /\ Set(j, "running", record[j].overall, record[j].owner)

\* The status and the result come from the same final callback.
Complete(j) ==
    /\ Exists(j)
    /\ \/ Set(j, "success", "success", record[j].owner)
       \/ \E s \in {"failed", "running"} : Set(j, s, "failed", record[j].owner)

\* A job that fails without a final callback.
Fail(j) ==
    /\ Exists(j)
    /\ \E o \in {record[j].overall, "failed"} : Set(j, "failed", o, record[j].owner)

Cancel(j) == Exists(j) /\ Set(j, "cancelled", record[j].overall, record[j].owner)

Remove(j) == Exists(j) /\ record'[j] = Blank

Change(j) ==
    \/ Queue(j) \/ Adopt(j) \/ Claim(j) \/ Report(j) \/ Complete(j) \/ Fail(j)
    \/ Cancel(j) \/ Remove(j)

\* The records of different jobs are independent, and no id is forgotten.
Next ==
    /\ issued \subseteq issued'
    /\ DOMAIN record' = Jobs
    /\ \A j \in Jobs : Change(j) \/ record'[j] = record[j]

Spec == Init /\ [][Next]_ledger
===============================================================================
