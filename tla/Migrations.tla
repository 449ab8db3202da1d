----------------------------- MODULE Migrations -----------------------------
(***************************************************************************)
(* scripts/apply_migrations.py, which every replica of the backend runs     *)
(* before it serves.  Replicas start from images that hold different sets   *)
(* of migrations (a rolling deployment or a rollback), and may stop at any  *)
(* step.                                                                    *)
(*                                                                          *)
(* A version is the rank of a file by migration_sort_key.  What a replica   *)
(* has executed in an open transaction is visible to nobody and is lost     *)
(* with its connection, as is the advisory lock.                            *)
(***************************************************************************)
EXTENDS Naturals, Sequences, Functions

CONSTANTS
    Replicas,   \* processes of the backend
    Versions,   \* migrations
    Images,     \* the sets of migrations an image may hold
    None        \* no replica, no migration

ASSUME VersionsAssumption == Versions \subseteq Nat
ASSUME ImagesAssumption == Images \subseteq SUBSET Versions
ASSUME NoneAssumption == None \notin Replicas \cup Versions

VARIABLES
    schema,    \* the migrations committed, in their order
    rows,      \* schema_migrations
    lock,      \* who holds the advisory lock
    replica    \* the replicas

vars == <<schema, rows, lock, replica>>

\* seen: the versions read, and those applied since.
\* version: the migration in the open transaction.
ReplicaState ==
    [pc : {"record"}, image : Images, seen : SUBSET Versions, version : Versions]
    \cup
    [pc : {"down", "connect", "read", "apply", "serve"}, image : Images \cup {{}},
     seen : SUBSET Versions, version : {None}]

Down == [pc |-> "down", image |-> {}, seen |-> {}, version |-> None]

Init ==
    /\ schema = << >>
    /\ rows = {}
    /\ lock = None
    /\ replica = [r \in Replicas |-> Down]

Start(r, image) ==
    /\ replica[r].pc = "down"
    /\ replica' = [replica EXCEPT ![r] = [Down EXCEPT !.pc = "connect", !.image = image]]
    /\ UNCHANGED <<schema, rows, lock>>

\* Mutant: no advisory lock.
MayLockAnyway == TRUE

\* pg_advisory_lock
MayLock == lock = None

Lock(r) ==
    /\ replica[r].pc = "connect"
    /\ MayLock
    /\ lock' = r
    /\ replica' = [replica EXCEPT ![r].pc = "read"]
    /\ UNCHANGED <<schema, rows>>

\* SELECT version FROM schema_migrations
Read(r) ==
    /\ replica[r].pc = "read"
    /\ replica' = [replica EXCEPT ![r].pc = "apply", ![r].seen = rows]
    /\ UNCHANGED <<schema, rows, lock>>

\* Mutant: a schema has a current version, and what is below it is done.
AboveCurrent(me) == {v \in me.image : \A w \in me.seen : w < v}

Todo(me) == me.image \ me.seen

\* Mutant: in the order glob returns the files.
InAnyOrder(s) == s

\* sorted(..., key=migration_sort_key)
Lowest(s) == {v \in s : \A w \in s : v <= w}

\* Mutant: no transaction around the two statements.
CommittedByExecute(v) == Append(schema, v)

\* Inside connection.transaction() the first statement commits nothing.
SchemaAfterExecute(v) == schema

Execute(r) ==
    /\ replica[r].pc = "apply"
    /\ \E v \in Lowest(Todo(replica[r])) :
          /\ replica' = [replica EXCEPT ![r].pc = "record", ![r].version = v]
          /\ schema' = SchemaAfterExecute(v)
    /\ UNCHANGED <<rows, lock>>

\* Mutant: the transaction is left open.
RecordedOpen(me) == [me EXCEPT !.pc = "apply", !.seen = @ \cup {me.version}]

Recorded(me) == [me EXCEPT !.pc = "apply", !.seen = @ \cup {me.version}, !.version = None]

\* The version is inserted and the transaction commits.
Record(r) ==
    LET v == replica[r].version IN
    /\ replica[r].pc = "record"
    /\ v \notin rows
    /\ schema' = Append(schema, v)
    /\ rows' = rows \cup {v}
    /\ replica' = [replica EXCEPT ![r] = Recorded(replica[r])]
    /\ UNCHANGED lock

\* Mutant: a lock that only pg_advisory_unlock would release.
LockKept(r) == lock

\* The lock goes with the connection.
LockAfterClose(r) == IF lock = r THEN None ELSE lock

\* Every migration of the image is there: uvicorn starts.
Serve(r) ==
    /\ replica[r].pc = "apply"
    /\ Todo(replica[r]) = {}
    /\ lock' = LockAfterClose(r)
    /\ replica' = [replica EXCEPT ![r].pc = "serve"]
    /\ UNCHANGED <<schema, rows>>

\* A statement fails, a version was inserted already, or the process dies.
Fail(r) ==
    /\ replica[r].pc # "down"
    /\ lock' = LockAfterClose(r)
    /\ replica' = [replica EXCEPT ![r] = Down]
    /\ UNCHANGED <<schema, rows>>

Migrate(r) == Lock(r) \/ Read(r) \/ Execute(r) \/ Record(r) \/ Serve(r)

Next ==
    \E r \in Replicas :
        \/ \E image \in Images : Start(r, image)
        \/ Migrate(r)
        \/ Fail(r)

Spec == Init /\ [][Next]_vars

\* PostgreSQL grants the lock in the order of the requests, and the script
\* goes on once it has it.
Fairness ==
    \A r \in Replicas : SF_vars(Lock(r)) /\ WF_vars(Read(r) \/ Execute(r) \/ Record(r) \/ Serve(r))

FairSpec == Spec /\ Fairness

-----------------------------------------------------------------------------
\* Every variable stays in its domain: a version is open only in a transaction.
TypeOK ==
    /\ schema \in Seq(Versions)
    /\ rows \in SUBSET Versions
    /\ lock \in Replicas \cup {None}
    /\ replica \in [Replicas -> ReplicaState]

\* schema_migrations says what the schema is, wherever a replica died, and no
\* migration was ever applied twice.
RecordedOnce ==
    /\ rows = Range(schema)
    /\ \A i, j \in DOMAIN schema : schema[i] = schema[j] => i = j

\* "Prevent two application replicas from applying the same migration
\* concurrently": an INSERT never finds its version in the table.
NeverCollides == \A r \in Replicas : replica[r].pc = "record" => replica[r].version \notin rows

\* A replica serves on a schema with every migration of its image, also one
\* that is older or newer than the image that migrated last.
ServesMigrated == \A r \in Replicas : replica[r].pc = "serve" => replica[r].image \subseteq rows

\* A migration is committed after all that come before it in its image.
InOrder ==
    [][\A r \in Replicas, v \in Versions :
          v \in rows' \ rows /\ replica[r].version = v =>
              \A w \in replica[r].image : w < v => w \in rows]_vars

\* A replica that has started serves or goes down, however often others fail
\* while they hold the lock.
NobodyWaitsForever ==
    \A r \in Replicas : replica[r].pc = "connect" ~> replica[r].pc \in {"serve", "down"}
=============================================================================
