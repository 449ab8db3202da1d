-------------------------- MODULE MigrationsProofs --------------------------
(* The safety properties of Migrations, for any number of replicas, any      *)
(* migrations and any images.                                                *)
EXTENDS Migrations, TLAPS

\* The lock is held exactly by the replica that is between connecting and serving.
LockInv ==
    \A r \in Replicas : replica[r].pc \in {"read", "apply", "record"} <=> lock = r

\* Under the lock, what a replica has seen is what the table holds.
SeenInv ==
    \A r \in Replicas : replica[r].pc \in {"apply", "record"} => replica[r].seen = rows

\* The migration in an open transaction is the next one of the image.
NextInv ==
    \A r \in Replicas : replica[r].pc = "record" =>
        /\ replica[r].version \in replica[r].image \ replica[r].seen
        /\ \A w \in replica[r].image : w < replica[r].version => w \in replica[r].seen

MigrationInv == TypeOK /\ LockInv /\ SeenInv /\ NextInv /\ RecordedOnce /\ ServesMigrated

-----------------------------------------------------------------------------
\* No value of a pc or of a version is taken for another.
LEMMA RecordingType ==
    ASSUME NEW s \in ReplicaState
    PROVE  /\ s.pc = "record" <=> s.version # None
           /\ s.version # None => s.version \in Versions
  BY NoneAssumption DEF ReplicaState

LEMMA MigrationInit == Init => MigrationInv
  <1> SUFFICES ASSUME Init PROVE MigrationInv
    OBVIOUS
  <1>1. TypeOK
    BY DEF Init, TypeOK, Down, ReplicaState
  <1>2. LockInv
    BY NoneAssumption DEF Init, LockInv, Down
  <1>3. SeenInv /\ NextInv /\ ServesMigrated
    BY DEF Init, SeenInv, NextInv, ServesMigrated, Down
  <1>4. RecordedOnce
    BY DEF Init, RecordedOnce, Range
  <1> QED
    BY <1>1, <1>2, <1>3, <1>4 DEF MigrationInv

\* A step of a replica keeps the types.
LEMMA StepType ==
    ASSUME TypeOK, NEW r \in Replicas,
           (\E image \in Images : Start(r, image)) \/ Migrate(r) \/ Fail(r)
    PROVE  TypeOK'
  <1>t. /\ schema \in Seq(Versions) /\ rows \in SUBSET Versions
        /\ lock \in Replicas \cup {None}
        /\ replica \in [Replicas -> ReplicaState] /\ replica[r] \in ReplicaState
    BY DEF TypeOK
  <1>1. ASSUME NEW image \in Images, Start(r, image) PROVE TypeOK'
    BY <1>1, <1>t DEF Start, TypeOK, Down, ReplicaState
  <1>2. CASE Lock(r)
    BY <1>2, <1>t DEF Lock, TypeOK, ReplicaState
  <1>3. CASE Read(r)
    BY <1>3, <1>t DEF Read, TypeOK, ReplicaState
  <1>4. CASE Execute(r)
    <2>1. PICK v \in Lowest(Todo(replica[r])) :
             replica' = [replica EXCEPT ![r].pc = "record", ![r].version = v]
      BY <1>4 DEF Execute
    <2>2. v \in Versions /\ replica[r].image \in Images
      BY <2>1, <1>t, ImagesAssumption DEF Lowest, Todo, ReplicaState
    <2>3. [replica[r] EXCEPT !.pc = "record", !.version = v] \in ReplicaState
      BY <2>2, <1>t DEF ReplicaState
    <2> QED
      BY <1>4, <2>1, <2>3, <1>t DEF Execute, SchemaAfterExecute, TypeOK
  <1>5. CASE Record(r)
    <2>1. replica[r].version \in Versions
      BY <1>5, <1>t, RecordingType DEF Record
    <2>2. Recorded(replica[r]) \in ReplicaState
      BY <2>1, <1>t DEF Recorded, ReplicaState
    <2> QED
      BY <1>5, <2>1, <2>2, <1>t DEF Record, TypeOK
  <1>6. CASE Serve(r)
    BY <1>6, <1>t DEF Serve, LockAfterClose, TypeOK, ReplicaState
  <1>7. CASE Fail(r)
    BY <1>7, <1>t DEF Fail, LockAfterClose, TypeOK, Down, ReplicaState
  <1> QED
    BY <1>1, <1>2, <1>3, <1>4, <1>5, <1>6, <1>7 DEF Migrate

\* What was committed is recorded, once.
LEMMA RecordKeepsHistory ==
    ASSUME TypeOK, RecordedOnce, NEW v \in Versions, v \notin rows,
           schema' = Append(schema, v), rows' = rows \cup {v}
    PROVE  RecordedOnce'
  <1>1. schema \in Seq(Versions)
    BY DEF TypeOK
  <1>2. /\ DOMAIN schema' = DOMAIN schema \cup {Len(schema) + 1}
        /\ schema'[Len(schema) + 1] = v
        /\ \A i \in DOMAIN schema : schema'[i] = schema[i] /\ i # Len(schema) + 1
    BY <1>1
  <1>3. \A i \in DOMAIN schema : schema[i] \in rows
    BY DEF RecordedOnce, Range
  <1>4. rows' = Range(schema')
    <2>1. Range(schema') = Range(schema) \cup {v}
      BY <1>2 DEF Range
    <2> QED
      BY <2>1 DEF RecordedOnce
  <1>5. \A i, j \in DOMAIN schema' : schema'[i] = schema'[j] => i = j
    BY <1>2, <1>3 DEF RecordedOnce
  <1> QED
    BY <1>4, <1>5 DEF RecordedOnce

\* A step of a replica keeps the invariant.
LEMMA StepKeeps ==
    ASSUME MigrationInv, NEW r \in Replicas,
           (\E image \in Images : Start(r, image)) \/ Migrate(r) \/ Fail(r)
    PROVE  MigrationInv'
  <1>t. TypeOK'
    BY StepType DEF MigrationInv
  <1>a. /\ replica \in [Replicas -> ReplicaState] /\ r # None /\ replica[r] \in ReplicaState
        /\ LockInv /\ SeenInv /\ NextInv /\ RecordedOnce /\ ServesMigrated
    BY NoneAssumption DEF MigrationInv, TypeOK
  <1>b. \A q \in Replicas : q # r /\ replica[r].pc \in {"read", "apply", "record"} =>
           replica[q].pc \notin {"read", "apply", "record"}
    BY <1>a DEF LockInv
  <1>1. ASSUME NEW image \in Images, Start(r, image) PROVE MigrationInv'
    <2>1. LockInv'
      BY <1>1, <1>a DEF Start, Down, LockInv
    <2>2. SeenInv' /\ NextInv' /\ ServesMigrated'
      BY <1>1, <1>a DEF Start, Down, SeenInv, NextInv, ServesMigrated
    <2>3. RecordedOnce'
      BY <1>1, <1>a DEF Start, RecordedOnce
    <2> QED
      BY <1>t, <2>1, <2>2, <2>3 DEF MigrationInv
  <1>2. CASE Lock(r)
    <2>1. LockInv'
      BY <1>2, <1>a, NoneAssumption DEF Lock, MayLock, LockInv
    <2>2. SeenInv' /\ NextInv' /\ ServesMigrated'
      BY <1>2, <1>a DEF Lock, SeenInv, NextInv, ServesMigrated
    <2>3. RecordedOnce'
      BY <1>2, <1>a DEF Lock, RecordedOnce
    <2> QED
      BY <1>t, <2>1, <2>2, <2>3 DEF MigrationInv
  <1>3. CASE Read(r)
    <2>1. LockInv'
      BY <1>3, <1>a DEF Read, LockInv
    <2>2. SeenInv' /\ NextInv' /\ ServesMigrated'
      BY <1>3, <1>a DEF Read, SeenInv, NextInv, ServesMigrated
    <2>3. RecordedOnce'
      BY <1>3, <1>a DEF Read, RecordedOnce
    <2> QED
      BY <1>t, <2>1, <2>2, <2>3 DEF MigrationInv
  <1>4. CASE Execute(r)
    <2>1. PICK v \in Lowest(Todo(replica[r])) :
             replica' = [replica EXCEPT ![r].pc = "record", ![r].version = v]
      BY <1>4 DEF Execute
    <2>2. /\ v \in replica[r].image \ replica[r].seen
          /\ \A w \in replica[r].image : w < v => w \in replica[r].seen
      <3>1. replica[r].image \subseteq Nat
        BY <1>a, ImagesAssumption, VersionsAssumption DEF ReplicaState
      <3> QED
        BY <2>1, <3>1 DEF Lowest, Todo
    <2>3. LockInv'
      BY <1>4, <2>1, <1>a DEF Execute, LockInv
    <2>4. SeenInv' /\ ServesMigrated'
      BY <1>4, <2>1, <1>a DEF Execute, SeenInv, ServesMigrated
    <2>5. NextInv'
      BY <2>1, <2>2, <1>a DEF NextInv
    <2>6. RecordedOnce'
      BY <1>4, <1>a DEF Execute, SchemaAfterExecute, RecordedOnce
    <2> QED
      BY <1>t, <2>3, <2>4, <2>5, <2>6 DEF MigrationInv
  <1>5. CASE Record(r)
    <2>1. LockInv'
      BY <1>5, <1>a DEF Record, Recorded, LockInv
    <2>2. SeenInv'
      BY <1>5, <1>a, <1>b DEF Record, Recorded, SeenInv
    <2>3. NextInv'
      BY <1>5, <1>a, <1>b DEF Record, Recorded, NextInv
    <2>4. ServesMigrated'
      BY <1>5, <1>a DEF Record, Recorded, ServesMigrated
    <2>5. RecordedOnce'
      BY <1>5, <1>a, RecordingType, RecordKeepsHistory DEF Record, MigrationInv
    <2> QED
      BY <1>t, <2>1, <2>2, <2>3, <2>4, <2>5 DEF MigrationInv
  <1>6. CASE Serve(r)
    <2>1. LockInv'
      BY <1>6, <1>a, <1>b, NoneAssumption DEF Serve, LockAfterClose, LockInv
    <2>2. SeenInv' /\ NextInv'
      BY <1>6, <1>a DEF Serve, SeenInv, NextInv
    <2>3. ServesMigrated'
      BY <1>6, <1>a DEF Serve, Todo, SeenInv, ServesMigrated
    <2>4. RecordedOnce'
      BY <1>6, <1>a DEF Serve, RecordedOnce
    <2> QED
      BY <1>t, <2>1, <2>2, <2>3, <2>4 DEF MigrationInv
  <1>7. CASE Fail(r)
    <2>1. LockInv'
      BY <1>7, <1>a, NoneAssumption DEF Fail, LockAfterClose, Down, LockInv
    <2>2. SeenInv' /\ NextInv' /\ ServesMigrated'
      BY <1>7, <1>a DEF Fail, Down, SeenInv, NextInv, ServesMigrated
    <2>3. RecordedOnce'
      BY <1>7, <1>a DEF Fail, RecordedOnce
    <2> QED
      BY <1>t, <2>1, <2>2, <2>3 DEF MigrationInv
  <1> QED
    BY <1>1, <1>2, <1>3, <1>4, <1>5, <1>6, <1>7 DEF Migrate

LEMMA MigrationNext == MigrationInv /\ [Next]_vars => MigrationInv'
  <1> SUFFICES ASSUME MigrationInv, [Next]_vars PROVE MigrationInv'
    OBVIOUS
  <1>1. CASE Next
    BY <1>1, StepKeeps DEF Next
  <1>2. CASE UNCHANGED vars
    BY <1>2 DEF vars, MigrationInv, TypeOK, LockInv, SeenInv, NextInv, RecordedOnce,
                ServesMigrated
  <1> QED
    BY <1>1, <1>2

-----------------------------------------------------------------------------
\* The invariant holds in every state.
LEMMA MigrationInvariant == Spec => []MigrationInv
  BY MigrationInit, MigrationNext, PTL DEF Spec

\* Every variable stays in its domain.
THEOREM TypeCorrect == Spec => []TypeOK
  <1>1. MigrationInv => TypeOK
    BY DEF MigrationInv
  <1> QED
    BY <1>1, MigrationInvariant, PTL

\* The table says what the schema is, and nothing was applied twice.
THEOREM HistoryRecorded == Spec => []RecordedOnce
  <1>1. MigrationInv => RecordedOnce
    BY DEF MigrationInv
  <1> QED
    BY <1>1, MigrationInvariant, PTL

\* An INSERT of a version never meets one of another replica.
THEOREM NoCollision == Spec => []NeverCollides
  <1>1. MigrationInv => NeverCollides
    BY DEF MigrationInv, SeenInv, NextInv, NeverCollides
  <1> QED
    BY <1>1, MigrationInvariant, PTL

\* Whoever serves finds its whole image applied.
THEOREM ServingMigrated == Spec => []ServesMigrated
  <1>1. MigrationInv => ServesMigrated
    BY DEF MigrationInv
  <1> QED
    BY <1>1, MigrationInvariant, PTL

\* Migrations of an image are committed in its order.
THEOREM AppliedInOrder == Spec => InOrder
  <1>1. ASSUME MigrationInv
        PROVE  \A r \in Replicas, v \in Versions :
                  v \in rows' \ rows /\ replica[r].version = v =>
                      \A w \in replica[r].image : w < v => w \in rows
    <2> SUFFICES ASSUME NEW r \in Replicas, NEW v \in Versions, replica[r].version = v,
                        NEW w \in replica[r].image, w < v
                 PROVE  w \in rows
      OBVIOUS
    <2>1. replica[r].pc = "record"
      BY RecordingType, NoneAssumption, <1>1 DEF MigrationInv, TypeOK
    <2> QED
      BY <2>1, <1>1 DEF MigrationInv, SeenInv, NextInv
  <1>2. MigrationInv => [\A r \in Replicas, v \in Versions :
                            v \in rows' \ rows /\ replica[r].version = v =>
                                \A w \in replica[r].image : w < v => w \in rows]_vars
    BY <1>1
  <1> QED
    BY <1>2, MigrationInvariant, PTL DEF InOrder
=============================================================================
