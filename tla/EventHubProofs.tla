--------------------------- MODULE EventHubProofs ---------------------------
(* Proofs about EventHub, for any number of jobs, browsers and callbacks and  *)
(* any backlog size.                                                          *)
EXTENDS EventHub, SequenceTheorems, TLAPS

\* A handler that is at work knows its job and its event.
ArgsOK ==
    /\ \A s \in Sockets : socket[s].pc # "new" => socket[s].job \in Jobs
    /\ \A p \in Publishers : callback[p].pc # "idle" =>
          callback[p].job \in Jobs /\ callback[p].event \in Event

TypeInv == TypeOK /\ ArgsOK

\* The lock is held exactly while a snapshot is being sent.
LockInv ==
    \A s \in Sockets : socket[s].pc = "snapshot" <=> holder = s

\* The connections of a job are those whose snapshot has gone out and that
\* nobody has removed; only a dead browser is removed.
ConnectedInv ==
    /\ \A j \in Jobs : \A s \in connections[j] :
          socket[s].pc \in {"streaming", "leaving"} /\ socket[s].job = j
    /\ \A s \in Sockets : Streaming(s) => s \in connections[socket[s].job]
    /\ \A s \in Sockets : socket[s].pc = "leaving" => ~socket[s].alive
    /\ \A p \in Publishers : \A s \in callback[p].stale : ~socket[s].alive

\* A browser has received something once it streams, and not before; a
\* publisher sends only to browsers that have.
ReceivedInv ==
    /\ \A s \in Sockets : socket[s].pc \in {"new", "loaded", "snapshot"} => inbox[s] = <<>>
    /\ \A s \in Sockets : socket[s].pc = "streaming" => inbox[s] # <<>>
    /\ \A p \in Publishers : \A s \in callback[p].todo :
          socket[s].alive => inbox[s] # <<>>

\* While a snapshot is being sent, an event that it lacks and that the backlog
\* still had is on its way: its publisher waits for the lock.
GapInv ==
    \A s \in Sockets : socket[s].pc = "snapshot" =>
        \A e \in published[socket[s].job] :
            \/ e \in socket[s].lines \cup excused[s]
            \/ \E p \in Publishers : /\ callback[p].pc = "copy"
                                     /\ callback[p].event = e
                                     /\ callback[p].job = socket[s].job

-----------------------------------------------------------------------------
\* A callback that has returned is in its domain.
LEMMA IdleType == Idle \in CallbackState
  BY DEF Idle, CallbackState, Kind

\* An empty backlog is one.
LEMMA EmptyType == <<>> \in Seq(Event) /\ Len(<<>>) <= Size
  <1>1. <<>> \in Seq(Event) /\ Len(<<>>) = 0
    BY EmptySeq
  <1> QED
    BY <1>1, SizeAssumption

\* What is left of the queue is a queue.
LEMMA AfterType ==
    ASSUME TypeInv, NEW p \in Procs
    PROVE  After(p) \in Seq(Procs)
  BY DEF After, Elements, TypeInv, TypeOK

\* Waiting for the lock changes only the queue.
LEMMA EnqueueType ==
    ASSUME TypeInv, NEW p \in Procs, Enqueue(p)
    PROVE  waiting' \in Seq(Procs) /\ holder' = holder
  BY DEF Enqueue, TypeInv, TypeOK

\* Remembering an event keeps the backlog within its size.
LEMMA RememberType ==
    ASSUME TypeInv, NEW p \in Publishers, callback[p].pc = "accepted", Remember(p)
    PROVE  /\ backlog' \in [Jobs -> Seq(Event)]
           /\ \A j \in Jobs : Len(backlog'[j]) <= Size
           /\ published' \in [Jobs -> SUBSET Event]
  <1> DEFINE j == callback[p].job
             e == callback[p].event
             kept == Keep(Append(backlog[j], e))
  <1>1. j \in Jobs /\ e \in Event /\ backlog[j] \in Seq(Event) /\ Len(backlog[j]) <= Size
    BY DEF TypeInv, TypeOK, ArgsOK
  <1>2. Append(backlog[j], e) \in Seq(Event) /\ Len(Append(backlog[j], e)) = Len(backlog[j]) + 1
    BY <1>1
  <1>3. kept \in Seq(Event) /\ Len(kept) <= Size
    <2>1. CASE Len(Append(backlog[j], e)) > Size
      <3>1. kept = Tail(Append(backlog[j], e))
        BY <2>1 DEF Keep
      <3>2. Len(backlog[j]) \in Nat /\ Size \in Nat \ {0}
        BY <1>1, SizeAssumption
      <3>3. Append(backlog[j], e) # <<>>
        BY <1>2, <3>2
      <3>4. Len(kept) = Len(Append(backlog[j], e)) - 1
        BY <1>2, <3>1, <3>3
      <3> QED
        BY <1>1, <1>2, <3>1, <3>2, <3>3, <3>4
    <2>2. CASE ~(Len(Append(backlog[j], e)) > Size)
      BY <1>1, <1>2, <2>2, SizeAssumption DEF Keep
    <2> QED
      BY <2>1, <2>2
  <1>4. CASE callback[p].kind = "log_batch"
    <2>1. /\ backlog' = [backlog EXCEPT ![j] = kept]
          /\ published' = [published EXCEPT ![j] = @ \cup {e}]
      BY <1>4 DEF Remember
    <2>2. backlog \in [Jobs -> Seq(Event)] /\ \A i \in Jobs : Len(backlog[i]) <= Size
      BY DEF TypeInv, TypeOK
    <2>3. \A i \in Jobs : backlog'[i] = IF i = j THEN kept ELSE backlog[i]
      BY <2>1, <2>2
    <2>4. published' \in [Jobs -> SUBSET Event]
      BY <1>1, <2>1 DEF TypeInv, TypeOK
    <2> HIDE DEF j, kept
    <2>5. backlog' \in [Jobs -> Seq(Event)]
      BY <1>1, <1>3, <2>1, <2>2
    <2>6. \A i \in Jobs : Len(backlog'[i]) <= Size
      BY <1>3, <2>2, <2>3
    <2> QED
      BY <2>4, <2>5, <2>6
  <1>5. CASE callback[p].kind # "log_batch"
    BY <1>5 DEF Remember, TypeInv, TypeOK
  <1> QED
    BY <1>4, <1>5

\* A message may be added to an inbox.
LEMMA InboxType ==
    ASSUME TypeInv, NEW s \in Sockets, NEW m \in Message,
           inbox' = [inbox EXCEPT ![s] = Append(@, m)]
    PROVE  inbox' \in [Sockets -> Seq(Message)]
  <1>1. inbox[s] \in Seq(Message)
    BY DEF TypeInv, TypeOK
  <1>2. Append(inbox[s], m) \in Seq(Message)
    BY <1>1
  <1> QED
    BY <1>2 DEF TypeInv, TypeOK

\* The initial states are well typed.
LEMMA TypeInvInit == Init => TypeInv
  <1> SUFFICES ASSUME Init PROVE TypeInv
    OBVIOUS
  <1>1. callback \in [Publishers -> CallbackState]
    BY IdleType DEF Init
  <1>2. socket \in [Sockets -> SocketState]
    BY DEF Init, SocketState
  <1>3. events \in 0 .. MaxEvents
    BY MaxEventsAssumption DEF Init
  <1>4. \A j \in Jobs : backlog[j] \in Seq(Event) /\ Len(backlog[j]) <= Size
    BY EmptyType DEF Init
  <1>5. ArgsOK
    BY DEF Init, ArgsOK, Idle
  <1>6. waiting \in Seq(Procs) /\ inbox \in [Sockets -> Seq(Message)]
    BY EmptySeq DEF Init
  <1>7. backlog \in [Jobs -> Seq(Event)]
    BY <1>4 DEF Init
  <1> QED
    BY <1>1, <1>2, <1>3, <1>4, <1>5, <1>6, <1>7 DEF Init, TypeInv, TypeOK

\* A publishing callback keeps the types.
LEMMA PublisherType ==
    ASSUME TypeInv, NEW p \in Publishers,
           \/ \E j \in Jobs, kind \in Kind : Accept(p, j, kind)
           \/ Publishing(p)
    PROVE  TypeInv'
  <1>p. p \in Procs
    BY DEF Procs
  <1> USE DEF lock
  <1>c. callback[p] \in CallbackState /\ callback \in [Publishers -> CallbackState]
    BY DEF TypeInv, TypeOK
  <1>1. ASSUME NEW j \in Jobs, NEW kind \in Kind, Accept(p, j, kind) PROVE TypeInv'
    <2>0. events \in 0 .. MaxEvents /\ events < MaxEvents /\ events' = events + 1
      BY <1>1 DEF Accept, TypeInv, TypeOK
    <2>1. events' \in Event /\ events' \in 0 .. MaxEvents
      BY <2>0, MaxEventsAssumption DEF Event
    <2>2. stored' \in [Jobs -> SUBSET Event]
      <3>1. stored \in [Jobs -> SUBSET Event]
        BY DEF TypeInv, TypeOK
      <3>2. stored' = stored \/ stored' = [stored EXCEPT ![j] = @ \cup {events'}]
        BY <1>1 DEF Accept
      <3> QED
        BY <2>1, <3>1, <3>2
    <2> DEFINE c == [Idle EXCEPT !.pc = "accepted", !.job = j, !.kind = kind, !.event = events']
    <2>3. c \in CallbackState /\ c.job = j /\ c.event = events'
      BY <2>1, IdleType DEF CallbackState, Idle
    <2>4. callback' = [callback EXCEPT ![p] = c]
      BY <1>1 DEF Accept
    <2>5. callback' \in [Publishers -> CallbackState] /\ ArgsOK'
      BY <1>1, <1>c, <2>1, <2>3, <2>4 DEF Accept, TypeInv, ArgsOK
    <2> QED
      BY <1>1, <2>1, <2>2, <2>5 DEF Accept, TypeInv, TypeOK
  <1>2. ASSUME CopyConnections(p), callback[p].pc # "idle", UNCHANGED socket
        PROVE  /\ callback' \in [Publishers -> CallbackState] /\ ArgsOK'
               /\ holder' \in Procs \cup {None} /\ waiting' \in Seq(Procs)
    <2>1. connections[callback[p].job] \in SUBSET Sockets
      BY <1>2 DEF TypeInv, TypeOK, ArgsOK
    <2>2. [callback[p] EXCEPT !.pc = "send", !.todo = connections[callback[p].job]] \in CallbackState
      BY <1>c, <2>1 DEF CallbackState
    <2>3. callback' \in [Publishers -> CallbackState]
      BY <1>2, <1>c, <2>2 DEF CopyConnections
    <2>4. ArgsOK'
      BY <1>2, <1>c DEF CopyConnections, TypeInv, ArgsOK, CallbackState
    <2> QED
      BY <1>2, <1>p, <2>3, <2>4, AfterType DEF CopyConnections, HolderAfterCopy
  <1>3. CASE Publish(p)
    <2>1. CASE CopyConnections(p)
      BY <1>2, <1>3, <2>1, RememberType DEF Publish, TypeInv, TypeOK
    <2>2. CASE Enqueue(p) /\ callback' = [callback EXCEPT ![p].pc = "copy"]
      <3>1. callback' \in [Publishers -> CallbackState]
        BY <1>c, <2>2 DEF CallbackState
      <3>2. ArgsOK'
        BY <1>c, <1>3, <2>2 DEF Publish, TypeInv, ArgsOK, CallbackState
      <3> QED
        BY <1>p, <1>3, <2>2, <3>1, <3>2, RememberType, EnqueueType DEF Publish, TypeInv, TypeOK
    <2> QED
      BY <1>3, <2>1, <2>2 DEF Publish
  <1>4. CASE Copy(p)
    BY <1>2, <1>4 DEF Copy, TypeInv, TypeOK
  <1>5. ASSUME NEW s \in Sockets, SendTo(p, s) PROVE TypeInv'
    <2>1. callback' \in [Publishers -> CallbackState]
      BY <1>c, <1>5 DEF SendTo, CallbackState
    <2>2. ArgsOK'
      BY <1>c, <1>5 DEF SendTo, TypeInv, ArgsOK, CallbackState
    <2>3. MessageOf(p) \in Message
      BY <1>c, <1>5 DEF MessageOf, Message, SendTo, TypeInv, ArgsOK, CallbackState
    <2>4. inbox' \in [Sockets -> Seq(Message)]
      <3>1. CASE socket[s].alive
        BY <1>5, <2>3, <3>1, InboxType DEF SendTo
      <3>2. CASE ~socket[s].alive
        BY <1>5, <3>2 DEF SendTo, TypeInv, TypeOK
      <3> QED
        BY <3>1, <3>2
    <2> QED
      BY <1>5, <2>1, <2>2, <2>4 DEF SendTo, TypeInv, TypeOK
  <1>6. ASSUME NEW s \in Sockets, Drop(p, s) PROVE TypeInv'
    <2>1. callback' \in [Publishers -> CallbackState]
      BY <1>c, <1>6 DEF Drop, CallbackState
    <2>2. ArgsOK'
      BY <1>c, <1>6 DEF Drop, TypeInv, ArgsOK, CallbackState
    <2>3. connections' \in [Jobs -> SUBSET Sockets]
      BY <1>6 DEF Drop, Without, TypeInv, TypeOK
    <2> QED
      BY <1>p, <1>6, <2>1, <2>2, <2>3, AfterType DEF Drop, TypeInv, TypeOK
  <1>7. CASE Return(p)
    <2>1. callback' \in [Publishers -> CallbackState] /\ ArgsOK'
      BY <1>c, <1>7, IdleType DEF Return, Idle, TypeInv, ArgsOK
    <2> QED
      BY <1>7, <2>1 DEF Return, TypeInv, TypeOK
  <1>8. CASE Clear(p)
    <2>1. callback' \in [Publishers -> CallbackState] /\ ArgsOK'
      BY <1>c, <1>8, IdleType DEF Clear, Idle, TypeInv, ArgsOK
    <2>2. backlog' \in [Jobs -> Seq(Event)] /\ \A j \in Jobs : Len(backlog'[j]) <= Size
      <3>1. backlog' = [backlog EXCEPT ![callback[p].job] = <<>>]
        BY <1>8 DEF Clear
      <3>2. backlog \in [Jobs -> Seq(Event)] /\ \A j \in Jobs : Len(backlog[j]) <= Size
        BY DEF TypeInv, TypeOK
      <3>3. \A j \in Jobs : backlog'[j] = IF j = callback[p].job THEN <<>> ELSE backlog[j]
        BY <3>1, <3>2
      <3> QED
        BY <3>1, <3>2, <3>3, EmptyType
    <2> QED
      BY <1>p, <1>8, <2>1, <2>2, AfterType DEF Clear, TypeInv, TypeOK
  <1>9. CASE Wait(p)
    BY <1>p, <1>9, EnqueueType DEF Wait, TypeInv, TypeOK, ArgsOK
  <1> QED
    BY <1>1, <1>3, <1>4, <1>5, <1>6, <1>7, <1>8, <1>9 DEF Publishing

\* A WebSocket handler keeps the types.
LEMMA SocketType ==
    ASSUME TypeInv, NEW s \in Sockets,
           (\E j \in Jobs : Load(s, j)) \/ Serving(s) \/ Disconnect(s)
    PROVE  TypeInv'
  <1>p. s \in Procs
    BY DEF Procs
  <1> USE DEF lock
  <1>c. socket[s] \in SocketState /\ socket \in [Sockets -> SocketState]
    BY DEF TypeInv, TypeOK
  <1>1. ASSUME NEW j \in Jobs, Load(s, j) PROVE TypeInv'
    <2>1. socket' \in [Sockets -> SocketState] /\ ArgsOK'
      BY <1>1, <1>c DEF Load, SocketState, TypeInv, TypeOK, ArgsOK
    <2> QED
      BY <1>1, <2>1 DEF Load, TypeInv, TypeOK
  <1>2. CASE Subscribe(s)
    <2> DEFINE j == socket[s].job
    <2>1. j \in Jobs
      BY <1>2 DEF Subscribe, TypeInv, ArgsOK
    <2>2. Elements(backlog[j]) \subseteq Event
      BY <2>1 DEF Elements, TypeInv, TypeOK
    <2>3. SnapshotOf(s) \in SUBSET Event
      BY <1>c, <2>2 DEF SnapshotOf, SocketState
    <2>4. socket' \in [Sockets -> SocketState] /\ ArgsOK'
      BY <1>2, <1>c, <2>3 DEF Subscribe, SocketState, TypeInv, ArgsOK
    <2>5. excused' \in [Sockets -> SUBSET Event]
      BY <1>2, <2>1 DEF Subscribe, TypeInv, TypeOK
    <2> QED
      BY <1>2, <1>p, <2>4, <2>5, AfterType DEF Subscribe, TypeInv, TypeOK
  <1>3. CASE SendSnapshot(s)
    <2>1. socket' \in [Sockets -> SocketState] /\ ArgsOK'
      BY <1>3, <1>c DEF SendSnapshot, SocketState, TypeInv, ArgsOK
    <2>2. [kind |-> "log_snapshot", events |-> socket[s].lines] \in Message
      BY <1>c DEF Message, SocketState
    <2>3. inbox' \in [Sockets -> Seq(Message)]
      <3>1. CASE socket[s].alive
        BY <1>3, <2>2, <3>1, InboxType DEF SendSnapshot
      <3>2. CASE ~socket[s].alive
        BY <1>3, <3>2 DEF SendSnapshot, TypeInv, TypeOK
      <3> QED
        BY <3>1, <3>2
    <2>4. connections' \in [Jobs -> SUBSET Sockets]
      <3>1. connections \in [Jobs -> SUBSET Sockets]
        BY DEF TypeInv, TypeOK
      <3>2. \/ connections' = connections
            \/ connections' = [connections EXCEPT ![socket[s].job] = @ \cup {s}]
        BY <1>3 DEF SendSnapshot
      <3> QED
        BY <3>1, <3>2
    <2> QED
      BY <1>3, <2>1, <2>3, <2>4 DEF SendSnapshot, TypeInv, TypeOK
  <1>4. CASE Notice(s)
    <2>1. socket' \in [Sockets -> SocketState] /\ ArgsOK'
      BY <1>4, <1>c DEF Notice, SocketState, TypeInv, ArgsOK
    <2> QED
      BY <1>4, <2>1 DEF Notice, TypeInv, TypeOK
  <1>5. CASE Unsubscribe(s)
    <2>1. socket' \in [Sockets -> SocketState] /\ ArgsOK'
      BY <1>5, <1>c DEF Unsubscribe, SocketState, TypeInv, ArgsOK
    <2>2. connections' \in [Jobs -> SUBSET Sockets]
      BY <1>5 DEF Unsubscribe, Without, TypeInv, TypeOK
    <2> QED
      BY <1>5, <1>p, <2>1, <2>2, AfterType DEF Unsubscribe, TypeInv, TypeOK
  <1>6. CASE Wait(s)
    BY <1>p, <1>6, EnqueueType DEF Wait, TypeInv, TypeOK, ArgsOK
  <1>7. CASE Disconnect(s)
    <2>1. socket' \in [Sockets -> SocketState] /\ ArgsOK'
      BY <1>7, <1>c DEF Disconnect, SocketState, TypeInv, ArgsOK
    <2> QED
      BY <1>7, <2>1 DEF Disconnect, TypeInv, TypeOK
  <1> QED
    BY <1>1, <1>2, <1>3, <1>4, <1>5, <1>6, <1>7 DEF Serving

\* So does a restart.
LEMMA RestartType ==
    ASSUME TypeInv, Restart
    PROVE  TypeInv'
  <1>1. socket' \in [Sockets -> SocketState]
    BY DEF Restart, SocketState, TypeInv, TypeOK
  <1>2. callback' \in [Publishers -> CallbackState]
    BY IdleType DEF Restart
  <1>3. ArgsOK'
    <2>1. \A s \in Sockets : socket'[s].pc # "new" => socket[s].pc # "new"
                                                  /\ socket'[s].job = socket[s].job
      BY DEF Restart, TypeInv, TypeOK, SocketState
    <2>2. \A p \in Publishers : callback'[p].pc = "idle"
      BY DEF Restart, Idle
    <2> QED
      BY <2>1, <2>2 DEF TypeInv, ArgsOK
  <1>4. \A j \in Jobs : backlog'[j] \in Seq(Event) /\ Len(backlog'[j]) <= Size
    BY EmptyType DEF Restart
  <1>5. waiting' \in Seq(Procs) /\ backlog' \in [Jobs -> Seq(Event)]
    BY <1>4, EmptySeq DEF Restart
  <1> QED
    BY <1>1, <1>2, <1>3, <1>4, <1>5 DEF Restart, TypeInv, TypeOK

\* The types are an invariant.
LEMMA TypeInvNext == TypeInv /\ [Next]_vars => TypeInv'
  <1> SUFFICES ASSUME TypeInv, [Next]_vars PROVE TypeInv'
    OBVIOUS
  <1>1. CASE UNCHANGED vars
    BY <1>1 DEF vars, TypeInv, TypeOK, ArgsOK
  <1>2. CASE Next
    BY <1>2, PublisherType, SocketType, RestartType DEF Next
  <1> QED
    BY <1>1, <1>2

\* Every variable stays in its domain, and no backlog grows beyond its size.
THEOREM TypeCorrect == Spec => []TypeOK
  <1>1. TypeInv => TypeOK
    BY DEF TypeInv
  <1> QED
    BY <1>1, TypeInvInit, TypeInvNext, PTL DEF Spec

-----------------------------------------------------------------------------
(* The lock.                                                                  *)

\* Nobody is served at first.
LEMMA LockInvInit == Init => LockInv
  BY NoneAssumption DEF Init, LockInv

\* Only a subscriber takes the lock over an await, and only a free one.
LEMMA LockInvNext == TypeInv /\ LockInv /\ [Next]_vars => LockInv'
  <1> SUFFICES ASSUME TypeInv, LockInv, [Next]_vars PROVE LockInv'
    OBVIOUS
  <1> USE DEF lock, LockInv
  <1>n. \A s \in Sockets : s # None
    BY NoneAssumption
  <1>t. socket \in [Sockets -> SocketState]
    BY DEF TypeInv, TypeOK
  <1>1. ASSUME NEW p \in Publishers,
               (\E j \in Jobs, kind \in Kind : Accept(p, j, kind)) \/ Publishing(p)
        PROVE  socket' = socket /\ holder' = holder
    <2>1. CASE \E j \in Jobs, kind \in Kind : Accept(p, j, kind)
      BY <2>1 DEF Accept
    <2>2. CASE Publish(p)
      BY <2>2 DEF Publish, CopyConnections, HolderAfterCopy, Enqueue, MayEnter
    <2>3. CASE Copy(p)
      BY <2>3 DEF Copy, CopyConnections, HolderAfterCopy, MayEnter
    <2>4. CASE Return(p) \/ Clear(p)
      BY <2>4 DEF Return, Clear
    <2>5. CASE Wait(p)
      BY <2>5 DEF Wait, Enqueue
    <2>6. CASE \E s \in Sockets : SendTo(p, s) \/ Drop(p, s)
      BY <2>6 DEF SendTo, Drop
    <2> QED
      BY <1>1, <2>1, <2>2, <2>3, <2>4, <2>5, <2>6 DEF Publishing
  <1>2. ASSUME NEW s \in Sockets, Subscribe(s) PROVE LockInv'
    BY <1>2, <1>n, <1>t DEF Subscribe, MayEnter
  <1>3. ASSUME NEW s \in Sockets, SendSnapshot(s) PROVE LockInv'
    <2>1. holder = s /\ holder' = None
      BY <1>3 DEF SendSnapshot
    <2>2. /\ socket'[s].pc # "snapshot"
          /\ \A q \in Sockets \ {s} : socket'[q] = socket[q]
      BY <1>3, <1>t DEF SendSnapshot, SocketState
    <2> QED
      BY <1>n, <2>1, <2>2
  <1>4. ASSUME NEW s \in Sockets,
               (\E j \in Jobs : Load(s, j)) \/ Notice(s) \/ Unsubscribe(s)
                 \/ Wait(s) \/ Disconnect(s)
        PROVE  LockInv'
    <2>1. holder' = holder
      BY <1>4 DEF Load, Notice, Unsubscribe, Wait, Enqueue, Disconnect
    <2>2. \A q \in Sockets : socket'[q].pc = "snapshot" <=> socket[q].pc = "snapshot"
      <3>1. CASE \E j \in Jobs : Load(s, j)
        BY <1>t, <3>1 DEF Load, SocketState
      <3>2. CASE Notice(s) \/ Unsubscribe(s)
        BY <1>t, <3>2 DEF Notice, Unsubscribe, SocketState
      <3>3. CASE Wait(s)
        BY <3>3 DEF Wait
      <3>4. CASE Disconnect(s)
        BY <1>t, <3>4 DEF Disconnect, SocketState
      <3> QED
        BY <1>4, <3>1, <3>2, <3>3, <3>4
    <2> QED
      BY <2>1, <2>2
  <1>5. CASE Restart
    BY <1>5, <1>n, <1>t DEF Restart, SocketState
  <1>6. CASE UNCHANGED vars
    BY <1>6 DEF vars
  <1> QED
    BY <1>1, <1>2, <1>3, <1>4, <1>5, <1>6 DEF Next, Serving

-----------------------------------------------------------------------------
(* The connections.                                                           *)

\* Nobody is connected at first.
LEMMA ConnectedInvInit == Init => ConnectedInv
  BY DEF Init, ConnectedInv, Streaming, Idle

\* A callback that publishes removes only connections that are dead.
LEMMA PublisherConnected ==
    ASSUME TypeInv, ConnectedInv, NEW p \in Publishers,
           (\E j \in Jobs, kind \in Kind : Accept(p, j, kind)) \/ Publishing(p)
    PROVE  ConnectedInv'
  <1> USE DEF ConnectedInv, Streaming
  <1>t. connections \in [Jobs -> SUBSET Sockets] /\ callback \in [Publishers -> CallbackState]
    BY DEF TypeInv, TypeOK
  <1>1. ASSUME NEW j \in Jobs, NEW kind \in Kind, Accept(p, j, kind) PROVE ConnectedInv'
    <2>1. callback'[p].stale = {} /\ \A q \in Publishers \ {p} : callback'[q] = callback[q]
      BY <1>t, <1>1 DEF Accept, Idle
    <2> QED
      BY <1>1, <2>1 DEF Accept
  <1>2. CASE Publish(p) \/ Copy(p)
    <2>1. \A q \in Publishers : callback'[q].stale = callback[q].stale
      BY <1>t, <1>2 DEF Publish, Copy, CopyConnections, CallbackState
    <2> QED
      BY <1>2, <2>1 DEF Publish, Copy
  <1>3. CASE Return(p)
    <2>1. callback'[p].stale = {} /\ \A q \in Publishers \ {p} : callback'[q] = callback[q]
      BY <1>t, <1>3 DEF Return, Idle
    <2> QED
      BY <1>3, <2>1 DEF Return
  <1>4. CASE Clear(p)
    <2>1. callback'[p].stale = {} /\ \A q \in Publishers \ {p} : callback'[q] = callback[q]
      BY <1>t, <1>4 DEF Clear, Idle
    <2> QED
      BY <1>4, <2>1 DEF Clear
  <1>5. CASE Wait(p)
    BY <1>5 DEF Wait
  <1>6. ASSUME NEW s \in Sockets, SendTo(p, s) PROVE ConnectedInv'
    <2>1. \A q \in Publishers : \A r \in callback'[q].stale :
              r \in callback[q].stale \/ ~socket[r].alive
      BY <1>t, <1>6 DEF SendTo, CallbackState
    <2> QED
      BY <1>6, <2>1 DEF SendTo
  <1>7. ASSUME NEW s \in Sockets, Drop(p, s) PROVE ConnectedInv'
    <2>1. ~socket[s].alive /\ socket' = socket
      BY <1>7 DEF Drop
    <2>2. \A j \in Jobs : /\ connections'[j] \subseteq connections[j]
                          /\ connections[j] \ {s} \subseteq connections'[j]
      BY <1>t, <1>7 DEF Drop, Without
    <2>3. \A q \in Publishers : callback'[q].stale \subseteq callback[q].stale
      BY <1>t, <1>7 DEF Drop, CallbackState
    <2>4. \A r \in Sockets : Streaming(r) => r \in connections'[socket[r].job]
      <3> SUFFICES ASSUME NEW r \in Sockets, Streaming(r)
                   PROVE  r \in connections'[socket[r].job]
        OBVIOUS
      <3>1. r # s /\ r \in connections[socket[r].job] /\ socket[r].job \in Jobs
        BY <2>1 DEF TypeInv, ArgsOK
      <3> QED
        BY <2>2, <3>1
    <2> QED
      BY <2>1, <2>2, <2>3, <2>4
  <1> QED
    BY <1>1, <1>2, <1>3, <1>4, <1>5, <1>6, <1>7 DEF Publishing
\* What a step of one WebSocket handler has to respect.
LEMMA ConnectedStep ==
    ASSUME TypeInv, ConnectedInv, NEW s \in Sockets,
           callback' = callback, connections' \in [Jobs -> SUBSET Sockets],
           \A r \in Sockets \ {s} : socket'[r] = socket[r],
           \A j \in Jobs : \A r \in Sockets \ {s} :
              r \in connections'[j] <=> r \in connections[j],
           \A j \in Jobs : s \in connections'[j] =>
              socket'[s].pc \in {"streaming", "leaving"} /\ socket'[s].job = j,
           Streaming(s)' => s \in connections'[socket'[s].job],
           socket'[s].pc = "leaving" => ~socket'[s].alive,
           ~socket[s].alive => ~socket'[s].alive
    PROVE  ConnectedInv'
  <1>1. \A j \in Jobs : \A r \in connections'[j] :
           socket'[r].pc \in {"streaming", "leaving"} /\ socket'[r].job = j
    <2> SUFFICES ASSUME NEW j \in Jobs, NEW r \in connections'[j]
                 PROVE  socket'[r].pc \in {"streaming", "leaving"} /\ socket'[r].job = j
      OBVIOUS
    <2>1. r \in Sockets
      OBVIOUS
    <2> QED
      BY <2>1 DEF ConnectedInv
  <1>2. \A r \in Sockets : Streaming(r)' => r \in connections'[socket'[r].job]
    <2> SUFFICES ASSUME NEW r \in Sockets \ {s}, Streaming(r)'
                 PROVE  r \in connections'[socket'[r].job]
      OBVIOUS
    <2>1. Streaming(r) /\ socket'[r] = socket[r]
      BY DEF Streaming
    <2>2. socket[r].job \in Jobs /\ r \in connections[socket[r].job]
      BY <2>1 DEF ConnectedInv, Streaming, TypeInv, ArgsOK
    <2> QED
      BY <2>1, <2>2
  <1>3. \A r \in Sockets : socket'[r].pc = "leaving" => ~socket'[r].alive
    BY DEF ConnectedInv
  <1>4. \A p \in Publishers : \A r \in callback'[p].stale : ~socket'[r].alive
    <2> SUFFICES ASSUME NEW p \in Publishers, NEW r \in callback[p].stale
                 PROVE  ~socket'[r].alive
      OBVIOUS
    <2>1. r \in Sockets /\ ~socket[r].alive
      BY DEF ConnectedInv, TypeInv, TypeOK, CallbackState
    <2> QED
      BY <2>1
  <1> QED
    BY <1>1, <1>2, <1>3, <1>4 DEF ConnectedInv

\* A WebSocket handler connects itself after its snapshot and removes itself
\* only when its browser is dead.
LEMMA SocketConnected ==
    ASSUME TypeInv, ConnectedInv, NEW s \in Sockets,
           (\E j \in Jobs : Load(s, j)) \/ Serving(s) \/ Disconnect(s)
    PROVE  ConnectedInv'
  <1>t. /\ connections \in [Jobs -> SUBSET Sockets] /\ socket \in [Sockets -> SocketState]
        /\ socket[s] \in SocketState
    BY DEF TypeInv, TypeOK
  <1>s. Streaming(s) => s \in connections[socket[s].job] /\ socket[s].job \in Jobs
    BY DEF ConnectedInv, Streaming, TypeInv, ArgsOK
  <1>f. \A j \in Jobs : s \in connections[j] =>
            socket[s].pc \in {"streaming", "leaving"} /\ socket[s].job = j
    BY DEF ConnectedInv
  <1>1. ASSUME NEW j \in Jobs, Load(s, j) PROVE ConnectedInv'
    <2>1. /\ socket[s].pc = "new" /\ connections' = connections /\ callback' = callback
          /\ socket' = [socket EXCEPT ![s] =
                [socket[s] EXCEPT !.pc = "loaded", !.job = j, !.lines = stored[j]]]
      BY <1>1 DEF Load
    <2>2. socket'[s].pc = "loaded" /\ socket'[s].alive = socket[s].alive
      BY <1>t, <2>1 DEF SocketState
    <2> QED
      BY <1>t, <1>f, <2>1, <2>2, ConnectedStep DEF Streaming
  <1>2. CASE Subscribe(s)
    <2>1. /\ socket[s].pc = "loaded" /\ connections' = connections /\ callback' = callback
          /\ socket' = [socket EXCEPT ![s] =
                [socket[s] EXCEPT !.pc = "snapshot", !.lines = SnapshotOf(s)]]
      BY <1>2 DEF Subscribe
    <2>2. socket'[s].pc = "snapshot" /\ socket'[s].alive = socket[s].alive
      BY <1>t, <2>1 DEF SocketState
    <2> QED
      BY <1>t, <1>f, <2>1, <2>2, ConnectedStep DEF Streaming
  <1>3. CASE SendSnapshot(s)
    <2>1. socket[s].pc = "snapshot" /\ socket[s].job \in Jobs /\ callback' = callback
      BY <1>3 DEF SendSnapshot, TypeInv, ArgsOK
    <2>2. CASE socket[s].alive
      <3>1. /\ socket' = [socket EXCEPT ![s].pc = "streaming"]
            /\ connections' = [connections EXCEPT ![socket[s].job] = @ \cup {s}]
        BY <1>3, <2>2 DEF SendSnapshot
      <3>2. /\ socket'[s].pc = "streaming" /\ socket'[s].alive = socket[s].alive
            /\ socket'[s].job = socket[s].job
        BY <1>t, <3>1 DEF SocketState
      <3> QED
        BY <1>t, <1>f, <2>1, <2>2, <3>1, <3>2, ConnectedStep DEF Streaming
    <2>3. CASE ~socket[s].alive
      <3>1. socket' = [socket EXCEPT ![s].pc = "leaving"] /\ connections' = connections
        BY <1>3, <2>3 DEF SendSnapshot
      <3>2. socket'[s].pc = "leaving" /\ socket'[s].alive = socket[s].alive
        BY <1>t, <3>1 DEF SocketState
      <3> QED
        BY <1>t, <1>f, <2>1, <2>3, <3>1, <3>2, ConnectedStep DEF Streaming
    <2> QED
      BY <2>2, <2>3
  <1>4. CASE Notice(s)
    <2>1. /\ socket[s].pc = "streaming" /\ ~socket[s].alive
          /\ socket' = [socket EXCEPT ![s].pc = "leaving"]
          /\ connections' = connections /\ callback' = callback
      BY <1>4 DEF Notice
    <2>2. /\ socket'[s].pc = "leaving" /\ socket'[s].alive = socket[s].alive
          /\ socket'[s].job = socket[s].job
      BY <1>t, <2>1 DEF SocketState
    <2> QED
      BY <1>t, <1>f, <2>1, <2>2, ConnectedStep DEF Streaming
  <1>5. CASE Unsubscribe(s)
    <2>1. /\ socket[s].pc = "leaving" /\ socket' = [socket EXCEPT ![s].pc = "gone"]
          /\ connections' = [connections EXCEPT ![socket[s].job] = @ \ {s}]
          /\ callback' = callback
      BY <1>5 DEF Unsubscribe, Without
    <2>2. socket'[s].pc = "gone" /\ socket'[s].alive = socket[s].alive
      BY <1>t, <2>1 DEF SocketState
    <2> QED
      BY <1>t, <1>f, <2>1, <2>2, ConnectedStep DEF Streaming
  <1>6. CASE Wait(s)
    <2>1. socket' = socket /\ connections' = connections /\ callback' = callback
      BY <1>6 DEF Wait
    <2> QED
      BY <1>t, <2>1 DEF ConnectedInv, Streaming
  <1>7. CASE Disconnect(s)
    <2>1. /\ socket' = [socket EXCEPT ![s].alive = FALSE]
          /\ connections' = connections /\ callback' = callback
      BY <1>7 DEF Disconnect
    <2>2. /\ ~socket'[s].alive /\ socket'[s].pc = socket[s].pc
          /\ socket'[s].job = socket[s].job
      BY <1>t, <2>1 DEF SocketState
    <2> QED
      BY <1>t, <1>f, <2>1, <2>2, ConnectedStep DEF Streaming
  <1> QED
    BY <1>1, <1>2, <1>3, <1>4, <1>5, <1>6, <1>7 DEF Serving

\* The connections are an invariant.
LEMMA ConnectedInvNext == TypeInv /\ ConnectedInv /\ [Next]_vars => ConnectedInv'
  <1> SUFFICES ASSUME TypeInv, ConnectedInv, [Next]_vars PROVE ConnectedInv'
    OBVIOUS
  <1>1. CASE UNCHANGED vars
    BY <1>1 DEF vars, ConnectedInv, Streaming
  <1>2. CASE Restart
    <2>1. socket \in [Sockets -> SocketState]
      BY DEF TypeInv, TypeOK
    <2>2. \A s \in Sockets : socket'[s].pc \in {"new", "gone"}
      BY <1>2, <2>1 DEF Restart, SocketState
    <2>3. \A j \in Jobs : connections'[j] = {}
      BY <1>2 DEF Restart
    <2>4. \A p \in Publishers : callback'[p].stale = {}
      BY <1>2 DEF Restart, Idle
    <2> QED
      BY <2>2, <2>3, <2>4 DEF ConnectedInv, Streaming
  <1> QED
    BY <1>1, <1>2, PublisherConnected, SocketConnected DEF Next

-----------------------------------------------------------------------------
(* What a browser has received.                                               *)

\* Nothing at first.
LEMMA ReceivedInit == Init => ReceivedInv /\ SnapshotFirst
  BY DEF Init, ReceivedInv, SnapshotFirst, Idle

\* A callback sends only to browsers that have their snapshot.
LEMMA PublisherReceived ==
    ASSUME TypeInv, ConnectedInv, ReceivedInv, SnapshotFirst, NEW p \in Publishers,
           (\E j \in Jobs, kind \in Kind : Accept(p, j, kind)) \/ Publishing(p)
    PROVE  ReceivedInv' /\ SnapshotFirst'
  <1>t. /\ callback \in [Publishers -> CallbackState] /\ callback[p] \in CallbackState
        /\ inbox \in [Sockets -> Seq(Message)]
    BY DEF TypeInv, TypeOK
  <1>0. ASSUME socket' = socket, inbox' = inbox,
               \A q \in Publishers \ {p} : callback'[q] = callback[q],
               \A s \in callback'[p].todo :
                  s \in callback[p].todo \/ (socket[s].alive => inbox[s] # <<>>)
        PROVE  ReceivedInv' /\ SnapshotFirst'
    <2>1. SnapshotFirst'
      BY <1>0 DEF SnapshotFirst
    <2>2. \A q \in Publishers : \A s \in callback'[q].todo : socket[s].alive => inbox[s] # <<>>
      BY <1>0 DEF ReceivedInv
    <2> QED
      BY <1>0, <2>1, <2>2 DEF ReceivedInv
  <1>1. ASSUME NEW j \in Jobs, NEW kind \in Kind, Accept(p, j, kind)
        PROVE  ReceivedInv' /\ SnapshotFirst'
    <2>1. callback'[p].todo = {} /\ \A q \in Publishers \ {p} : callback'[q] = callback[q]
      BY <1>t, <1>1 DEF Accept, Idle
    <2> QED
      BY <1>0, <1>1, <2>1 DEF Accept
  <1>2. ASSUME CopyConnections(p), callback[p].pc # "idle", socket' = socket, inbox' = inbox
        PROVE  ReceivedInv' /\ SnapshotFirst'
    <2>1. /\ callback'[p].todo = connections[callback[p].job]
          /\ \A q \in Publishers \ {p} : callback'[q] = callback[q]
      BY <1>t, <1>2 DEF CopyConnections, CallbackState
    <2>2. callback[p].job \in Jobs
      BY <1>2 DEF TypeInv, ArgsOK
    <2>3. \A s \in connections[callback[p].job] : socket[s].alive => inbox[s] # <<>>
      <3> SUFFICES ASSUME NEW s \in connections[callback[p].job], socket[s].alive
                   PROVE  inbox[s] # <<>>
        OBVIOUS
      <3>1. s \in Sockets
        BY <2>2 DEF TypeInv, TypeOK
      <3>2. socket[s].pc = "streaming"
        BY <2>2, <3>1 DEF ConnectedInv
      <3> QED
        BY <3>1, <3>2 DEF ReceivedInv
    <2> QED
      BY <1>0, <1>2, <2>1, <2>3
  <1>3. CASE Publish(p)
    <2>1. CASE CopyConnections(p)
      BY <1>2, <1>3, <2>1 DEF Publish
    <2>2. CASE callback' = [callback EXCEPT ![p].pc = "copy"]
      <3>1. callback'[p].todo = callback[p].todo /\ \A q \in Publishers \ {p} : callback'[q] = callback[q]
        BY <1>t, <2>2 DEF CallbackState
      <3> QED
        BY <1>0, <1>3, <3>1 DEF Publish
    <2> QED
      BY <1>3, <2>1, <2>2 DEF Publish
  <1>4. CASE Copy(p)
    BY <1>2, <1>4 DEF Copy
  <1>5. CASE Return(p) \/ Clear(p)
    <2>1. callback' = [callback EXCEPT ![p] = Idle] /\ socket' = socket /\ inbox' = inbox
      BY <1>5 DEF Return, Clear
    <2>2. callback'[p].todo = {} /\ \A q \in Publishers \ {p} : callback'[q] = callback[q]
      BY <1>t, <2>1 DEF Idle
    <2> QED
      BY <1>0, <2>1, <2>2
  <1>6. CASE Wait(p)
    BY <1>0, <1>6 DEF Wait
  <1>7. ASSUME NEW s \in Sockets, SendTo(p, s) PROVE ReceivedInv' /\ SnapshotFirst'
    <2>1. /\ socket' = socket /\ callback'[p].todo \subseteq callback[p].todo
          /\ \A q \in Publishers \ {p} : callback'[q] = callback[q]
      BY <1>t, <1>7 DEF SendTo, CallbackState
    <2>2. CASE ~socket[s].alive
      BY <1>0, <1>7, <2>1, <2>2 DEF SendTo
    <2>3. CASE socket[s].alive
      <3>1. inbox' = [inbox EXCEPT ![s] = Append(@, MessageOf(p))] /\ inbox[s] # <<>>
        BY <1>7, <2>3 DEF SendTo, ReceivedInv
      <3>2. MessageOf(p).kind # "log_snapshot"
        BY <1>t DEF MessageOf, CallbackState, Kind
      <3>3. inbox[s] \in Seq(Message) /\ Len(inbox[s]) > 0
        BY <1>t, <3>1
      <3> DEFINE n == Len(inbox[s])
      <3>4. /\ inbox'[s] # <<>> /\ inbox'[s][n + 1] = MessageOf(p) /\ n \in Nat
            /\ DOMAIN inbox'[s] = 1 .. n + 1 /\ DOMAIN inbox[s] = 1 .. n
            /\ \A i \in 1 .. n : inbox'[s][i] = inbox[s][i]
        BY <1>t, <3>1, <3>3
      <3>5. \A i \in DOMAIN inbox'[s] : inbox'[s][i].kind = "log_snapshot" <=> i = 1
        BY <3>2, <3>3, <3>4 DEF SnapshotFirst
      <3>6. \A r \in Sockets \ {s} : inbox'[r] = inbox[r]
        BY <1>t, <3>1
      <3>7. SnapshotFirst'
        BY <3>5, <3>6 DEF SnapshotFirst
      <3>8. \A r \in Sockets : inbox'[r] = <<>> <=> inbox[r] = <<>>
        BY <3>1, <3>4, <3>6
      <3>9. \A q \in Publishers : \A r \in callback'[q].todo : socket[r].alive => inbox'[r] # <<>>
        <4> SUFFICES ASSUME NEW q \in Publishers, NEW r \in callback'[q].todo, socket[r].alive
                     PROVE  inbox'[r] # <<>>
          OBVIOUS
        <4>1. r \in callback[q].todo
          BY <2>1
        <4>2. r \in Sockets /\ inbox[r] # <<>>
          BY <4>1 DEF ReceivedInv, TypeInv, TypeOK, CallbackState
        <4> QED
          BY <3>8, <4>2
      <3> QED
        BY <2>1, <3>7, <3>8, <3>9 DEF ReceivedInv
    <2> QED
      BY <2>2, <2>3
  <1>8. ASSUME NEW s \in Sockets, Drop(p, s) PROVE ReceivedInv' /\ SnapshotFirst'
    <2>1. callback'[p].todo = callback[p].todo /\ \A q \in Publishers \ {p} : callback'[q] = callback[q]
      BY <1>t, <1>8 DEF Drop, CallbackState
    <2> QED
      BY <1>0, <1>8, <2>1 DEF Drop
  <1> QED
    BY <1>1, <1>3, <1>4, <1>5, <1>6, <1>7, <1>8 DEF Publishing

\* What a step of one WebSocket handler that delivers nothing has to respect.
LEMMA ReceivedStep ==
    ASSUME TypeInv, ReceivedInv, SnapshotFirst, NEW s \in Sockets,
           callback' = callback, inbox' = inbox,
           \A r \in Sockets \ {s} : socket'[r] = socket[r],
           socket'[s].pc \in {"new", "loaded", "snapshot"} =>
              socket[s].pc \in {"new", "loaded", "snapshot"},
           socket'[s].pc = "streaming" => socket[s].pc = "streaming",
           ~socket[s].alive => ~socket'[s].alive
    PROVE  ReceivedInv' /\ SnapshotFirst'
  <1>1. SnapshotFirst'
    BY DEF SnapshotFirst
  <1>2. \A p \in Publishers : \A r \in callback'[p].todo : socket'[r].alive => inbox'[r] # <<>>
    <2> SUFFICES ASSUME NEW p \in Publishers, NEW r \in callback[p].todo, socket'[r].alive
                 PROVE  inbox[r] # <<>>
      OBVIOUS
    <2>1. r \in Sockets
      BY DEF TypeInv, TypeOK, CallbackState
    <2>2. socket[r].alive
      BY <2>1
    <2> QED
      BY <2>2 DEF ReceivedInv
  <1>3. \A r \in Sockets :
           /\ socket'[r].pc \in {"new", "loaded", "snapshot"} => inbox'[r] = <<>>
           /\ socket'[r].pc = "streaming" => inbox'[r] # <<>>
    BY DEF ReceivedInv
  <1> QED
    BY <1>1, <1>2, <1>3 DEF ReceivedInv

\* A WebSocket handler delivers one snapshot, to a browser that has nothing.
LEMMA SocketReceived ==
    ASSUME TypeInv, ReceivedInv, SnapshotFirst, NEW s \in Sockets,
           (\E j \in Jobs : Load(s, j)) \/ Serving(s) \/ Disconnect(s)
    PROVE  ReceivedInv' /\ SnapshotFirst'
  <1>t. /\ socket \in [Sockets -> SocketState] /\ socket[s] \in SocketState
        /\ inbox \in [Sockets -> Seq(Message)]
    BY DEF TypeInv, TypeOK
  <1>1. ASSUME NEW j \in Jobs, Load(s, j) PROVE ReceivedInv' /\ SnapshotFirst'
    <2>1. /\ socket[s].pc = "new" /\ inbox' = inbox /\ callback' = callback
          /\ socket' = [socket EXCEPT ![s] =
                [socket[s] EXCEPT !.pc = "loaded", !.job = j, !.lines = stored[j]]]
      BY <1>1 DEF Load
    <2>2. socket'[s].pc = "loaded" /\ socket'[s].alive = socket[s].alive
      BY <1>t, <2>1 DEF SocketState
    <2> QED
      BY <1>t, <2>1, <2>2, ReceivedStep
  <1>2. CASE Subscribe(s)
    <2>1. /\ socket[s].pc = "loaded" /\ inbox' = inbox /\ callback' = callback
          /\ socket' = [socket EXCEPT ![s] =
                [socket[s] EXCEPT !.pc = "snapshot", !.lines = SnapshotOf(s)]]
      BY <1>2 DEF Subscribe
    <2>2. socket'[s].pc = "snapshot" /\ socket'[s].alive = socket[s].alive
      BY <1>t, <2>1 DEF SocketState
    <2> QED
      BY <1>t, <2>1, <2>2, ReceivedStep
  <1>3. CASE SendSnapshot(s) /\ socket[s].alive
    <2> DEFINE m == [kind |-> "log_snapshot", events |-> socket[s].lines]
    <2>1. /\ socket' = [socket EXCEPT ![s].pc = "streaming"]
          /\ inbox' = [inbox EXCEPT ![s] = Append(@, m)]
          /\ inbox[s] = <<>> /\ callback' = callback
      BY <1>3 DEF SendSnapshot, ReceivedInv
    <2>2. socket'[s].pc = "streaming" /\ \A r \in Sockets \ {s} : socket'[r] = socket[r]
      BY <1>t, <2>1 DEF SocketState
    <2>3. socket'[s].alive = socket[s].alive
      BY <1>t, <2>1 DEF SocketState
    <2>4. m \in Message
      BY <1>t DEF Message, SocketState
    <2> HIDE DEF m
    <2>5. inbox'[s] = <<m>> /\ \A r \in Sockets \ {s} : inbox'[r] = inbox[r]
      BY <1>t, <2>1, <2>4
    <2>6. DOMAIN inbox'[s] = {1} /\ inbox'[s][1].kind = "log_snapshot" /\ inbox'[s] # <<>>
      BY <2>5 DEF m
    <2>7. SnapshotFirst'
      <3>1. \A i \in DOMAIN inbox'[s] : inbox'[s][i].kind = "log_snapshot" <=> i = 1
        BY <2>6
      <3>2. \A r \in Sockets \ {s} : \A i \in DOMAIN inbox'[r] :
               inbox'[r][i].kind = "log_snapshot" <=> i = 1
        BY <2>5 DEF SnapshotFirst
      <3> QED
        BY <3>1, <3>2 DEF SnapshotFirst
    <2>8. \A p \in Publishers : \A r \in callback'[p].todo : socket'[r].alive => inbox'[r] # <<>>
      <3> SUFFICES ASSUME NEW p \in Publishers, NEW r \in callback[p].todo, socket'[r].alive
                   PROVE  inbox'[r] # <<>>
        BY <2>1
      <3>1. r \in Sockets
        BY DEF TypeInv, TypeOK, CallbackState
      <3> QED
        BY <2>2, <2>5, <2>6, <3>1 DEF ReceivedInv
    <2>9. \A r \in Sockets :
             /\ socket'[r].pc \in {"new", "loaded", "snapshot"} => inbox'[r] = <<>>
             /\ socket'[r].pc = "streaming" => inbox'[r] # <<>>
      BY <2>2, <2>5, <2>6 DEF ReceivedInv
    <2> QED
      BY <2>7, <2>8, <2>9 DEF ReceivedInv
  <1>4. CASE SendSnapshot(s) /\ ~socket[s].alive
    <2>1. /\ socket' = [socket EXCEPT ![s].pc = "leaving"]
          /\ inbox' = inbox /\ callback' = callback
      BY <1>4 DEF SendSnapshot
    <2>2. socket'[s].pc = "leaving" /\ socket'[s].alive = socket[s].alive
      BY <1>t, <2>1 DEF SocketState
    <2> QED
      BY <1>t, <2>1, <2>2, ReceivedStep
  <1>5. CASE Notice(s) \/ Unsubscribe(s)
    <2>1. /\ inbox' = inbox /\ callback' = callback
          /\ \/ socket' = [socket EXCEPT ![s].pc = "leaving"]
             \/ socket' = [socket EXCEPT ![s].pc = "gone"]
      BY <1>5 DEF Notice, Unsubscribe
    <2>2. socket'[s].pc \in {"leaving", "gone"} /\ socket'[s].alive = socket[s].alive
      BY <1>t, <2>1 DEF SocketState
    <2> QED
      BY <1>t, <2>1, <2>2, ReceivedStep
  <1>6. CASE Wait(s)
    <2>1. socket' = socket /\ inbox' = inbox /\ callback' = callback
      BY <1>6 DEF Wait
    <2> QED
      BY <2>1, ReceivedStep
  <1>7. CASE Disconnect(s)
    <2>1. /\ socket' = [socket EXCEPT ![s].alive = FALSE]
          /\ inbox' = inbox /\ callback' = callback
      BY <1>7 DEF Disconnect
    <2>2. ~socket'[s].alive /\ socket'[s].pc = socket[s].pc
      BY <1>t, <2>1 DEF SocketState
    <2> QED
      BY <1>t, <2>1, <2>2, ReceivedStep
  <1> QED
    BY <1>1, <1>2, <1>3, <1>4, <1>5, <1>6, <1>7 DEF Serving

\* What the browsers have received is an invariant.
LEMMA ReceivedNext ==
    TypeInv /\ ConnectedInv /\ ReceivedInv /\ SnapshotFirst /\ [Next]_vars
      => ReceivedInv' /\ SnapshotFirst'
  <1> SUFFICES ASSUME TypeInv, ConnectedInv, ReceivedInv, SnapshotFirst, [Next]_vars
               PROVE  ReceivedInv' /\ SnapshotFirst'
    OBVIOUS
  <1>1. CASE UNCHANGED vars
    BY <1>1 DEF vars, ReceivedInv, SnapshotFirst
  <1>2. CASE Restart
    <2>1. socket \in [Sockets -> SocketState]
      BY DEF TypeInv, TypeOK
    <2>2. \A s \in Sockets : /\ socket'[s].pc \in {"new", "gone"}
                             /\ socket'[s].pc = "new" => socket[s].pc = "new"
      BY <1>2, <2>1 DEF Restart, SocketState
    <2>3. inbox' = inbox /\ \A p \in Publishers : callback'[p].todo = {}
      BY <1>2 DEF Restart, Idle
    <2> QED
      BY <2>2, <2>3 DEF ReceivedInv, SnapshotFirst
  <1> QED
    BY <1>1, <1>2, PublisherReceived, SocketReceived DEF Next

\* On every connection the snapshot comes first, and only once.
THEOREM SnapshotIsFirst == Spec => []SnapshotFirst
  <1> DEFINE Inv == TypeInv /\ ConnectedInv /\ ReceivedInv /\ SnapshotFirst
  <1>1. Init => Inv
    BY TypeInvInit, ConnectedInvInit, ReceivedInit
  <1>2. Inv /\ [Next]_vars => Inv'
    BY TypeInvNext, ConnectedInvNext, ReceivedNext
  <1>3. Inv => SnapshotFirst
    OBVIOUS
  <1> QED
    BY <1>1, <1>2, <1>3, PTL DEF Spec

-----------------------------------------------------------------------------
(* No gap between the snapshot and the stream.                                *)

\* Nothing has been published at first.
LEMMA GapInit == Init => GapInv /\ NothingMissed
  BY DEF Init, GapInv, NothingMissed, Streaming

\* A step of a callback that owes what it owed leaves no gap.
LEMMA QuietStep ==
    ASSUME GapInv, NothingMissed,
           socket' = socket, inbox' = inbox, published' = published, excused' = excused,
           \A q \in Publishers : callback[q].pc = "copy" => callback'[q] = callback[q],
           \A q \in Publishers : callback[q].pc = "send" /\ callback[q].todo # {} =>
              callback'[q] = callback[q]
    PROVE  GapInv' /\ NothingMissed'
  <1>1. GapInv'
    BY DEF GapInv
  <1>2. ASSUME NEW q \in Publishers, NEW s \in Sockets, NEW e, Owes(q, s, e)
        PROVE  Owes(q, s, e)'
    <2>1. callback'[q] = callback[q]
      BY <1>2 DEF Owes
    <2> QED
      BY <1>2, <2>1 DEF Owes
  <1>3. \A s \in Sockets : Streaming(s)' = Streaming(s) /\ Seen(s)' = Seen(s)
    BY DEF Streaming, Seen
  <1> QED
    BY <1>1, <1>2, <1>3 DEF NothingMissed

\* An event that is published while a snapshot is on its way waits for the lock.
LEMMA PublishGap ==
    ASSUME TypeInv, LockInv, ConnectedInv, GapInv, NothingMissed, NEW p \in Publishers, Publish(p)
    PROVE  GapInv' /\ NothingMissed'
  <1>t. callback \in [Publishers -> CallbackState] /\ published \in [Jobs -> SUBSET Event]
    BY DEF TypeInv, TypeOK
  <1> DEFINE j == callback[p].job
             e == callback[p].event
  <1>1. /\ callback[p].pc = "accepted" /\ j \in Jobs
        /\ socket' = socket /\ inbox' = inbox /\ excused' = excused
    BY DEF Publish, TypeInv, ArgsOK
  <1>2. /\ \A q \in Publishers \ {p} : callback'[q] = callback[q]
        /\ callback'[p].job = j /\ callback'[p].event = e
        /\ \/ callback'[p].pc = "send" /\ callback'[p].todo = connections[j] /\ holder = None
           \/ callback'[p].pc = "copy"
    BY <1>t DEF Publish, CopyConnections, MayEnter, CallbackState
  <1>3. \A i \in Jobs : published'[i] \subseteq IF i = j THEN published[i] \cup {e} ELSE published[i]
    BY <1>t DEF Publish, Remember
  <1>4. GapInv'
    <2> SUFFICES ASSUME NEW s \in Sockets, socket[s].pc = "snapshot", NEW f \in published'[socket[s].job]
                 PROVE  \/ f \in socket[s].lines \cup excused[s]
                        \/ \E q \in Publishers : /\ callback'[q].pc = "copy"
                                                 /\ callback'[q].event = f
                                                 /\ callback'[q].job = socket[s].job
      BY <1>1 DEF GapInv
    <2>1. socket[s].job \in Jobs /\ holder # None
      BY NoneAssumption DEF TypeInv, ArgsOK, LockInv
    <2>2. CASE f \in published[socket[s].job]
      <3>1. CASE f \in socket[s].lines \cup excused[s]
        BY <3>1
      <3>2. CASE \E q \in Publishers : /\ callback[q].pc = "copy"
                                       /\ callback[q].event = f
                                       /\ callback[q].job = socket[s].job
        <4>1. PICK q \in Publishers : /\ callback[q].pc = "copy"
                                      /\ callback[q].event = f
                                      /\ callback[q].job = socket[s].job
          BY <3>2
        <4>2. callback'[q] = callback[q]
          BY <1>1, <1>2, <4>1
        <4> QED
          BY <4>1, <4>2
      <3> QED
        BY <2>2, <3>1, <3>2 DEF GapInv
    <2>3. CASE f \notin published[socket[s].job]
      <3>1. socket[s].job = j /\ f = e
        BY <1>3, <2>1, <2>3
      <3>2. callback'[p].pc = "copy"
        BY <1>2, <2>1
      <3> QED
        BY <1>2, <3>1, <3>2
    <2> QED
      BY <2>2, <2>3
  <1>5. NothingMissed'
    <2> SUFFICES ASSUME NEW s \in Sockets, Streaming(s), NEW f \in published'[socket[s].job]
                 PROVE  f \in Seen(s) \cup excused[s] \/ \E q \in Publishers : Owes(q, s, f)'
      BY <1>1 DEF NothingMissed, Streaming, Seen
    <2>1. socket[s].job \in Jobs /\ s \in connections[socket[s].job]
      BY DEF ConnectedInv, Streaming, TypeInv, ArgsOK
    <2>2. CASE f \in published[socket[s].job]
      <3>1. CASE f \in Seen(s) \cup excused[s]
        BY <3>1
      <3>2. CASE \E q \in Publishers : Owes(q, s, f)
        <4>1. PICK q \in Publishers : Owes(q, s, f)
          BY <3>2
        <4>2. callback'[q] = callback[q]
          BY <1>1, <1>2, <4>1 DEF Owes
        <4> QED
          BY <1>1, <4>1, <4>2 DEF Owes
      <3> QED
        BY <2>2, <3>1, <3>2 DEF NothingMissed
    <2>3. CASE f \notin published[socket[s].job]
      <3>1. socket[s].job = j /\ f = e
        BY <1>3, <2>1, <2>3
      <3>2. Owes(p, s, f)'
        BY <1>1, <1>2, <2>1, <3>1 DEF Owes
      <3> QED
        BY <3>2
    <2> QED
      BY <2>2, <2>3
  <1> QED
    BY <1>4, <1>5

\* A callback that had to wait copies the connections once no snapshot is on
\* its way: whoever streams by then is among them.
LEMMA CopyGap ==
    ASSUME TypeInv, LockInv, ConnectedInv, GapInv, NothingMissed, NEW p \in Publishers, Copy(p)
    PROVE  GapInv' /\ NothingMissed'
  <1>t. callback \in [Publishers -> CallbackState]
    BY DEF TypeInv, TypeOK
  <1>1. /\ socket' = socket /\ inbox' = inbox /\ excused' = excused /\ published' = published
        /\ holder = None /\ callback[p].pc = "copy"
    BY DEF Copy, CopyConnections, MayEnter
  <1>2. /\ \A q \in Publishers \ {p} : callback'[q] = callback[q]
        /\ callback'[p].job = callback[p].job /\ callback'[p].event = callback[p].event
        /\ callback'[p].pc = "send" /\ callback'[p].todo = connections[callback[p].job]
    BY <1>t DEF Copy, CopyConnections, CallbackState
  <1>3. GapInv'
    <2>1. \A s \in Sockets : socket'[s].pc # "snapshot"
      BY <1>1, NoneAssumption DEF LockInv
    <2> QED
      BY <2>1 DEF GapInv
  <1>4. ASSUME NEW q \in Publishers, NEW s \in Sockets, NEW e, Streaming(s), Owes(q, s, e)
        PROVE  Owes(q, s, e)'
    <2>1. s \in connections[socket[s].job]
      BY <1>4 DEF ConnectedInv
    <2>2. CASE q = p
      BY <1>1, <1>2, <1>4, <2>1, <2>2 DEF Owes
    <2>3. CASE q # p
      <3>1. callback'[q] = callback[q]
        BY <1>2, <2>3
      <3> QED
        BY <1>1, <1>4, <3>1 DEF Owes
    <2> QED
      BY <2>2, <2>3
  <1>5. \A s \in Sockets : Streaming(s)' = Streaming(s) /\ Seen(s)' = Seen(s)
    BY <1>1 DEF Streaming, Seen
  <1> QED
    BY <1>1, <1>3, <1>4, <1>5 DEF NothingMissed

\* A browser has seen what it is sent, and what it had seen before.
LEMMA SeenAfterSend ==
    ASSUME NEW s \in Sockets, NEW m \in Message, inbox \in [Sockets -> Seq(Message)],
           inbox' = [inbox EXCEPT ![s] = Append(@, m)]
    PROVE  /\ \A r \in Sockets : Seen(r) \subseteq Seen(r)'
           /\ m.events \subseteq Seen(s)'
  <1> DEFINE n == Len(inbox[s])
  <1>1. /\ n \in Nat /\ DOMAIN inbox[s] = 1 .. n /\ DOMAIN inbox'[s] = 1 .. n + 1
        /\ inbox'[s][n + 1] = m /\ \A i \in 1 .. n : inbox'[s][i] = inbox[s][i]
    OBVIOUS
  <1>2. Seen(s) \subseteq Seen(s)'
    <2> SUFFICES ASSUME NEW i \in DOMAIN inbox[s], NEW e \in inbox[s][i].events
                 PROVE  e \in Seen(s)'
      BY DEF Seen
    <2>1. i \in DOMAIN inbox'[s] /\ e \in inbox'[s][i].events
      BY <1>1
    <2> QED
      BY <2>1 DEF Seen
  <1>3. m.events \subseteq Seen(s)'
    <2> SUFFICES ASSUME NEW e \in m.events PROVE e \in Seen(s)'
      OBVIOUS
    <2>1. n + 1 \in DOMAIN inbox'[s] /\ e \in inbox'[s][n + 1].events
      BY <1>1
    <2> QED
      BY <2>1 DEF Seen
  <1>4. ASSUME NEW r \in Sockets \ {s} PROVE Seen(r)' = Seen(r)
    <2>1. inbox'[r] = inbox[r]
      OBVIOUS
    <2> QED
      BY <2>1 DEF Seen
  <1> QED
    BY <1>2, <1>3, <1>4

\* A callback sends what it owes.
LEMMA SendGap ==
    ASSUME TypeInv, GapInv, NothingMissed, NEW p \in Publishers,
           NEW r \in Sockets, SendTo(p, r)
    PROVE  GapInv' /\ NothingMissed'
  <1>t. callback \in [Publishers -> CallbackState] /\ inbox \in [Sockets -> Seq(Message)]
    BY DEF TypeInv, TypeOK
  <1>1. /\ socket' = socket /\ excused' = excused /\ published' = published
        /\ callback[p].pc = "send"
    BY DEF SendTo
  <1>2. /\ \A q \in Publishers \ {p} : callback'[q] = callback[q]
        /\ callback'[p].job = callback[p].job /\ callback'[p].event = callback[p].event
        /\ callback'[p].pc = "send" /\ callback'[p].todo = callback[p].todo \ {r}
    BY <1>t DEF SendTo, CallbackState
  <1>3. /\ \A s \in Sockets : Seen(s) \subseteq Seen(s)'
        /\ socket[r].alive => callback[p].event \in Seen(r)'
    <2>1. CASE ~socket[r].alive
      BY <2>1 DEF SendTo, Seen
    <2>2. CASE socket[r].alive
      <3>1. inbox' = [inbox EXCEPT ![r] = Append(@, MessageOf(p))]
        BY <2>2 DEF SendTo
      <3>2. MessageOf(p) \in Message /\ callback[p].event \in MessageOf(p).events
        BY <1>t, <1>1 DEF MessageOf, Message, CallbackState, TypeInv, ArgsOK
      <3> QED
        BY <1>t, <3>1, <3>2, SeenAfterSend
    <2> QED
      BY <2>1, <2>2
  <1>4. GapInv'
    <2> SUFFICES ASSUME NEW s \in Sockets, socket[s].pc = "snapshot", NEW e \in published[socket[s].job],
                        e \notin socket[s].lines \cup excused[s]
                 PROVE  \E q \in Publishers : /\ callback'[q].pc = "copy"
                                             /\ callback'[q].event = e
                                             /\ callback'[q].job = socket[s].job
      BY <1>1 DEF GapInv
    <2>1. PICK q \in Publishers : /\ callback[q].pc = "copy"
                                  /\ callback[q].event = e
                                  /\ callback[q].job = socket[s].job
      BY DEF GapInv
    <2>2. callback'[q] = callback[q]
      BY <1>1, <1>2, <2>1
    <2> QED
      BY <2>1, <2>2
  <1>5. NothingMissed'
    <2> SUFFICES ASSUME NEW s \in Sockets, Streaming(s), NEW e \in published[socket[s].job],
                        e \notin excused[s], e \notin Seen(s)'
                 PROVE  \E q \in Publishers : Owes(q, s, e)'
      BY <1>1 DEF NothingMissed, Streaming
    <2>1. PICK q \in Publishers : Owes(q, s, e)
      BY <1>3 DEF NothingMissed
    <2>2. CASE q # p
      <3>1. callback'[q] = callback[q]
        BY <1>2, <2>2
      <3> QED
        BY <1>1, <2>1, <3>1 DEF Owes
    <2>3. CASE q = p
      <3>1. s \in callback[p].todo /\ callback[p].event = e /\ callback[p].job = socket[s].job
        BY <1>1, <2>1, <2>3 DEF Owes
      <3>2. s # r
        BY <1>3, <3>1 DEF Streaming
      <3>3. Owes(p, s, e)'
        BY <1>1, <1>2, <3>1, <3>2 DEF Owes
      <3> QED
        BY <3>3
    <2> QED
      BY <2>2, <2>3
  <1> QED
    BY <1>4, <1>5

\* No step of a callback leaves a gap.
LEMMA PublisherGap ==
    ASSUME TypeInv, LockInv, ConnectedInv, GapInv, NothingMissed, NEW p \in Publishers,
           (\E j \in Jobs, kind \in Kind : Accept(p, j, kind)) \/ Publishing(p)
    PROVE  GapInv' /\ NothingMissed'
  <1>t. callback \in [Publishers -> CallbackState]
    BY DEF TypeInv, TypeOK
  <1>1. ASSUME NEW j \in Jobs, NEW kind \in Kind, Accept(p, j, kind)
        PROVE  GapInv' /\ NothingMissed'
    <2>1. callback[p].pc = "idle" /\ \A q \in Publishers \ {p} : callback'[q] = callback[q]
      BY <1>t, <1>1 DEF Accept
    <2> QED
      BY <1>1, <2>1, QuietStep DEF Accept
  <1>2. CASE Return(p)
    <2>1. /\ callback[p].pc = "send" /\ callback[p].todo = {}
          /\ \A q \in Publishers \ {p} : callback'[q] = callback[q]
      BY <1>t, <1>2 DEF Return, Sent
    <2> QED
      BY <1>2, <2>1, QuietStep DEF Return
  <1>3. CASE Clear(p)
    <2>1. /\ callback[p].pc = "send" /\ callback[p].todo = {}
          /\ \A q \in Publishers \ {p} : callback'[q] = callback[q]
      BY <1>t, <1>3 DEF Clear, Sent
    <2> QED
      BY <1>3, <2>1, QuietStep DEF Clear
  <1>4. CASE Wait(p)
    <2>1. /\ socket' = socket /\ inbox' = inbox /\ published' = published
          /\ excused' = excused /\ callback' = callback
      BY <1>4 DEF Wait
    <2> QED
      BY <2>1, QuietStep
  <1>5. ASSUME NEW s \in Sockets, Drop(p, s) PROVE GapInv' /\ NothingMissed'
    <2>1. /\ callback[p].pc = "send" /\ callback[p].todo = {}
          /\ \A q \in Publishers \ {p} : callback'[q] = callback[q]
      BY <1>t, <1>5 DEF Drop, Sent
    <2> QED
      BY <1>5, <2>1, QuietStep DEF Drop
  <1> QED
    BY <1>1, <1>2, <1>3, <1>4, <1>5, PublishGap, CopyGap, SendGap DEF Publishing

\* A step of one handler leaves no gap for the browsers of the others.
LEMMA OthersGap ==
    ASSUME GapInv, NothingMissed, NEW s \in Sockets,
           callback' = callback, published' = published,
           \A r \in Sockets \ {s} :
              socket'[r] = socket[r] /\ inbox'[r] = inbox[r] /\ excused'[r] = excused[r],
           socket'[s].pc = "snapshot" => \A e \in published[socket'[s].job] :
              \/ e \in socket'[s].lines \cup excused'[s]
              \/ \E p \in Publishers : /\ callback[p].pc = "copy"
                                       /\ callback[p].event = e
                                       /\ callback[p].job = socket'[s].job,
           Streaming(s)' => \A e \in published[socket'[s].job] :
              e \in Seen(s)' \cup excused'[s] \/ \E p \in Publishers : Owes(p, s, e)'
    PROVE  GapInv' /\ NothingMissed'
  <1>1. GapInv'
    BY DEF GapInv
  <1>2. \A r \in Sockets \ {s} : /\ Streaming(r)' = Streaming(r) /\ Seen(r)' = Seen(r)
                                 /\ \A p \in Publishers : \A e : Owes(p, r, e)' = Owes(p, r, e)
    BY DEF Streaming, Seen, Owes
  <1>3. NothingMissed'
    BY <1>2 DEF NothingMissed
  <1> QED
    BY <1>1, <1>3

\* The snapshot has all that the backlog has, and the stream begins where the
\* snapshot ends.
LEMMA SocketGap ==
    ASSUME TypeInv, GapInv, NothingMissed, NEW s \in Sockets,
           (\E j \in Jobs : Load(s, j)) \/ Serving(s) \/ Disconnect(s)
    PROVE  GapInv' /\ NothingMissed'
  <1>t. /\ socket \in [Sockets -> SocketState] /\ socket[s] \in SocketState
        /\ inbox \in [Sockets -> Seq(Message)] /\ excused \in [Sockets -> SUBSET Event]
    BY DEF TypeInv, TypeOK
  <1>0. ASSUME callback' = callback, published' = published, inbox' = inbox, excused' = excused,
               \A r \in Sockets \ {s} : socket'[r] = socket[r],
               socket'[s].job = socket[s].job, socket'[s].lines = socket[s].lines,
               socket'[s].pc = "snapshot" => socket[s].pc = "snapshot",
               Streaming(s)' => Streaming(s)
        PROVE  GapInv' /\ NothingMissed'
    <2>1. socket'[s].pc = "snapshot" => \A e \in published[socket'[s].job] :
             \/ e \in socket'[s].lines \cup excused'[s]
             \/ \E p \in Publishers : /\ callback[p].pc = "copy"
                                      /\ callback[p].event = e
                                      /\ callback[p].job = socket'[s].job
      BY <1>0 DEF GapInv
    <2>2. \A p \in Publishers : \A e : Owes(p, s, e)' = Owes(p, s, e)
      BY <1>0 DEF Owes
    <2>3. Seen(s)' = Seen(s)
      BY <1>0 DEF Seen
    <2>4. Streaming(s)' => \A e \in published[socket'[s].job] :
             e \in Seen(s)' \cup excused'[s] \/ \E p \in Publishers : Owes(p, s, e)'
      BY <1>0, <2>2, <2>3 DEF NothingMissed
    <2> QED
      BY <1>0, <2>1, <2>4, OthersGap
  <1>1. ASSUME NEW j \in Jobs, Load(s, j) PROVE GapInv' /\ NothingMissed'
    <2>1. /\ callback' = callback /\ published' = published
          /\ inbox' = inbox /\ excused' = excused
          /\ socket' = [socket EXCEPT ![s] =
                [socket[s] EXCEPT !.pc = "loaded", !.job = j, !.lines = stored[j]]]
      BY <1>1 DEF Load
    <2>2. socket'[s].pc = "loaded" /\ ~Streaming(s)'
      BY <1>t, <2>1 DEF SocketState, Streaming
    <2> QED
      BY <1>t, <2>1, <2>2, OthersGap
  <1>2. CASE Subscribe(s)
    <2> DEFINE j == socket[s].job
    <2>1. /\ callback' = callback /\ published' = published /\ inbox' = inbox
          /\ excused' = [excused EXCEPT ![s] = published[j] \ Elements(backlog[j])]
          /\ socket' = [socket EXCEPT ![s] =
                [socket[s] EXCEPT !.pc = "snapshot", !.lines = SnapshotOf(s)]]
      BY <1>2 DEF Subscribe
    <2>2. /\ socket'[s].pc = "snapshot" /\ ~Streaming(s)' /\ socket'[s].job = j
          /\ socket'[s].lines = SnapshotOf(s)
      BY <1>t, <2>1 DEF SocketState, Streaming
    <2>3. Elements(backlog[j]) \subseteq SnapshotOf(s)
      BY DEF SnapshotOf, Elements
    <2>4. excused'[s] = published[j] \ Elements(backlog[j])
      BY <1>t, <2>1
    <2>5. \A e \in published[j] : e \in SnapshotOf(s) \cup excused'[s]
      BY <2>3, <2>4
    <2> QED
      BY <1>t, <2>1, <2>2, <2>5, OthersGap
  <1>3. CASE SendSnapshot(s) /\ socket[s].alive
    <2> DEFINE m == [kind |-> "log_snapshot", events |-> socket[s].lines]
    <2>1. /\ socket' = [socket EXCEPT ![s].pc = "streaming"] /\ socket[s].pc = "snapshot"
          /\ inbox' = [inbox EXCEPT ![s] = Append(@, m)]
          /\ callback' = callback /\ published' = published /\ excused' = excused
      BY <1>3 DEF SendSnapshot
    <2>2. socket'[s].pc = "streaming" /\ socket'[s].job = socket[s].job
      BY <1>t, <2>1 DEF SocketState
    <2>3. m \in Message
      BY <1>t DEF Message, SocketState
    <2>4. m.events \subseteq Seen(s)'
      BY <1>t, <2>1, <2>3, SeenAfterSend
    <2>5. socket[s].lines \subseteq Seen(s)'
      BY <2>4
    <2>6. \A e \in published[socket'[s].job] :
             e \in Seen(s)' \cup excused'[s] \/ \E p \in Publishers : Owes(p, s, e)'
      <3> SUFFICES ASSUME NEW e \in published[socket[s].job], e \notin socket[s].lines \cup excused[s]
                   PROVE  \E p \in Publishers : Owes(p, s, e)'
        BY <2>1, <2>2, <2>5
      <3>1. PICK p \in Publishers : /\ callback[p].pc = "copy"
                                    /\ callback[p].event = e
                                    /\ callback[p].job = socket[s].job
        BY <2>1 DEF GapInv
      <3> QED
        BY <2>1, <2>2, <3>1 DEF Owes
    <2>7. \A r \in Sockets \ {s} : socket'[r] = socket[r] /\ inbox'[r] = inbox[r]
      BY <1>t, <2>1
    <2> QED
      BY <2>1, <2>2, <2>6, <2>7, OthersGap
  <1>4. CASE SendSnapshot(s) /\ ~socket[s].alive
    <2>1. /\ socket' = [socket EXCEPT ![s].pc = "leaving"]
          /\ inbox' = inbox /\ callback' = callback
          /\ published' = published /\ excused' = excused
      BY <1>4 DEF SendSnapshot
    <2>2. /\ socket'[s].pc = "leaving" /\ socket'[s].job = socket[s].job
          /\ socket'[s].lines = socket[s].lines
      BY <1>t, <2>1 DEF SocketState
    <2> QED
      BY <1>t, <1>0, <2>1, <2>2 DEF Streaming
  <1>5. CASE Notice(s) \/ Unsubscribe(s)
    <2>1. /\ inbox' = inbox /\ callback' = callback
          /\ published' = published /\ excused' = excused
          /\ \/ socket' = [socket EXCEPT ![s].pc = "leaving"]
             \/ socket' = [socket EXCEPT ![s].pc = "gone"]
      BY <1>5 DEF Notice, Unsubscribe
    <2>2. /\ socket'[s].pc \in {"leaving", "gone"} /\ socket'[s].job = socket[s].job
          /\ socket'[s].lines = socket[s].lines
      BY <1>t, <2>1 DEF SocketState
    <2> QED
      BY <1>t, <1>0, <2>1, <2>2 DEF Streaming
  <1>6. CASE Wait(s)
    <2>1. /\ inbox' = inbox /\ callback' = callback /\ socket' = socket
          /\ published' = published /\ excused' = excused
      BY <1>6 DEF Wait
    <2> QED
      BY <1>0, <2>1 DEF Streaming
  <1>7. CASE Disconnect(s)
    <2>1. /\ socket' = [socket EXCEPT ![s].alive = FALSE]
          /\ inbox' = inbox /\ callback' = callback
          /\ published' = published /\ excused' = excused
      BY <1>7 DEF Disconnect
    <2>2. /\ ~socket'[s].alive /\ socket'[s].pc = socket[s].pc
          /\ socket'[s].job = socket[s].job /\ socket'[s].lines = socket[s].lines
      BY <1>t, <2>1 DEF SocketState
    <2> QED
      BY <1>t, <1>0, <2>1, <2>2 DEF Streaming
  <1> QED
    BY <1>1, <1>2, <1>3, <1>4, <1>5, <1>6, <1>7 DEF Serving

\* That nothing is missed is an invariant, with the snapshots on their way.
LEMMA GapNext ==
    TypeInv /\ LockInv /\ ConnectedInv /\ GapInv /\ NothingMissed /\ [Next]_vars
      => GapInv' /\ NothingMissed'
  <1> SUFFICES ASSUME TypeInv, LockInv, ConnectedInv, GapInv, NothingMissed, [Next]_vars
               PROVE  GapInv' /\ NothingMissed'
    OBVIOUS
  <1>1. CASE UNCHANGED vars
    <2>1. /\ inbox' = inbox /\ callback' = callback /\ socket' = socket
          /\ published' = published /\ excused' = excused
      BY <1>1 DEF vars
    <2> QED
      BY <2>1, QuietStep
  <1>2. CASE Restart
    <2>1. socket \in [Sockets -> SocketState]
      BY DEF TypeInv, TypeOK
    <2>2. \A s \in Sockets : socket'[s].pc \in {"new", "gone"}
      BY <1>2, <2>1 DEF Restart, SocketState
    <2> QED
      BY <2>2 DEF GapInv, NothingMissed, Streaming
  <1> QED
    BY <1>1, <1>2, PublisherGap, SocketGap DEF Next

\* A browser that streams has or will get every event published for its job
\* that its snapshot could still have.
THEOREM NoGap == Spec => []NothingMissed
  <1> DEFINE Inv == TypeInv /\ LockInv /\ ConnectedInv /\ GapInv /\ NothingMissed
  <1>1. Init => Inv
    BY TypeInvInit, LockInvInit, ConnectedInvInit, GapInit
  <1>2. Inv /\ [Next]_vars => Inv'
    BY TypeInvNext, LockInvNext, ConnectedInvNext, GapNext
  <1>3. Inv => NothingMissed
    OBVIOUS
  <1> QED
    BY <1>1, <1>2, <1>3, PTL DEF Spec
=============================================================================
