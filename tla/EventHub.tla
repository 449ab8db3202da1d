------------------------------ MODULE EventHub ------------------------------
(***************************************************************************)
(* PipelineEventHub (app/realtime.py) with its callers: the callbacks of    *)
(* app/main.py that publish and the handler of a log WebSocket that         *)
(* subscribes.                                                              *)
(*                                                                          *)
(* The hub lives in the memory of one process.  Its code runs without       *)
(* interruption between two awaits; it awaits its one asyncio.Lock, which   *)
(* all jobs share, and every send to a browser.  publish appends to the     *)
(* backlog before it asks for the lock, holds the lock only while it copies *)
(* the connections, and sends without it; subscribe holds the lock over its *)
(* send.  asyncio.Lock serves its waiters in their order of arrival, and    *)
(* whoever finds it free with nobody waiting takes it without an await.     *)
(*                                                                          *)
(* An event is one call of publish; that of a log batch stands for all the  *)
(* log events of the batch.  An element of Sockets is one connection of a   *)
(* browser, used once.                                                      *)
(***************************************************************************)
EXTENDS Naturals, Sequences

CONSTANTS
    Jobs,        \* the jobs
    Sockets,     \* the WebSocket connections
    Publishers,  \* the callbacks in flight
    None,        \* no process, no job
    Size,        \* backlog_size
    MaxEvents,   \* bound on the events published
    Faults       \* "outage" (the database loses a batch), "restart" (of the backend)

ASSUME SizeAssumption == Size \in Nat \ {0}
ASSUME MaxEventsAssumption == MaxEvents \in Nat
ASSUME ProcessAssumption == Sockets \cap Publishers = {}
ASSUME NoneAssumption == None \notin Sockets \cup Publishers \cup Jobs
ASSUME FaultsAssumption == Faults \subseteq {"outage", "restart"}

VARIABLES
    connections,  \* _connections
    backlog,      \* _log_backlog
    holder,       \* the subscriber that holds _lock while it sends, or None
    waiting,      \* the processes that wait for _lock, in their order
    stored,       \* the log events in the database
    socket,       \* the WebSocket handlers
    callback,     \* the callbacks that publish
    inbox,        \* what each browser has received
    published,    \* the log events this process has appended to the backlog
    excused,      \* those already dropped when a browser's snapshot was taken
    events        \* the number of events published so far

vars == <<connections, backlog, holder, waiting, stored, socket, callback,
          inbox, published, excused, events>>
lock == <<holder, waiting>>

Procs == Sockets \cup Publishers
Event == 1 .. MaxEvents
Kind == {"log_batch", "step_complete", "pipeline_complete"}
Message == [kind : Kind \cup {"log_snapshot"}, events : SUBSET Event]

\* lines: what the database held, then what the snapshot says.
SocketState == [pc : {"new", "loaded", "snapshot", "streaming", "leaving", "gone"},
                job : Jobs \cup {None}, alive : BOOLEAN, lines : SUBSET Event]

\* todo: connections still to be sent to; stale: those whose send failed.
CallbackState == [pc : {"idle", "accepted", "copy", "send"},
                  job : Jobs \cup {None}, kind : Kind, event : Event \cup {0},
                  todo : SUBSET Sockets, stale : SUBSET Sockets]

Idle == [pc |-> "idle", job |-> None, kind |-> "log_batch", event |-> 0,
         todo |-> {}, stale |-> {}]

Elements(seq) == {seq[i] : i \in DOMAIN seq}

Init ==
    /\ connections = [j \in Jobs |-> {}]
    /\ backlog = [j \in Jobs |-> <<>>]
    /\ holder = None
    /\ waiting = <<>>
    /\ stored = [j \in Jobs |-> {}]
    /\ socket = [s \in Sockets |->
                    [pc |-> "new", job |-> None, alive |-> TRUE, lines |-> {}]]
    /\ callback = [p \in Publishers |-> Idle]
    /\ inbox = [s \in Sockets |-> <<>>]
    /\ published = [j \in Jobs |-> {}]
    /\ excused = [s \in Sockets |-> {}]
    /\ events = 0

-----------------------------------------------------------------------------
(* _lock.                                                                   *)

\* Mutant: the lock keeps nobody out.
EnterAnyway(p) == TRUE

MayEnter(p) == holder = None /\ (waiting # <<>> => Head(waiting) = p)

\* What is left of the queue when p enters.
After(p) == IF p \in Elements(waiting) THEN Tail(waiting) ELSE waiting

Enqueue(p) ==
    /\ ~MayEnter(p)
    /\ p \notin Elements(waiting)
    /\ waiting' = Append(waiting, p)
    /\ UNCHANGED holder

-----------------------------------------------------------------------------
(* publish and clear, called by receive_result and _fail_job_in_db.         *)

\* The database work is done: a log batch with accepted events, a step, or the
\* end of the job is about to be published.  A pipeline_complete is also what
\* _fail_job_in_db publishes, and clears, after its commit.  In an outage
\* _append_stream_log_batch stores nothing and accepts every event.
Accept(p, j, kind) ==
    /\ callback[p].pc = "idle"
    /\ events < MaxEvents
    /\ events' = events + 1
    /\ callback' = [callback EXCEPT ![p] =
          [Idle EXCEPT !.pc = "accepted", !.job = j, !.kind = kind, !.event = events']]
    /\ \/ kind = "log_batch" /\ stored' = [stored EXCEPT ![j] = @ \cup {events'}]
       \/ (kind = "log_batch" => "outage" \in Faults) /\ UNCHANGED stored
    /\ UNCHANGED <<connections, backlog, lock, socket, inbox, published, excused>>

\* Mutant: one event too many is kept.
KeepOneMore(seq) == IF Len(seq) > Size + 1 THEN Tail(seq) ELSE seq

\* deque(maxlen = backlog_size)
Keep(seq) == IF Len(seq) > Size THEN Tail(seq) ELSE seq

Remember(p) ==
    LET j == callback[p].job
        e == callback[p].event
    IN  IF callback[p].kind = "log_batch"
        THEN /\ backlog' = [backlog EXCEPT ![j] = Keep(Append(@, e))]
             /\ published' = [published EXCEPT ![j] = @ \cup {e}]
        ELSE UNCHANGED <<backlog, published>>

\* Mutant: the publisher forgets to give the lock back.
HolderKept(p) == p

\* Nobody holds the lock once the connections are copied.
HolderAfterCopy(p) == None

CopyConnections(p) ==
    /\ MayEnter(p)
    /\ waiting' = After(p)
    /\ holder' = HolderAfterCopy(p)
    /\ callback' = [callback EXCEPT ![p].pc = "send",
                                    ![p].todo = connections[callback[p].job]]

\* From the call of publish to its first await.
Publish(p) ==
    /\ callback[p].pc = "accepted"
    /\ Remember(p)
    /\ \/ CopyConnections(p)
       \/ /\ Enqueue(p)
          /\ callback' = [callback EXCEPT ![p].pc = "copy"]
    /\ UNCHANGED <<connections, stored, socket, inbox, excused, events>>

Copy(p) ==
    /\ callback[p].pc = "copy"
    /\ CopyConnections(p)
    /\ UNCHANGED <<connections, backlog, stored, socket, inbox, published, excused, events>>

MessageOf(p) ==
    [kind |-> callback[p].kind, events |-> {callback[p].event}]

\* One send; the order is that of a Python set.
SendTo(p, s) ==
    /\ callback[p].pc = "send"
    /\ s \in callback[p].todo
    /\ IF socket[s].alive
       THEN /\ inbox' = [inbox EXCEPT ![s] = Append(@, MessageOf(p))]
            /\ callback' = [callback EXCEPT ![p].todo = @ \ {s}]
       ELSE /\ callback' = [callback EXCEPT ![p].todo = @ \ {s}, ![p].stale = @ \cup {s}]
            /\ UNCHANGED inbox
    /\ UNCHANGED <<connections, backlog, lock, stored, socket, published, excused, events>>

\* Mutant: the last connection of a job stays.
WithoutUnlessLast(conns, s) == IF conns = {s} THEN conns ELSE conns \ {s}

\* unsubscribe
Without(conns, s) == conns \ {s}

Sent(p) == callback[p].pc = "send" /\ callback[p].todo = {}

\* unsubscribe of a connection whose send failed
Drop(p, s) ==
    /\ Sent(p)
    /\ s \in callback[p].stale
    /\ MayEnter(p)
    /\ waiting' = After(p)
    /\ connections' = [connections EXCEPT ![callback[p].job] = Without(@, s)]
    /\ callback' = [callback EXCEPT ![p].stale = @ \ {s}]
    /\ UNCHANGED <<backlog, holder, stored, socket, inbox, published, excused, events>>

\* A log batch or a step is answered...
Return(p) ==
    /\ Sent(p)
    /\ callback[p].stale = {}
    /\ callback[p].kind # "pipeline_complete"
    /\ callback' = [callback EXCEPT ![p] = Idle]
    /\ UNCHANGED <<connections, backlog, lock, stored, socket, inbox, published, excused, events>>

\* ...the end of the job clears its backlog first.
Clear(p) ==
    /\ Sent(p)
    /\ callback[p].stale = {}
    /\ callback[p].kind = "pipeline_complete"
    /\ MayEnter(p)
    /\ waiting' = After(p)
    /\ backlog' = [backlog EXCEPT ![callback[p].job] = <<>>]
    /\ callback' = [callback EXCEPT ![p] = Idle]
    /\ UNCHANGED <<connections, holder, stored, socket, inbox, published, excused, events>>

-----------------------------------------------------------------------------
(* pipeline_log_websocket and subscribe.                                    *)

\* Mutant: the connection is registered before it has had its snapshot.
LoadAndJoin(s, j) ==
    /\ socket[s].pc = "new"
    /\ socket' = [socket EXCEPT ![s].pc = "loaded", ![s].job = j, ![s].lines = stored[j]]
    /\ connections' = [connections EXCEPT ![j] = @ \cup {s}]
    /\ UNCHANGED <<backlog, lock, stored, callback, inbox, published, excused, events>>

\* Authenticated, and the lines of the database are read.
Load(s, j) ==
    /\ socket[s].pc = "new"
    /\ socket' = [socket EXCEPT ![s].pc = "loaded", ![s].job = j, ![s].lines = stored[j]]
    /\ UNCHANGED <<connections, backlog, lock, stored, callback, inbox, published, excused, events>>

SnapshotOf(s) ==
    LET log == backlog[socket[s].job]
    IN  IF log = <<>> THEN socket[s].lines ELSE Elements(log)

\* The lock is taken, the backlog copied and the send begun.
Subscribe(s) ==
    LET j == socket[s].job IN
    /\ socket[s].pc = "loaded"
    /\ MayEnter(s)
    /\ waiting' = After(s)
    /\ holder' = s
    /\ socket' = [socket EXCEPT ![s].pc = "snapshot", ![s].lines = SnapshotOf(s)]
    /\ excused' = [excused EXCEPT ![s] = published[j] \ Elements(backlog[j])]
    /\ UNCHANGED <<connections, backlog, stored, callback, inbox, published, events>>

\* The send ends, and with it the lock.
SendSnapshot(s) ==
    /\ socket[s].pc = "snapshot"
    /\ holder' = None
    /\ IF socket[s].alive
       THEN /\ inbox' = [inbox EXCEPT ![s] =
                  Append(@, [kind |-> "log_snapshot", events |-> socket[s].lines])]
            /\ connections' = [connections EXCEPT ![socket[s].job] = @ \cup {s}]
            /\ socket' = [socket EXCEPT ![s].pc = "streaming"]
       ELSE /\ socket' = [socket EXCEPT ![s].pc = "leaving"]
            /\ UNCHANGED <<inbox, connections>>
    /\ UNCHANGED <<backlog, waiting, stored, callback, published, excused, events>>

\* receive_json raises.
Notice(s) ==
    /\ socket[s].pc = "streaming"
    /\ ~socket[s].alive
    /\ socket' = [socket EXCEPT ![s].pc = "leaving"]
    /\ UNCHANGED <<connections, backlog, lock, stored, callback, inbox, published, excused, events>>

\* The finally clause.
Unsubscribe(s) ==
    /\ socket[s].pc = "leaving"
    /\ MayEnter(s)
    /\ waiting' = After(s)
    /\ connections' = [connections EXCEPT ![socket[s].job] = Without(@, s)]
    /\ socket' = [socket EXCEPT ![s].pc = "gone"]
    /\ UNCHANGED <<backlog, holder, stored, callback, inbox, published, excused, events>>

\* Somebody else has the lock.
Wait(p) ==
    /\ \/ p \in Sockets /\ socket[p].pc \in {"loaded", "leaving"}
       \/ /\ p \in Publishers
          /\ Sent(p)
          /\ callback[p].stale # {} \/ callback[p].kind = "pipeline_complete"
    /\ Enqueue(p)
    /\ UNCHANGED <<connections, backlog, stored, socket, callback, inbox, published, excused, events>>

-----------------------------------------------------------------------------
(* The browser goes away; the backend is replaced.                          *)

Disconnect(s) ==
    /\ socket[s].pc # "new"
    /\ socket[s].alive
    /\ socket' = [socket EXCEPT ![s].alive = FALSE]
    /\ UNCHANGED <<connections, backlog, lock, stored, callback, inbox, published, excused, events>>

Restart ==
    /\ "restart" \in Faults
    /\ connections' = [j \in Jobs |-> {}]
    /\ backlog' = [j \in Jobs |-> <<>>]
    /\ holder' = None
    /\ waiting' = <<>>
    /\ socket' = [s \in Sockets |->
                    IF socket[s].pc = "new" THEN socket[s]
                    ELSE [socket[s] EXCEPT !.pc = "gone", !.alive = FALSE]]
    /\ callback' = [p \in Publishers |-> Idle]
    /\ published' = [j \in Jobs |-> {}]
    /\ UNCHANGED <<stored, inbox, excused, events>>

-----------------------------------------------------------------------------
Publishing(p) ==
    \/ Publish(p) \/ Copy(p) \/ Return(p) \/ Clear(p) \/ Wait(p)
    \/ \E s \in Sockets : SendTo(p, s) \/ Drop(p, s)

Serving(s) == Subscribe(s) \/ SendSnapshot(s) \/ Notice(s) \/ Unsubscribe(s) \/ Wait(s)

Next ==
    \/ \E p \in Publishers :
          \/ \E j \in Jobs, kind \in Kind : Accept(p, j, kind)
          \/ Publishing(p)
    \/ \E s \in Sockets :
          \/ \E j \in Jobs : Load(s, j)
          \/ Serving(s)
          \/ Disconnect(s)
    \/ Restart

Spec == Init /\ [][Next]_vars

\* The event loop runs every coroutine that can run, and a send ends: the
\* server pings a silent browser and closes its connection.
Fairness ==
    /\ \A p \in Publishers : WF_vars(Publishing(p))
    /\ \A s \in Sockets : WF_vars(Serving(s))

FairSpec == Spec /\ Fairness

-----------------------------------------------------------------------------
\* Every variable stays in its domain, and the backlog within its size.
TypeOK ==
    /\ connections \in [Jobs -> SUBSET Sockets]
    /\ backlog \in [Jobs -> Seq(Event)]
    /\ \A j \in Jobs : Len(backlog[j]) <= Size
    /\ holder \in Procs \cup {None}
    /\ waiting \in Seq(Procs)
    /\ stored \in [Jobs -> SUBSET Event]
    /\ socket \in [Sockets -> SocketState]
    /\ callback \in [Publishers -> CallbackState]
    /\ inbox \in [Sockets -> Seq(Message)]
    /\ published \in [Jobs -> SUBSET Event]
    /\ excused \in [Sockets -> SUBSET Event]
    /\ events \in 0 .. MaxEvents

Streaming(s) == socket[s].pc = "streaming" /\ socket[s].alive

Seen(s) == UNION {inbox[s][i].events : i \in DOMAIN inbox[s]}

\* The event is in the backlog, and its publisher has not sent it to s yet.
Owes(p, s, e) ==
    /\ callback[p].event = e
    /\ callback[p].job = socket[s].job
    /\ \/ callback[p].pc = "copy" 
       \/ callback[p].pc = "send" /\ s \in callback[p].todo

\* subscribe: "a live event cannot overtake the snapshot on this connection".
\* A browser's first message is its snapshot, and it gets no second one.
SnapshotFirst ==
    \A s \in Sockets : \A i \in DOMAIN inbox[s] :
        inbox[s][i].kind = "log_snapshot" <=> i = 1

\* No event falls between a snapshot and the live stream: a browser that is
\* streaming has or will get every event published for its job, but for those
\* the backlog had dropped when the snapshot was taken.  This is what the lock
\* is for.
NothingMissed ==
    \A s \in Sockets : Streaming(s) =>
        \A e \in published[socket[s].job] :
            e \in Seen(s) \cup excused[s] \/ \E p \in Publishers : Owes(p, s, e)

\* A callback that publishes is answered, whatever browsers come, stall and go:
\* neither a dead browser nor the lock stops it.
PublishReturns ==
    \A p \in Publishers : callback[p].pc # "idle" ~> callback[p].pc = "idle"

\* A browser that went away leaves the connections for good, although its own
\* handler and the publishers that fail to send to it remove it independently
\* and a subscription may still be under way.
DeadSocketsLeave ==
    \A s \in Sockets : socket[s].pc # "new" /\ ~socket[s].alive ~>
        [](\A j \in Jobs : s \notin connections[j])
=============================================================================
