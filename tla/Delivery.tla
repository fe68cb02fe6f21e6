------------------------------ MODULE Delivery ------------------------------
(***************************************************************************)
(* The path of an event: the in-process bus (a bounded tokio broadcast     *)
(* channel with one receiver, the router), EventRouter::route_event, the   *)
(* dispatch channel, the single dispatcher that round-robins messages over *)
(* the fan-out workers, the workers, and each connection's bounded send    *)
(* queue, which its WebSocket writer empties.                              *)
(*                                                                         *)
(* What the registry answers for an event is a nondeterministic set of     *)
(* connections (SubscriptionRegistry models the lookup), each standing for *)
(* one (conn_id, sub_id) target; the order of the targets of a batch is    *)
(* that of the slot ids and says nothing about connections, so a batch     *)
(* carries a set.                                                          *)
(***************************************************************************)
EXTENDS Naturals, Sequences, FiniteSets

CONSTANTS Conns,        \* connections
          Responsive,   \* connections whose client keeps reading
          Topics,       \* topics events are published on
          PoolSizes,    \* numbers of fan-out workers the server may be configured with
          Policy,       \* Policy[c]: the overflow policy c is registered with
          BusCap,       \* capacity of the broadcast channel
          DispatchCap,  \* capacity of the dispatch channel
          WorkerCap,    \* capacity of each worker's channel
          QueueCap,     \* send_queue_capacity
          MaxEvents     \* bound: events published in a behaviour

ASSUME DeliveryAssumption ==
    /\ Responsive \subseteq Conns
    /\ Policy \in [Conns -> {"DropNewest", "DropOldest", "Disconnect"}]
    /\ IsFiniteSet(Conns)
    /\ PoolSizes \subseteq Nat \ {0} /\ \E n \in PoolSizes : \A m \in PoolSizes : m <= n
    /\ BusCap \in Nat \ {0} /\ DispatchCap \in Nat \ {0}
    /\ WorkerCap \in Nat \ {0} /\ QueueCap \in Nat \ {0} /\ MaxEvents \in Nat

VARIABLES workers,     \* size of the worker pool
          bus,         \* events published and not yet received by the router
          published,   \* number of events published
          lagged,      \* number of events the router's receiver skipped (Lagged)
          sequences,   \* SequenceGenerator: last number given out per topic
          stats,       \* DispatchStats of the router (lostMatches, the targets of
                       \* refused batches, is not in the code)
          dispatch,    \* the dispatch channel
          held,        \* message the dispatcher is waiting to hand to a worker
          turn,        \* worker whose turn it is (next % n)
          workerQ,     \* the workers' channels
          job,         \* message each worker is processing
          opened,      \* connection ids handed out by next_connection_id
          connections, \* ConnectionManager.connections
          receiver,    \* connections whose writer still holds send_rx
          queue,       \* the send queues
          received,    \* frames written to each client, in order
          metrics      \* outcome counters of handle_dispatch

vars == <<workers, bus, published, lagged, sequences, stats, dispatch, held, turn, workerQ, job,
          opened, connections, receiver, queue, received, metrics>>

busVars == <<bus, published, lagged>>
routerVars == <<sequences, stats>>
fanoutVars == <<workers, held, turn, workerQ, job, metrics>>
connVars == <<opened, connections, receiver, queue, received>>

\* An event with its sequence number on its topic; nr, its place in the order
\* of routing over all topics, is not in the code.
Event == [topic : Topics, seq : 1..MaxEvents, nr : 1..MaxEvents]
NoMsg == [event |-> [topic |-> "", seq |-> 0, nr |-> 0], targets |-> {}]
Message == [event : Event, targets : (SUBSET Conns) \ {{}}]

\* The workers of the largest pool; those beyond `workers` do not exist.
W == 1..(CHOOSE n \in PoolSizes : \A m \in PoolSizes : m <= n)

Init ==
    /\ workers \in PoolSizes
    /\ bus = <<>> /\ published = 0 /\ lagged = 0
    /\ sequences = [t \in Topics |-> 0]
    /\ stats = [routed |-> 0, matches |-> 0, empty |-> 0, batches |-> 0, failures |-> 0,
                largest |-> 0, lostMatches |-> 0]
    /\ dispatch = <<>> /\ held = NoMsg /\ turn = 1
    /\ workerQ = [w \in W |-> <<>>]
    /\ job = [w \in W |-> NoMsg]
    /\ opened = {} /\ connections = {} /\ receiver = {}
    /\ queue = [c \in Conns |-> <<>>]
    /\ received = [c \in Conns |-> <<>>]
    /\ metrics = [dispatched |-> 0, overflow |-> 0, disconnected |-> 0, gone |-> 0]

-----------------------------------------------------------------------------
\* InProcessPublisher::publish: broadcast::Sender::send overwrites the oldest
\* value of a full channel; next_event skips over it with a warning (Lagged).
Publish(t) ==
    /\ published < MaxEvents
    /\ published' = published + 1
    /\ IF Len(bus) < BusCap
       THEN /\ bus' = Append(bus, t)
            /\ UNCHANGED lagged
       ELSE /\ bus' = Append(Tail(bus), t)
            /\ lagged' = lagged + 1
    /\ UNCHANGED <<routerVars, dispatch, fanoutVars, connVars>>

\* InProcessSubscriber::next_event, after any Lagged it met.
NextEvent == /\ bus # <<>>
             /\ bus' = Tail(bus)

\* SequenceGenerator::next.
NextSequence(t) == sequences' = [sequences EXCEPT ![t] = @ + 1]

\* The counters of DispatchStats after an event with n targets.
Record(n, sent) == LET on(b) == IF b THEN 1 ELSE 0 IN
    stats' = [routed |-> stats.routed + 1, matches |-> stats.matches + n,
              empty |-> stats.empty + on(n = 0),
              batches |-> stats.batches + on(sent),
              failures |-> stats.failures + on(n > 0 /\ ~sent),
              largest |-> IF n > stats.largest THEN n ELSE stats.largest,
              lostMatches |-> stats.lostMatches + (IF sent THEN 0 ELSE n)]

\* route_event: number the event, look up its targets and try_send one batch; a
\* full dispatch channel drops the whole batch.
RouteEvent(t, targets) ==
    LET sent == targets # {} /\ Len(dispatch) < DispatchCap
        msg == [event |-> [topic |-> t, seq |-> sequences'[t], nr |-> stats.routed + 1],
                targets |-> targets]
    IN  /\ NextSequence(t)
        /\ dispatch' = IF sent THEN Append(dispatch, msg) ELSE dispatch
        /\ Record(Cardinality(targets), sent)
        /\ UNCHANGED <<published, lagged, fanoutVars, connVars>>

-----------------------------------------------------------------------------
\* dispatch_loop: rx.recv() ...
DispatchRecv ==
    /\ held = NoMsg
    /\ dispatch # <<>>
    /\ held' = Head(dispatch)
    /\ dispatch' = Tail(dispatch)
    /\ UNCHANGED <<workers, busVars, routerVars, turn, workerQ, job, metrics, connVars>>

\* ... then worker_txs[idx].send(message).await, which waits for room.
DispatchSend ==
    /\ held # NoMsg
    /\ Len(workerQ[turn]) < WorkerCap
    /\ workerQ' = [workerQ EXCEPT ![turn] = Append(@, held)]
    /\ held' = NoMsg
    /\ turn' = (turn % workers) + 1
    /\ UNCHANGED <<workers, busVars, routerVars, dispatch, job, metrics, connVars>>

\* run_worker: take the next message.
WorkerRecv(w) ==
    /\ job[w] = NoMsg
    /\ workerQ[w] # <<>>
    /\ job' = [job EXCEPT ![w] = Head(workerQ[w])]
    /\ workerQ' = [workerQ EXCEPT ![w] = Tail(@)]
    /\ UNCHANGED <<workers, busVars, routerVars, dispatch, held, turn, metrics, connVars>>

\* ConnectionManager::try_send with apply_overflow_policy: what happens to an
\* event for c.  Neither drop policy touches the queue.
SendResult(c) ==
    CASE c \notin connections -> "gone"
      [] c \in connections /\ c \notin receiver -> "gone"
      [] c \in connections /\ c \in receiver /\ Len(queue[c]) < QueueCap -> "dispatched"
      [] OTHER -> IF Policy[c] = "Disconnect" THEN "disconnected" ELSE "overflow"

\* The outcome counters of metrics.rs.
Count(result) == metrics' = [metrics EXCEPT ![result] = @ + 1]

\* handle_dispatch: the outcome for target c of the message e.
Deliver(e, c) ==
    LET result == SendResult(c)
    IN  /\ queue' = IF result = "dispatched" THEN [queue EXCEPT ![c] = Append(@, e)] ELSE queue
        /\ connections' = IF result = "disconnected" THEN connections \ {c} ELSE connections
        /\ Count(result)
        /\ UNCHANGED <<workers, busVars, routerVars, dispatch, held, turn, opened, receiver,
                       received>>

Without(msg, c) == IF msg.targets = {c} THEN NoMsg ELSE [msg EXCEPT !.targets = @ \ {c}]

\* Faulty variant: the rest of a batch is given up at the first dead target.
HandleDispatchReturns(w, c) ==
    /\ c \in job[w].targets
    /\ Deliver(job[w].event, c)
    /\ job' = [job EXCEPT ![w] = IF SendResult(c) = "gone" THEN NoMsg ELSE Without(@, c)]
    /\ UNCHANGED workerQ

\* Faulty variant: the worker waits for room in the send queue.
HandleDispatchWaits(w, c) ==
    /\ c \in job[w].targets
    /\ SendResult(c) # "overflow"
    /\ Deliver(job[w].event, c)
    /\ job' = [job EXCEPT ![w] = Without(@, c)]
    /\ UNCHANGED workerQ

\* run_worker: one target of the batch.
HandleDispatch(w, c) ==
    /\ c \in job[w].targets
    /\ Deliver(job[w].event, c)
    /\ job' = [job EXCEPT ![w] = Without(@, c)]
    /\ UNCHANGED workerQ

-----------------------------------------------------------------------------
\* ConnectionManager::next_connection_id and register: ids are used once.
Register(c) ==
    /\ c \notin opened
    /\ opened' = opened \cup {c}
    /\ connections' = connections \cup {c}
    /\ receiver' = receiver \cup {c}
    /\ UNCHANGED <<busVars, routerVars, dispatch, fanoutVars, queue, received>>

\* Faulty variant: the event that was sent stays in the queue.
WriterSendPeeks(c) ==
    /\ c \in receiver
    /\ queue[c] # <<>>
    /\ Len(received[c]) < MaxEvents
    /\ received' = [received EXCEPT ![c] = Append(@, Head(queue[c]))]
    /\ UNCHANGED <<busVars, routerVars, dispatch, fanoutVars, opened, connections, receiver,
                   queue>>

\* writer_loop: send_rx.recv() and send_frame.  A queue whose sender is gone
\* is still emptied.
WriterSend(c) ==
    /\ c \in receiver
    /\ queue[c] # <<>>
    /\ received' = [received EXCEPT ![c] = Append(@, Head(queue[c]))]
    /\ queue' = [queue EXCEPT ![c] = Tail(@)]
    /\ UNCHANGED <<busVars, routerVars, dispatch, fanoutVars, opened, connections, receiver>>

\* The writer ends (write error, slow client, goodbye): send_rx is dropped.
WriterEnd(c) ==
    /\ c \in receiver
    /\ c \notin Responsive
    /\ receiver' = receiver \ {c}
    /\ queue' = [queue EXCEPT ![c] = <<>>]
    /\ UNCHANGED <<busVars, routerVars, dispatch, fanoutVars, opened, connections, received>>

\* ConnectionManager::remove, at the end of handle_websocket.
Remove(c) ==
    /\ c \in connections
    /\ c \notin Responsive
    /\ connections' = connections \ {c}
    /\ UNCHANGED <<busVars, routerVars, dispatch, fanoutVars, opened, receiver, queue, received>>

-----------------------------------------------------------------------------
\* run_with_subscriber; any set of targets may match.
Router == NextEvent /\ \E targets \in SUBSET Conns : RouteEvent(Head(bus), targets)

Dispatcher == DispatchRecv \/ DispatchSend
Worker(w) == WorkerRecv(w) \/ \E c \in Conns : HandleDispatch(w, c)
Session(c) == Register(c) \/ WriterSend(c) \/ WriterEnd(c) \/ Remove(c)

Next == \/ \E t \in Topics : Publish(t)
        \/ Router
        \/ Dispatcher
        \/ \E w \in W : Worker(w)
        \/ \E c \in Conns : Session(c)

\* The tokio runtime keeps running tasks that are ready; only the writers of
\* responsive clients are sure to make progress.
Fairness == /\ WF_vars(Router) /\ WF_vars(Dispatcher)
            /\ \A w \in W : WF_vars(Worker(w))
            /\ \A c \in Responsive : WF_vars(WriterSend(c))

Spec == Init /\ [][Next]_vars /\ Fairness

-----------------------------------------------------------------------------
TypeOK ==
    /\ bus \in Seq(Topics) /\ Len(bus) <= BusCap
    /\ published \in 0..MaxEvents /\ lagged \in 0..MaxEvents
    /\ sequences \in [Topics -> 0..MaxEvents]
    /\ dispatch \in Seq(Message) /\ Len(dispatch) <= DispatchCap
    /\ held \in Message \cup {NoMsg}
    /\ workers \in PoolSizes /\ turn \in 1..workers
    /\ workerQ \in [W -> Seq(Message)]
    /\ job \in [W -> Message \cup {NoMsg}]
    /\ opened \subseteq Conns /\ connections \subseteq opened /\ receiver \subseteq opened
    /\ queue \in [Conns -> Seq(Event)]
    /\ received \in [Conns -> Seq(Event)]

\* The messages before the workers and those of worker w, oldest first; the
\* one in hand is at 0.
Waiting == [i \in 0..Len(dispatch) |-> IF i = 0 THEN held ELSE dispatch[i]]
Backlog(w) == [i \in 0..Len(workerQ[w]) |-> IF i = 0 THEN job[w] ELSE workerQ[w][i]]

\* Matches that are still somewhere between the router and a send queue.
Carried == {Waiting[i] : i \in DOMAIN Waiting}
              \cup UNION {{Backlog(w)[i] : i \in DOMAIN Backlog(w)} : w \in W}
Pending == UNION {m.targets \X {m.event} : m \in Carried}
InFlight == Cardinality(Pending)

\* Every match that DispatchStats counts is still in flight, was lost with a
\* batch the dispatch channel refused, or shows up in exactly one of the
\* outcome counters.
NoneVanishes ==
    stats.matches = InFlight + stats.lostMatches + metrics.dispatched + metrics.overflow
                        + metrics.disconnected + metrics.gone

\* The places where an event for c can be: with the client, in its send queue,
\* before the workers, or with one of them.
Places == {<<"received", 0>>, <<"queue", 0>>, <<"dispatcher", 0>>} \cup ({"worker"} \X W)

\* The events for c among the messages of a channel, by position.
EventsFor(c, msgs) == [i \in {k \in DOMAIN msgs : c \in msgs[k].targets} |-> msgs[i].event]

At(c, p) == CASE p[1] = "received"   -> received[c]
              [] p[1] = "queue"      -> queue[c]
              [] p[1] = "dispatcher" -> EventsFor(c, Waiting)
              [] p[1] = "worker"     -> EventsFor(c, Backlog(p[2]))

\* No client gets an event twice: an event is in at most one place of the path,
\* and there once.
NowhereTwice ==
    \A c \in Conns : \A p, q \in Places :
        \A i \in DOMAIN At(c, p), j \in DOMAIN At(c, q) :
            At(c, p)[i] = At(c, q)[j] => p = q /\ i = j

\* However the batches travel over the workers, no match disappears unnoticed
\* between router and queues, and none is delivered twice.
EveryMatchOnce == NoneVanishes /\ NowhereTwice

\* architecture.md:477: "If you receive sequence 5 then 7, you missed sequence
\* 6": what a client skipped over is not on its way to it any more.  Not so
\* with several workers (README, deviations).
NoneOvertaken ==
    \A c \in Conns : \A i \in DOMAIN received[c] :
        \A p \in Places : \A j \in DOMAIN At(c, p) :
            LET seen == received[c][i]
                other == At(c, p)[j]
            IN  other.topic = seen.topic /\ other.seq < seen.seq
                    => p[1] = "received" /\ j < i

\* The events underway to c.
Path(c) == {queue[c][i] : i \in DOMAIN queue[c]} \cup {x[2] : x \in {y \in Pending : y[1] = c}}

\* The lossy FIFO a single worker's pipeline is; a larger pool maps to one that
\* loses everything.
Fifo == INSTANCE LossyFifo
            WITH count <- stats.routed,
                 high <- sequences,
                 pipe <- [c \in Conns |-> IF workers = 1 THEN Path(c) ELSE {}],
                 out <- [c \in Conns |-> IF workers = 1 THEN received[c] ELSE <<>>]

\* With a single worker, router, channels, worker and writer together implement
\* a lossy FIFO: losses, but no reordering and no duplicates.
ImplementsFifo == Fifo!Spec

Underway(c, nr) == \E e \in Path(c) : e.nr = nr

\* architecture.md:1148, "Slow clients don't block others": an event underway
\* to a client that keeps reading leaves the pipeline, whatever the clients that
\* read slowly or not at all are doing.
SlowDoesNotBlock == \A c \in Responsive, nr \in 1..MaxEvents : Underway(c, nr) ~> ~Underway(c, nr)

\* fanout.rs:72: a saturated worker "applies natural back-pressure to the
\* router": the router waits instead of dropping batches.
BackPressureIsLossless == stats.failures = 0

\* fanout.rs:72: waiting for a saturated worker happens "without ever blocking
\* the OTHER workers": none of them is starved of work meanwhile.
OthersNotBlocked ==
    held # NoMsg /\ Len(workerQ[turn]) = WorkerCap
        => \A w \in 1..workers : job[w] # NoMsg \/ workerQ[w] # <<>>

\* subscription.rs:23, DropOldest: "Drop the oldest queued event": the event
\* that found the queue full ends up in it.
DropOldestKeepsNewest ==
    [][\A w \in W, c \in Conns :
          HandleDispatch(w, c) /\ c \in connections \cap receiver /\ Policy[c] = "DropOldest"
              => queue'[c][Len(queue'[c])] = job[w].event]_vars

\* architecture.md:1146: "Events are never lost in the bus".
BusLosesNothing == lagged = 0
=============================================================================
