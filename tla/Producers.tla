----------------------------- MODULE Producers ------------------------------
(***************************************************************************)
(* Change feeds: the server's start-up, the producer task of every         *)
(* configured database, the PostgreSQL supervisor that owns a LISTEN       *)
(* across reconnects, the MongoDB change stream that is opened once, and   *)
(* what /v1/health says about them.  A database goes down and comes back;  *)
(* an embedding program may stop a producer while any of this happens.     *)
(*                                                                         *)
(* A change is a number, Ops says what it does to its row.  Notifications  *)
(* on a connection that dies are lost with it.  Delays are left out: a     *)
(* back-off only separates attempts.                                       *)
(***************************************************************************)
EXTENDS Naturals, SequencesExt

CONSTANTS Databases,   \* config.databases
          Adapters,    \* adapter names the configuration may use
          ChanCap,     \* capacity of a producer's channel (4096)
          Ops,         \* what the changes are, one after the other
          Foreign,     \* those that are no row change: a NOTIFY of someone else on
                       \* the channel, a MongoDB event without a collection
          MaxOutages   \* bound: times a database goes down

ASSUME ProducersAssumption == /\ ChanCap \in Nat \ {0}
                              /\ MaxOutages \in Nat
                              /\ Foreign \subseteq DOMAIN Ops

MaxChanges == Len(Ops)   \* bound: changes made in a database

VARIABLES boot,       \* how far run() has come
          adapter,    \* per database: the adapter its configuration names
          up,         \* per database: it accepts connections
          outages,
          task,       \* per database: the server's producer task
          ended,      \* per database: ProducerHandle.ended
          running,    \* per database: the producer's running flag
          connected,  \* per database: PostgresProducer.connected
          feed,       \* per database: the supervisor or change-stream task
          link,       \* per database: the feed's connection, "none", "open" or "dead"
          wire,       \* per database: changes on the connection
          chan,       \* per database: the channel of its EventStream
          stopping,   \* per database: progress of stop()
          changes,    \* per database: number of changes made
          published,  \* per database: changes put on the bus, in order
          \* History.
          missed,     \* per database: changes made or in flight without a connection
          refused     \* per database: changes the bus refused

procVars == <<task, ended, running, connected, feed, stopping>>
dataVars == <<wire, chan, changes, published, missed, refused>>
producersVars == <<boot, adapter, up, outages, procVars, link, dataVars>>

ProducersInit ==
    /\ boot = "bus"
    /\ adapter \in [Databases -> Adapters]
    /\ up \in [Databases -> BOOLEAN] /\ outages = 0
    /\ task = [d \in Databases |-> "none"] /\ ended = [d \in Databases |-> FALSE]
    /\ running = [d \in Databases |-> FALSE] /\ connected = [d \in Databases |-> FALSE]
    /\ feed = [d \in Databases |-> "none"] /\ link = [d \in Databases |-> "none"]
    /\ stopping = [d \in Databases |-> "no"]
    /\ wire = [d \in Databases |-> <<>>] /\ chan = [d \in Databases |-> <<>>]
    /\ changes = [d \in Databases |-> 0] /\ published = [d \in Databases |-> <<>>]
    /\ missed = [d \in Databases |-> {}] /\ refused = [d \in Databases |-> {}]

Set(f, d, v) == [f EXCEPT ![d] = v]

-----------------------------------------------------------------------------
\* What is sent for a change, by its fields, and whether it is taken.  The
\* operation and the table become the event's type and topic, the row its
\* payload; none of them decides anything here.

\* The trigger function.  (A Foreign one may have any shape.)
Notify(c) == IF c \in Foreign THEN {"table", "data"}
             ELSE {"table", "schema", "operation", "data"}
                    \cup (IF Ops[c] = "update" THEN {"old_data"} ELSE {})

\* The server's change event, as the driver hands it over (external).
ChangeDocument(c) == {"operationType"} \cup (IF c \in Foreign THEN {} ELSE {"ns.coll"})

ParsePgNotification(fields) == {"table", "schema", "operation", "data"} \subseteq fields

ParseChangeEvent(fields) == {"operationType", "ns.coll"} \subseteq fields

Parses(d, c) == IF adapter[d] = "postgresql" THEN ParsePgNotification(Notify(c))
                ELSE ParseChangeEvent(ChangeDocument(c))

-----------------------------------------------------------------------------
\* The database.
Change(d) ==
    /\ changes[d] < MaxChanges
    /\ changes' = Set(changes, d, changes[d] + 1)
    /\ IF link[d] = "open"
       THEN wire' = Set(wire, d, Append(wire[d], changes'[d])) /\ UNCHANGED missed
       ELSE missed' = Set(missed, d, missed[d] \cup {changes'[d]}) /\ UNCHANGED wire
    /\ UNCHANGED <<boot, adapter, up, outages, procVars, link, chan, published, refused>>

\* A connection dies with what is on it.
Kill(d) ==
    /\ link' = Set(link, d, IF link[d] = "open" THEN "dead" ELSE link[d])
    /\ wire' = Set(wire, d, <<>>)
    /\ missed' = Set(missed, d, missed[d] \cup ToSet(wire[d]))

GoDown(d) ==
    /\ up[d] /\ outages < MaxOutages
    /\ up' = Set(up, d, FALSE) /\ outages' = outages + 1
    /\ Kill(d)
    /\ UNCHANGED <<boot, adapter, procVars, chan, changes, published, refused>>

ComeBack(d) ==
    /\ ~up[d]
    /\ up' = Set(up, d, TRUE)
    /\ UNCHANGED <<boot, adapter, outages, procVars, link, dataVars>>

-----------------------------------------------------------------------------
\* default_producer_registry, and what create_producer makes of a configured
\* adapter: a producer to start, or an error that is logged.
DefaultProducerRegistry == {"postgresql", "mongodb"}
CreateProducer(d) == IF adapter[d] \in DefaultProducerRegistry THEN "start" ELSE "failed"

\* run(): the bus, the auth provider (which may refuse to be built), the
\* router's subscription to the bus, and only then the producers.
Boot ==
    /\ \/ boot = "bus" /\ boot' \in {"core", "refused"} /\ UNCHANGED task
       \/ boot = "core" /\ boot' = "routing" /\ UNCHANGED task
       \/ /\ boot = "routing" /\ boot' = "serving"
          /\ task' = [d \in Databases |-> CreateProducer(d)]
    /\ UNCHANGED <<adapter, up, outages, ended, running, connected, feed, stopping, link, dataVars>>

\* start_producers makes no handle for a producer that was not created.
Handles == {d \in Databases : task[d] \in {"start", "attach", "consume", "ended"}}

\* producer.start(), called by start_with_retry until it succeeds.  For both
\* adapters the running flag is set first.
StartProducer(d) ==
    /\ task[d] = "start"
    /\ task' = Set(task, d, "attach")
    /\ running' = Set(running, d, TRUE)
    /\ UNCHANGED <<boot, adapter, up, outages, ended, connected, feed, stopping, link, dataVars>>

\* PostgreSQL: the first attach is part of start().
FirstAttach(d) ==
    /\ task[d] = "attach" /\ adapter[d] = "postgresql"
    /\ IF up[d]
       THEN /\ link' = Set(link, d, "open")
            /\ connected' = Set(connected, d, TRUE)
            /\ feed' = Set(feed, d, "top")
            /\ task' = Set(task, d, "consume")
       ELSE /\ task' = Set(task, d, "start")
            /\ UNCHANGED <<link, connected, feed>>
    /\ UNCHANGED <<boot, adapter, up, outages, ended, running, stopping, dataVars>>

\* MongoDB: the client connects lazily, so start() succeeds and the change
\* stream is opened by a task of its own.
SpawnChangeStream(d) ==
    /\ task[d] = "attach" /\ adapter[d] = "mongodb"
    /\ feed' = Set(feed, d, "open")
    /\ task' = Set(task, d, "consume")
    /\ UNCHANGED <<boot, adapter, up, outages, ended, running, connected, stopping, link, dataVars>>

-----------------------------------------------------------------------------
\* process_notifications (PostgreSQL) and process_events (MongoDB).

\* The loop is left: the supervisor goes on, the change-stream task ends and
\* drops the sender.  The connection is dropped with what is on it.
LeaveLoop(d) ==
    /\ feed' = Set(feed, d, IF adapter[d] = "postgresql" THEN "check" ELSE "done")
    /\ link' = Set(link, d, "none")
    /\ wire' = Set(wire, d, <<>>)
    /\ missed' = Set(missed, d, missed[d] \cup ToSet(wire[d]))

\* The flag is looked at before a change is awaited, not while.
DriveTop(d) ==
    /\ feed[d] = "drive"
    /\ \/ running[d] /\ feed' = Set(feed, d, "next") /\ UNCHANGED <<link, wire, missed>>
       \/ ~running[d] /\ LeaveLoop(d)
    /\ UNCHANGED <<boot, adapter, up, outages, task, ended, running, connected, stopping, chan,
                   changes, published, refused>>

\* Faulty variant: a change that finds the channel full is dropped.
ForwardOrDrop(d, c) ==
    chan' = IF ~Parses(d, c) \/ Len(chan[d]) >= ChanCap THEN chan
            ELSE Set(chan, d, Append(chan[d], c))

\* A change that does not parse is skipped; otherwise the send waits for room.
Forward(d, c) ==
    IF ~Parses(d, c) THEN UNCHANGED chan
    ELSE Len(chan[d]) < ChanCap /\ chan' = Set(chan, d, Append(chan[d], c))

DriveOne(d) ==
    /\ feed[d] = "next" /\ wire[d] # <<>>
    /\ feed' = Set(feed, d, "drive")
    /\ wire' = Set(wire, d, Tail(wire[d]))
    /\ Forward(d, Head(wire[d]))
    /\ UNCHANGED <<boot, adapter, up, outages, task, ended, running, connected, stopping, link,
                   changes, published, missed, refused>>

\* The connection ends.  (MongoDB's driver resumes some errors by itself;
\* these are the others.)
DriveEnds(d) ==
    /\ feed[d] = "next" /\ link[d] = "dead"
    /\ LeaveLoop(d)
    /\ UNCHANGED <<boot, adapter, up, outages, task, ended, running, connected, stopping, chan,
                   changes, published, refused>>

-----------------------------------------------------------------------------
\* The PostgreSQL supervisor.

\* The loop condition: drive the connection, or finish.
SupervisorTop(d) ==
    /\ feed[d] = "top"
    /\ feed' = Set(feed, d, IF ~running[d] THEN "leave"
                            ELSE IF link[d] = "none" THEN "check" ELSE "drive")
    /\ UNCHANGED <<boot, adapter, up, outages, task, ended, running, connected, stopping, link,
                   dataVars>>

\* After drive: still running?  Then the producer is not connected.
SupervisorCheck(d) ==
    /\ feed[d] = "check"
    /\ IF running[d]
       THEN feed' = Set(feed, d, "reattach") /\ connected' = Set(connected, d, FALSE)
       ELSE feed' = Set(feed, d, "leave") /\ UNCHANGED connected
    /\ UNCHANGED <<boot, adapter, up, outages, task, ended, running, stopping, link, dataVars>>

\* Faulty variant: a failed re-attach ends the supervisor's loop.
ReattachOnce(d) ==
    /\ feed[d] = "reattach"
    /\ IF up[d] THEN feed' = Set(feed, d, "mark") /\ link' = Set(link, d, "open")
                ELSE feed' = Set(feed, d, "leave") /\ UNCHANGED link
    /\ UNCHANGED <<boot, adapter, up, outages, task, ended, running, connected, stopping, dataVars>>

\* After the back-off: connect, LISTEN, store the client.
Reattach(d) ==
    /\ feed[d] = "reattach"
    /\ IF up[d] THEN feed' = Set(feed, d, "mark") /\ link' = Set(link, d, "open")
                ELSE feed' = Set(feed, d, "top") /\ UNCHANGED link
    /\ UNCHANGED <<boot, adapter, up, outages, task, ended, running, connected, stopping, dataVars>>

MarkConnected(d) ==
    /\ feed[d] = "mark"
    /\ feed' = Set(feed, d, "top")
    /\ connected' = Set(connected, d, TRUE)
    /\ UNCHANGED <<boot, adapter, up, outages, task, ended, running, stopping, link, dataVars>>

\* Faulty variant: the flag is left as it is.
SupervisorLeaveQuietly(d) ==
    /\ feed[d] = "leave"
    /\ feed' = Set(feed, d, "done") /\ link' = Set(link, d, "none")
    /\ wire' = Set(wire, d, <<>>)
    /\ missed' = Set(missed, d, missed[d] \cup ToSet(wire[d]))
    /\ UNCHANGED <<boot, adapter, up, outages, task, ended, running, connected, stopping, chan,
                   changes, published, refused>>

\* run ends: the flag goes down, the stream and the sender are dropped.
SupervisorLeave(d) ==
    /\ feed[d] = "leave"
    /\ feed' = Set(feed, d, "done") /\ link' = Set(link, d, "none")
    /\ connected' = Set(connected, d, FALSE)
    /\ wire' = Set(wire, d, <<>>)
    /\ missed' = Set(missed, d, missed[d] \cup ToSet(wire[d]))
    /\ UNCHANGED <<boot, adapter, up, outages, task, ended, running, stopping, chan, changes,
                   published, refused>>

-----------------------------------------------------------------------------
\* The MongoDB change stream: opened once, gone for good when it ends.
OpenChangeStream(d) ==
    /\ feed[d] = "open"
    /\ IF up[d] THEN feed' = Set(feed, d, "drive") /\ link' = Set(link, d, "open")
                ELSE feed' = Set(feed, d, "done") /\ UNCHANGED link
    /\ UNCHANGED <<boot, adapter, up, outages, task, ended, running, connected, stopping, dataVars>>

-----------------------------------------------------------------------------
\* spawn_producer_task's loop: what the stream yields goes to the bus.
Consume(d) ==
    /\ task[d] = "consume" /\ chan[d] # <<>>
    /\ chan' = Set(chan, d, Tail(chan[d]))
    /\ \/ published' = Set(published, d, Append(published[d], Head(chan[d]))) /\ UNCHANGED refused
       \/ refused' = Set(refused, d, refused[d] \cup {Head(chan[d])}) /\ UNCHANGED published
    /\ UNCHANGED <<boot, adapter, up, outages, procVars, link, wire, changes, missed>>

\* Faulty variant: the task ends without a word.
StreamEndsSilently(d) ==
    /\ task[d] = "consume" /\ chan[d] = <<>> /\ feed[d] = "done"
    /\ task' = Set(task, d, "ended")
    /\ UNCHANGED <<boot, adapter, up, outages, ended, running, connected, feed, stopping, link,
                   dataVars>>

\* The sender is gone and the channel is empty: next_event returns None.
StreamEnds(d) ==
    /\ task[d] = "consume" /\ chan[d] = <<>> /\ feed[d] = "done"
    /\ task' = Set(task, d, "ended")
    /\ ended' = Set(ended, d, TRUE)
    /\ UNCHANGED <<boot, adapter, up, outages, running, connected, feed, stopping, link, dataVars>>

\* stop(): the running flag first.  PostgreSQL then takes `connected` down and
\* drops the stored client, which ends the connection it belongs to.
Stop(d) ==
    /\ boot = "serving" /\ d \in Handles
    /\ \/ /\ stopping[d] = "no"
          /\ stopping' = Set(stopping, d, IF adapter[d] = "postgresql" THEN "flag" ELSE "done")
          /\ running' = Set(running, d, FALSE)
          /\ UNCHANGED <<connected, link, wire, missed>>
       \/ /\ stopping[d] = "flag"
          /\ stopping' = Set(stopping, d, "client")
          /\ connected' = Set(connected, d, FALSE)
          /\ UNCHANGED <<running, link, wire, missed>>
       \/ /\ stopping[d] = "client"
          /\ stopping' = Set(stopping, d, "done")
          /\ Kill(d)
          /\ UNCHANGED <<running, connected>>
    /\ UNCHANGED <<boot, adapter, up, outages, task, ended, feed, chan, changes, published, refused>>

-----------------------------------------------------------------------------
ProducerStep(d) == \/ StartProducer(d) \/ FirstAttach(d) \/ SpawnChangeStream(d)
                   \/ DriveTop(d) \/ DriveOne(d) \/ DriveEnds(d)
                   \/ SupervisorTop(d) \/ SupervisorCheck(d) \/ Reattach(d) \/ MarkConnected(d)
                   \/ SupervisorLeave(d) \/ OpenChangeStream(d)
ConsumerStep(d) == Consume(d) \/ StreamEnds(d)

ProducersNext ==
    \/ Boot
    \/ \E d \in Databases : \/ Change(d) \/ GoDown(d) \/ ComeBack(d) \/ Stop(d)
                            \/ ProducerStep(d) \/ ConsumerStep(d)

\* The tasks run, a stop that has begun completes, a database comes back.
Fairness ==
    /\ WF_producersVars(Boot)
    /\ \A d \in Databases : /\ WF_producersVars(ProducerStep(d))
                            /\ WF_producersVars(ConsumerStep(d))
                            /\ WF_producersVars(stopping[d] # "no" /\ Stop(d))
                            /\ WF_producersVars(ComeBack(d))

ProducersSpec == ProducersInit /\ [][ProducersNext]_producersVars /\ Fairness

-----------------------------------------------------------------------------
\* ProducerHandle::attached: what the producer says, unless its stream ended.
Attached(d) == IF ended[d] \/ (adapter[d] = "postgresql" /\ ~connected[d]) THEN "no"
               ELSE IF adapter[d] = "postgresql" THEN "yes" ELSE "unknown"

\* health_check: 503 as soon as one producer is detached.
Unavailable == \E d \in Handles : Attached(d) = "no"

TypeOK ==
    /\ boot \in {"bus", "core", "routing", "serving", "refused"}
    /\ adapter \in [Databases -> Adapters] /\ up \in [Databases -> BOOLEAN]
    /\ outages \in 0 .. MaxOutages
    /\ task \in [Databases -> {"none", "start", "attach", "consume", "ended", "failed"}]
    /\ ended \in [Databases -> BOOLEAN] /\ running \in [Databases -> BOOLEAN]
    /\ connected \in [Databases -> BOOLEAN]
    /\ feed \in [Databases -> {"none", "top", "drive", "next", "check", "reattach", "mark", "leave",
                               "open", "done"}]
    /\ link \in [Databases -> {"none", "open", "dead"}]
    /\ stopping \in [Databases -> {"no", "flag", "client", "done"}]
    /\ changes \in [Databases -> 0 .. MaxChanges]
    /\ \A d \in Databases : Len(chan[d]) <= ChanCap

\* A feed that will never deliver another change is reported, for ever and
\* whatever its adapter: the server is not healthy but wrong.
DeadIsReported == \A d \in Databases : (feed[d] = "done") ~> [](Attached(d) = "no" /\ Unavailable)

\* A PostgreSQL producer that nobody stops ends up attached once its database
\* stays up, at whatever point of start() or of the supervisor it went down.
PostgresReattaches == \A d \in Databases :
    adapter[d] = "postgresql" /\ boot # "refused"
        => <>(stopping[d] # "no" \/ boot = "refused" \/ [](link[d] = "open" /\ connected[d]))

\* After stop() has returned a PostgreSQL producer goes down and stays down,
\* even if a re-attach was under way and raises the flag once more.  (Only a
\* start() that is still being retried undoes a stop, by setting `running`.)
StopIsFinal == \A d \in Databases :
    (adapter[d] = "postgresql" /\ stopping[d] = "done" /\ feed[d] # "none" /\ ~running[d])
        ~> [](~connected[d] /\ ended[d])

\* Changes reach the bus in the order they were made and at most once, and
\* every row change made while the feed was connected does, unless it dies
\* with its connection or is refused by the bus: what the trigger writes, the
\* parser takes.  None is published before the router listens.
ChangesAccounted == \A d \in Databases :
    /\ \A i, j \in DOMAIN published[d] : i < j => published[d][i] < published[d][j]
    /\ (1 .. changes[d]) \ Foreign
          \subseteq ToSet(published[d]) \cup refused[d] \cup missed[d] \cup ToSet(chan[d])
                    \cup ToSet(wire[d])
    /\ published[d] # <<>> => boot = "serving"

\* What the comment on START_RETRY_MIN says of every database (README,
\* deviations): one that comes up late needs no restart.
LateDatabaseAttaches == \A d \in Databases :
    d \in Handles ~> (link[d] = "open" \/ stopping[d] # "no")
=============================================================================
