------------------------------ MODULE Session -------------------------------
(***************************************************************************)
(* One WebSocket connection of the gateway (ws_handler/): the reader task, *)
(* the writer task and the connection task (handle_websocket) that spawns  *)
(* both, waits for the first of them to end, sees the close handshake      *)
(* through and cleans up.  The client sends frames, may send Close, and    *)
(* may vanish.                                                             *)
(*                                                                         *)
(* The registry, the presence tracker and the connection manager appear as *)
(* what they hold for this connection.  Elapsed time is nondeterministic:  *)
(* a write may be fast, slow (> 100 ms) or fail (error or 500 ms timeout), *)
(* and a bounded wait may run out at any moment.                           *)
(***************************************************************************)
EXTENDS Naturals, Sequences

CONSTANTS CtrlCap,      \* capacity of the control channel (64)
          SlowLimit,    \* consecutive slow writes tolerated (10)
          BatchSize,    \* items of a SUBSCRIBE_BATCH frame
          MaxRequests,  \* bound: frames the client sends
          MaxEvents     \* bound: events the fan-out queues for the connection

ASSUME SessionAssumption == /\ CtrlCap \in Nat \ {0} /\ SlowLimit \in Nat
                            /\ MaxRequests \in Nat /\ MaxEvents \in Nat
                            /\ BatchSize \in Nat \ {0}

VARIABLES inbound,     \* frames the client sent, not yet read
          requests,    \* number of frames sent by the client
          peer,        \* "open", "closing" (sent Close) or "gone"
          reader,      \* "reading", "batch", "reply" (in send_ctrl) or "ended"
          reply,       \* control frame the reader is sending, and its Action
          ending,      \* Ending of reader_loop, "none" before
          auth,        \* AuthState.authenticated
          items,       \* SUBSCRIBE_BATCH items the reader has still to handle
          ctrl,        \* the control channel
          replies,     \* history: control frames that entered the channel
          events,      \* number of events in send_rx
          queued,      \* number of events queued so far
          writer,      \* "select", "sending", "closing" or "done"
          frame,       \* frame being sent
          slowCount,   \* consecutive slow writes
          sink,        \* "writer", "handed" (returned by writer_loop) or "dropped"
          failed,      \* history: a write failed or timed out
          goodbye,     \* the oneshot: "open", "sent" or "dropped"
          wire,        \* frames put on the wire
          task,        \* control state of handle_websocket
          orphan,      \* history: the reader was left running at clean-up
          subscribed,  \* the registry holds a subscription of this connection
          present,     \* the presence tracker lists this connection
          registered   \* the connection manager lists this connection

clientVars == <<requests, peer>>
readerVars == <<reader, reply, ending, auth, items, replies>>
writerVars == <<writer, frame, slowCount, failed, wire>>
stateVars == <<subscribed, present, registered>>
vars == <<inbound, clientVars, readerVars, ctrl, events, queued, writerVars, sink, goodbye, task,
          orphan, stateVars>>

Requests == {"auth", "badAuth", "subscribe", "batch", "unsubscribe", "track", "untrack", "ping",
             "publish"}
NoReply == [frame |-> "none", close |-> FALSE]

Init ==
    /\ inbound = <<>> /\ requests = 0 /\ peer = "open"
    /\ reader = "reading" /\ reply = NoReply /\ ending = "none" /\ auth = FALSE
    /\ items = 0
    /\ ctrl = <<>> /\ replies = <<>>
    /\ events = 0 /\ queued = 0
    /\ writer = "select" /\ frame = "none" /\ slowCount = 0 /\ failed = FALSE /\ wire = <<>>
    /\ sink = "writer" /\ goodbye = "open"
    /\ task = "select" /\ orphan = FALSE
    /\ subscribed = FALSE /\ present = FALSE
    /\ registered = TRUE          \* conn_manager.register

-----------------------------------------------------------------------------
\* The client and the fan-out workers (the environment of the three tasks).
ClientSend(r) ==
    /\ peer = "open" /\ requests < MaxRequests
    /\ requests' = requests + 1
    /\ inbound' = Append(inbound, r)
    /\ UNCHANGED <<peer, readerVars, ctrl, events, queued, writerVars, sink, goodbye, task,
                   orphan, stateVars>>

ClientClose ==
    /\ peer = "open"
    /\ peer' = "closing"
    /\ inbound' = Append(inbound, "close")
    /\ UNCHANGED <<requests, readerVars, ctrl, events, queued, writerVars, sink, goodbye, task,
                   orphan, stateVars>>

ClientGone ==
    /\ peer # "gone"
    /\ peer' = "gone"
    /\ UNCHANGED <<inbound, requests, readerVars, ctrl, events, queued, writerVars, sink, goodbye,
                   task, orphan, stateVars>>

\* An event matches the subscription and reaches the connection's send queue.
FanOut ==
    /\ subscribed /\ registered /\ writer # "done"
    /\ queued < MaxEvents
    /\ queued' = queued + 1
    /\ events' = events + 1
    /\ UNCHANGED <<inbound, clientVars, readerVars, ctrl, writerVars, sink, goodbye, task, orphan,
                   stateVars>>

-----------------------------------------------------------------------------
\* reader_loop and dispatch_text: one frame.  The registry and presence calls
\* of a handler come before its reply; without a reply it reads on.
Answer(f, close) == /\ reader' = "reply"
                    /\ reply' = [frame |-> f, close |-> close]
                    /\ UNCHANGED ending

Silent == UNCHANGED <<reader, reply, ending>>

\* handle_auth: the provider accepts the token, or the connection is given up.
HandleAuth(r) ==
    \/ /\ r = "auth" /\ auth' = TRUE
       /\ Answer("authOk", FALSE)
       /\ UNCHANGED <<items, subscribed, present>>
    \/ /\ r = "badAuth" /\ Answer("authFailed", TRUE)
       /\ UNCHANGED <<auth, items, subscribed, present>>

\* registry.subscribe succeeds, or is refused for capacity.
SubscribeItem == \/ subscribed' = TRUE /\ Answer("subscribed", FALSE)
                 \/ UNCHANGED subscribed /\ Answer("capacityExceeded", FALSE)

\* handle_subscribe: without authentication, or when the provider does not
\* authorize the topic, nothing happens and nothing is said.
HandleSubscribe(r) ==
    /\ r = "subscribe"
    /\ \/ auth /\ SubscribeItem
       \/ Silent /\ UNCHANGED subscribed
    /\ UNCHANGED <<auth, items, present>>

\* handle_subscribe_batch: the items are handled one after the other.
HandleSubscribeBatch(r) ==
    /\ r = "batch"
    /\ IF auth
       THEN /\ items' = BatchSize /\ reader' = "batch"
            /\ UNCHANGED <<reply, ending>>
       ELSE Silent /\ UNCHANGED items
    /\ UNCHANGED <<auth, subscribed, present>>

HandleUnsubscribe(r) ==
    /\ r = "unsubscribe" /\ subscribed' = FALSE
    /\ Answer("unsubscribed", FALSE)
    /\ UNCHANGED <<auth, items, present>>

\* handle_track: gated like handle_publish.
HandleTrack(r) ==
    /\ r = "track"
    /\ \/ auth /\ present' = TRUE
       \/ UNCHANGED present
    /\ Silent /\ UNCHANGED <<auth, items, subscribed>>

HandleUntrack(r) ==
    /\ r = "untrack" /\ present' = FALSE
    /\ Silent /\ UNCHANGED <<auth, items, subscribed>>

HandlePing(r) ==
    /\ r = "ping" /\ Answer("pong", FALSE)
    /\ UNCHANGED <<auth, items, subscribed, present>>

\* handle_publish, handle_broadcast and frames that do not parse leave the
\* session alone, whatever becomes of the event.
HandlePublish(r) ==
    /\ r = "publish"
    /\ Silent /\ UNCHANGED <<auth, items, subscribed, present>>

ReadRequest ==
    /\ reader = "reading" /\ inbound # <<>>
    /\ inbound' = Tail(inbound)
    /\ LET r == Head(inbound)
       IN  \/ HandleAuth(r) \/ HandleSubscribe(r) \/ HandleSubscribeBatch(r)
           \/ HandleUnsubscribe(r) \/ HandleTrack(r) \/ HandleUntrack(r) \/ HandlePing(r)
           \/ HandlePublish(r)
    /\ UNCHANGED <<clientVars, replies, ctrl, events, queued, writerVars, sink, goodbye, task,
                   orphan, registered>>

\* handle_subscribe_batch: the next item; a denied one is answered here.
BatchItem ==
    /\ reader = "batch"
    /\ items' = items - 1
    /\ \/ SubscribeItem
       \/ UNCHANGED subscribed /\ Answer("authzDenied", FALSE)
    /\ UNCHANGED <<inbound, clientVars, auth, replies, ctrl, events, queued, writerVars, sink,
                   goodbye, task, orphan, present, registered>>

\* The reader goes on with the handler's Action.
AfterReply == /\ reader' = IF reply.close THEN "ended" ELSE IF items > 0 THEN "batch" ELSE "reading"
              /\ ending' = IF reply.close THEN "Gone" ELSE ending
              /\ reply' = NoReply
              /\ UNCHANGED <<inbound, clientVars, auth, items, events, queued, writerVars, sink,
                             goodbye, task, orphan, stateVars>>

\* Faulty variant: the reader waits for a writer that has ended.
SendCtrlWaits ==
    /\ reader = "reply"
    /\ writer # "done" /\ Len(ctrl) < CtrlCap
    /\ ctrl' = Append(ctrl, reply.frame)
    /\ replies' = Append(replies, reply.frame)
    /\ AfterReply

\* send_ctrl: waits for room in the control channel; once the writer has
\* dropped ctrl_rx the frame is discarded.
SendCtrl ==
    /\ reader = "reply"
    /\ \/ /\ writer # "done" /\ Len(ctrl) < CtrlCap
          /\ ctrl' = Append(ctrl, reply.frame)
          /\ replies' = Append(replies, reply.frame)
       \/ /\ writer = "done"
          /\ UNCHANGED <<ctrl, replies>>
    /\ AfterReply

\* Message::Close, or the end of the stream.
ReadClose ==
    /\ reader = "reading"
    /\ \/ /\ inbound # <<>> /\ Head(inbound) = "close"
          /\ ending' = "ClientClose"
       \/ /\ inbound = <<>> /\ peer = "gone"
          /\ ending' = "Gone"
    /\ reader' = "ended"
    /\ UNCHANGED <<inbound, clientVars, reply, auth, items, replies, ctrl, events, queued,
                   writerVars, sink, goodbye, task, orphan, stateVars>>

-----------------------------------------------------------------------------
\* writer_loop: the biased select takes control frames first, then the
\* goodbye (also when its sender was dropped), then events.
TakeCtrl ==
    /\ writer = "select" /\ ctrl # <<>>
    /\ frame' = Head(ctrl)
    /\ ctrl' = Tail(ctrl)
    /\ writer' = "sending"
    /\ UNCHANGED <<inbound, clientVars, readerVars, events, queued, slowCount, failed, wire, sink,
                   goodbye, task, orphan, stateVars>>

\* Faulty variant: the select is not biased.
TakeGoodbyeUnbiased ==
    /\ writer = "select" /\ goodbye # "open"
    /\ writer' = "closing"
    /\ UNCHANGED <<inbound, clientVars, readerVars, ctrl, events, queued, frame, slowCount, failed,
                   wire, sink, goodbye, task, orphan, stateVars>>

TakeGoodbye ==
    /\ writer = "select" /\ ctrl = <<>> /\ goodbye # "open"
    /\ writer' = "closing"
    /\ UNCHANGED <<inbound, clientVars, readerVars, ctrl, events, queued, frame, slowCount, failed,
                   wire, sink, goodbye, task, orphan, stateVars>>

TakeEvent ==
    /\ writer = "select" /\ ctrl = <<>> /\ goodbye = "open" /\ events > 0
    /\ events' = events - 1
    /\ frame' = "event"
    /\ writer' = "sending"
    /\ UNCHANGED <<inbound, clientVars, readerVars, ctrl, queued, slowCount, failed, wire, sink,
                   goodbye, task, orphan, stateVars>>

\* writer_loop returns: its channel ends are dropped; Some(ws_sink) hands the
\* sink to the connection task.
WriterReturns(s) == /\ writer' = "done"
                    /\ ctrl' = <<>>
                    /\ events' = 0
                    /\ sink' = s

\* send_frame and check_slow_client: written in time, ...
SendFast ==
    /\ writer = "sending" /\ peer # "gone"
    /\ wire' = Append(wire, frame)
    /\ slowCount' = 0
    /\ frame' = "none" /\ writer' = "select"
    /\ UNCHANGED <<inbound, clientVars, readerVars, ctrl, events, queued, failed, sink, goodbye,
                   task, orphan, stateVars>>

\* ... written, but slowly (too many in a row end the writer), ...
SendSlow ==
    /\ writer = "sending" /\ peer # "gone"
    /\ wire' = Append(wire, frame)
    /\ slowCount' = slowCount + 1
    /\ frame' = "none"
    /\ IF slowCount + 1 > SlowLimit
       THEN WriterReturns("handed")
       ELSE /\ writer' = "select"
            /\ UNCHANGED <<ctrl, events, sink>>
    /\ UNCHANGED <<inbound, clientVars, readerVars, queued, failed, goodbye, task, orphan,
                   stateVars>>

\* ... or not written at all.
SendFails ==
    /\ writer = "sending"
    /\ failed' = TRUE /\ frame' = "none"
    /\ WriterReturns("handed")
    /\ UNCHANGED <<inbound, clientVars, readerVars, queued, slowCount, wire, goodbye, task, orphan,
                   stateVars>>

\* send_close by the writer: on the wire, or given up after CLOSE_TIMEOUT.
WriterClose ==
    /\ writer = "closing"
    /\ \/ /\ peer # "gone"
          /\ wire' = Append(wire, "close")
          /\ UNCHANGED failed
       \/ /\ failed' = TRUE
          /\ UNCHANGED wire
    /\ WriterReturns("dropped")
    /\ UNCHANGED <<inbound, clientVars, readerVars, queued, frame, slowCount, goodbye, task, orphan,
                   stateVars>>

-----------------------------------------------------------------------------
\* Faulty variant: clean-up starts without waiting for the reader.
WriterEndedFirstHurries ==
    /\ task = "select" /\ writer = "done"
    /\ task' = "cleanup"
    /\ UNCHANGED <<inbound, clientVars, readerVars, ctrl, events, queued, writerVars, sink, goodbye,
                   orphan, stateVars>>

\* handle_websocket: the select.  The write side ended first ...
WriterEndedFirst ==
    /\ task = "select" /\ writer = "done"
    /\ task' = "awaitReader"
    /\ UNCHANGED <<inbound, clientVars, readerVars, ctrl, events, queued, writerVars, sink, goodbye,
                   orphan, stateVars>>

\* ... or the read side: a client's Close is passed on to the writer.
ReaderEndedFirst ==
    /\ task = "select" /\ reader = "ended"
    /\ IF ending = "ClientClose"
       THEN goodbye' = "sent" /\ task' = "awaitWriter"
       ELSE task' = "cleanup" /\ UNCHANGED goodbye
    /\ UNCHANGED <<inbound, clientVars, readerVars, ctrl, events, queued, writerVars, sink, orphan,
                   stateVars>>

\* timeout(GOODBYE_GRACE, reader): a Close is answered with the sink that was
\* handed back; if the time runs out the reader is left running.
AwaitReader ==
    /\ task = "awaitReader"
    /\ \/ /\ reader = "ended" /\ ending = "ClientClose" /\ sink = "handed"
          /\ task' = "answer"
          /\ UNCHANGED <<orphan, sink>>
       \/ /\ reader = "ended" /\ (ending = "Gone" \/ sink # "handed")
          /\ task' = "cleanup" /\ sink' = "dropped"
          /\ UNCHANGED orphan
       \/ /\ reader # "ended"
          /\ orphan' = TRUE
          /\ task' = "cleanup" /\ sink' = "dropped"
    /\ UNCHANGED <<inbound, clientVars, readerVars, ctrl, events, queued, writerVars, goodbye,
                   stateVars>>

\* send_close by the connection task.
AnswerClose ==
    /\ task = "answer"
    /\ \/ /\ peer # "gone"
          /\ wire' = Append(wire, "close")
          /\ UNCHANGED failed
       \/ /\ failed' = TRUE
          /\ UNCHANGED wire
    /\ task' = "cleanup" /\ sink' = "dropped"
    /\ UNCHANGED <<inbound, clientVars, readerVars, ctrl, events, queued, writer, frame, slowCount,
                   goodbye, orphan, stateVars>>

\* timeout(GOODBYE_GRACE, writer): whatever the writer returns is dropped.
AwaitWriter ==
    /\ task = "awaitWriter"
    /\ sink' = IF sink = "handed" THEN "dropped" ELSE sink
    /\ task' = "cleanup"
    /\ UNCHANGED <<inbound, clientVars, readerVars, ctrl, events, queued, writerVars, goodbye,
                   orphan, stateVars>>

\* The clean-up: presence, then subscriptions, then the connection entry; the
\* goodbye sender goes out of scope with the function.
CleanupPresence ==
    /\ task = "cleanup"
    /\ present' = FALSE
    /\ task' = "cleanupSubs"
    /\ UNCHANGED <<inbound, clientVars, readerVars, ctrl, events, queued, writerVars, sink, goodbye,
                   orphan, subscribed, registered>>

CleanupSubs ==
    /\ task = "cleanupSubs"
    /\ subscribed' = FALSE
    /\ task' = "cleanupConn"
    /\ UNCHANGED <<inbound, clientVars, readerVars, ctrl, events, queued, writerVars, sink, goodbye,
                   orphan, present, registered>>

CleanupConn ==
    /\ task = "cleanupConn"
    /\ registered' = FALSE
    /\ goodbye' = IF goodbye = "open" THEN "dropped" ELSE goodbye
    /\ task' = "done"
    /\ UNCHANGED <<inbound, clientVars, readerVars, ctrl, events, queued, writerVars, sink, orphan,
                   subscribed, present>>

-----------------------------------------------------------------------------
Client == (\E r \in Requests : ClientSend(r)) \/ ClientClose \/ ClientGone \/ FanOut
Reader == ReadRequest \/ BatchItem \/ SendCtrl \/ ReadClose
Writer == TakeCtrl \/ TakeGoodbye \/ TakeEvent \/ SendFast \/ SendSlow \/ SendFails \/ WriterClose
Task == \/ WriterEndedFirst \/ ReaderEndedFirst \/ AwaitReader \/ AnswerClose \/ AwaitWriter
        \/ CleanupPresence \/ CleanupSubs \/ CleanupConn

Next == Client \/ Reader \/ Writer \/ Task

\* tokio runs every task that is ready; writes are bounded by their timeout.
Fairness == WF_vars(Reader) /\ WF_vars(Writer) /\ WF_vars(Task)

Spec == Init /\ [][Next]_vars /\ Fairness

-----------------------------------------------------------------------------
Frames == {"authOk", "authFailed", "subscribed", "capacityExceeded", "authzDenied",
           "unsubscribed", "pong"}

TypeOK ==
    /\ inbound \in Seq(Requests \cup {"close"})
    /\ requests \in 0..MaxRequests /\ peer \in {"open", "closing", "gone"}
    /\ reader \in {"reading", "batch", "reply", "ended"} /\ items \in 0..BatchSize
    /\ reply \in [frame : Frames \cup {"none"}, close : BOOLEAN]
    /\ ending \in {"none", "ClientClose", "Gone"} /\ auth \in BOOLEAN
    /\ ctrl \in Seq(Frames) /\ Len(ctrl) <= CtrlCap /\ replies \in Seq(Frames)
    /\ events \in 0..MaxEvents /\ queued \in 0..MaxEvents
    /\ writer \in {"select", "sending", "closing", "done"}
    /\ frame \in Frames \cup {"none", "event"}
    /\ slowCount \in 0..(SlowLimit + 1) /\ failed \in BOOLEAN
    /\ sink \in {"writer", "handed", "dropped"} /\ goodbye \in {"open", "sent", "dropped"}
    /\ wire \in Seq(Frames \cup {"event", "close"})
    /\ task \in {"select", "awaitReader", "answer", "awaitWriter", "cleanup", "cleanupSubs",
                 "cleanupConn", "done"}
    /\ orphan \in BOOLEAN
    /\ subscribed \in BOOLEAN /\ present \in BOOLEAN /\ registered \in BOOLEAN

Closed == \E i \in DOMAIN wire : wire[i] = "close"

\* The control frames on the wire are those of s, in the order of s.
ControlOnWire(s) ==
    \E place \in [DOMAIN s -> DOMAIN wire] :
        /\ \A i, j \in DOMAIN s : i < j => place[i] < place[j]
        /\ \A i \in DOMAIN s : wire[place[i]] = s[i]
        /\ \A k \in DOMAIN wire : wire[k] \in Frames => \E i \in DOMAIN s : place[i] = k

\* writer.rs:93: "a server-side close never overtakes the frame that explains
\* it".  When the writer sends Close, every control frame the reader ever queued
\* is already on the wire, in order, and nothing follows; and although two tasks
\* can send Close, it is sent at most once.
CloseOvertakesNothing ==
    /\ \A i, j \in DOMAIN wire : wire[i] = "close" /\ wire[j] = "close" => i = j
    /\ Closed /\ ~failed /\ slowCount <= SlowLimit =>
          wire[Len(wire)] = "close" /\ ControlOnWire(replies)

\* unsubscribe.rs:43, connection.rs:125: when handle_websocket returns, nothing
\* of the connection is left in the registry, presence tracker or manager.
NoLeak == task = "done" => ~subscribed /\ ~present /\ ~registered

\* ... which the code achieves unless it gave up waiting for the reader.
NoLeakWithoutOrphan == orphan \/ NoLeak

\* writer.rs:101, "Handing the sink back is what lets the connection task answer
\* anyway": when the client closed, no write failed and both tasks were awaited,
\* the Close was answered by the time everything has ended.
CloseAnswered ==
    task = "done" /\ writer = "done" /\ ending = "ClientClose" /\ ~orphan /\ ~failed /\ peer # "gone"
        => Closed

\* All three tasks of a vanished client end and its state is cleaned up: none
\* waits for another for ever, even when the control channel is full, the writer
\* is stuck in a write or a close is being waited for.
TasksEnd == (peer = "gone") ~> (writer = "done" /\ reader = "ended" /\ task = "done")
=============================================================================
