------------------------------- MODULE Client -------------------------------
(***************************************************************************)
(* The Rust client SDK.  The connection loop runs one WebSocket session    *)
(* after the other: connect, authenticate, publish the command channel,    *)
(* send every stored subscription again, then spawn the forwarder of the   *)
(* command channel and read.  Meanwhile the application subscribes and     *)
(* unsubscribes (each call stores first and sends afterwards) and reads    *)
(* the deduplicated events.                                                *)
(*                                                                         *)
(* The socket is in order and may break at any moment.  Of the server's    *)
(* registry the session's part is here: the ids by_sub_id holds and the    *)
(* slots of the filter index that match.  A frame written to the socket is *)
(* handled at once.  The server ignores resume_from.  The length of the    *)
(* back-off is left out: time does not show in the other steps.            *)
(***************************************************************************)
EXTENDS Naturals, SequencesExt

CONSTANTS Subs,      \* subscription ids, each used by one task of the application
          ChanCap,   \* capacity of the command channel (256)
          EventCap,  \* capacity of the event channel (1024)
          SeenLimit, \* event ids remembered (1000)
          Evicted,   \* event ids forgotten when there are more (500)
          MaxEvents, \* bound: events published on the server
          MaxOps,    \* bound: subscribe and unsubscribe calls
          MaxBreaks  \* bound: times the server or the socket fails

ASSUME ClientAssumption == /\ {ChanCap, EventCap, SeenLimit, Evicted} \subseteq Nat \ {0}
                           /\ {MaxEvents, MaxOps, MaxBreaks} \subseteq Nat
                           /\ Evicted <= SeenLimit
                           /\ IsFiniteSet(Subs)

VARIABLES reconnect,  \* reconnect_enabled
          phase,      \* where connection_loop is
          connected,  \* is_connected
          list,       \* ids in self.subscriptions
          lastSeq,    \* per id: last_sequence, 0 for None
          again,      \* ids resubscribe has still to send (under the read lock)
          app,        \* per id: what the call in progress has still to send
          ops,
          holder,     \* ws_tx_holder: "none", "live" or "dead"
          chan,       \* the command channel
          up,         \* the server accepts connections
          sock,       \* the session's socket: "none", "open" or "broken"
          breaks,
          valid,      \* the server accepts the client's token
          authed,     \* the server has authenticated the session
          server,     \* by_sub_id: the session's subscriptions
          orphans,    \* per id: slots of the session that slot_by_sub has lost
          inbound,    \* EVENT frames on their way to the client
          published,  \* number of events published
          current,    \* event handle_text_message is handing over, 0 for none
          seen,       \* seen_event_ids
          events,     \* number of events in the event channel
          receiver,   \* the application holds the receiver
          \* History.
          received,   \* events whose frame the client has read
          given,      \* per event: times it was put into the event channel
          forgotten,  \* events evicted from seen
          denied      \* ids whose last SUBSCRIBE of the session was refused

loopVars == <<phase, connected, again>>
listVars == <<list, lastSeq>>
appVars == <<app, ops>>
registry == <<server, orphans, denied>>
serverVars == <<up, sock, breaks, valid, authed, registry, published>>
inVars == <<current, seen, events, receiver, received, given, forgotten>>
vars == <<reconnect, loopVars, listVars, appVars, holder, chan, serverVars, inbound, inVars>>

Events == 1 .. MaxEvents

Init ==
    /\ reconnect \in BOOLEAN
    /\ phase = "connect" /\ connected = FALSE
    /\ list = {} /\ lastSeq = [s \in Subs |-> 0] /\ again = {}
    /\ app = [s \in Subs |-> "none"] /\ ops = 0
    /\ holder = "none" /\ chan = <<>>
    /\ up = TRUE /\ sock = "none" /\ breaks = 0
    /\ valid = TRUE /\ authed = FALSE
    /\ server = {} /\ orphans = [s \in Subs |-> 0] /\ denied = {}
    /\ inbound = <<>> /\ published = 0
    /\ current = 0 /\ seen = {} /\ events = 0 /\ receiver = TRUE
    /\ received = {} /\ given = [e \in Events |-> 0] /\ forgotten = {}

-----------------------------------------------------------------------------
\* The server's side of the socket.

\* handle_subscribe: ignored before AUTH.  The topic may be denied and a limit
\* may be reached; otherwise subscribe registers a slot, and an id that is
\* registered already keeps its old slot, which slot_by_sub then forgets.
HandleSubscribe(s) ==
    \/ /\ authed
       /\ server' = server \cup {s}
       /\ orphans' = [orphans EXCEPT ![s] = IF s \in server THEN @ + 1 ELSE @]
       /\ denied' = denied \ {s}
    \/ /\ authed
       /\ denied' = denied \cup ({s} \ server)
       /\ UNCHANGED <<server, orphans>>
    \/ ~authed /\ UNCHANGED registry

\* handle_unsubscribe: only the last slot of the id is found and freed.
HandleUnsubscribe(s) ==
    /\ server' = server \ {s} /\ denied' = denied \ {s}
    /\ UNCHANGED orphans

\* A frame written to the socket reaches the server unless the socket is broken.
ServerTakes(op, s) ==
    \/ sock = "open" /\ op = "sub" /\ HandleSubscribe(s)
    \/ sock = "open" /\ op = "unsub" /\ HandleUnsubscribe(s)
    \/ sock # "open" /\ UNCHANGED registry

\* for_each_match: the slots of the session, orphans included.
Slots == {slot \in Subs \X (0 .. MaxOps) :
             \/ slot[2] = 0 /\ slot[1] \in server
             \/ slot[2] \in 1 .. orphans[slot[1]]}

\* An event is published: one EVENT frame for each slot of the session.
PublishEvent ==
    /\ published < MaxEvents
    /\ published' = published + 1
    /\ \E order \in SetToSeqs(Slots) :
          inbound' = inbound \o [i \in DOMAIN order |->
                                    [sub |-> order[i][1], event |-> published + 1]]
    /\ UNCHANGED <<reconnect, loopVars, listVars, appVars, holder, chan, up, sock, breaks, valid,
                   authed, registry, inVars>>

\* The server's side of the session ends: what is left of its slots leads nowhere.
Forgotten == authed' = FALSE /\ server' = {} /\ orphans' = [s \in Subs |-> 0] /\ denied' = {}

\* The socket breaks and the server forgets the session; the server may be
\* unreachable for a while.
Break ==
    /\ breaks < MaxBreaks /\ breaks' = breaks + 1
    /\ up' \in BOOLEAN
    /\ sock' = IF sock = "open" THEN "broken" ELSE sock
    /\ Forgotten
    /\ UNCHANGED <<reconnect, loopVars, listVars, appVars, holder, chan, valid, inbound, published,
                   inVars>>

\* The token expires, or its key is no longer in use; open sessions go on.
Expire ==
    /\ valid
    /\ valid' = FALSE
    /\ UNCHANGED <<reconnect, loopVars, listVars, appVars, holder, chan, up, sock, breaks, authed,
                   registry, published, inbound, inVars>>

ComeBack ==
    /\ ~up
    /\ up' = TRUE
    /\ UNCHANGED <<reconnect, loopVars, listVars, appVars, holder, chan, sock, breaks, valid, authed,
                   registry, inbound, published, inVars>>

-----------------------------------------------------------------------------
\* connection_loop and handle_session.
Connect ==
    /\ phase = "connect"
    /\ IF up THEN phase' = "auth" /\ connected' = TRUE /\ sock' = "open"
             ELSE phase' = "after" /\ UNCHANGED <<connected, sock>>
    /\ UNCHANGED <<reconnect, again, listVars, appVars, holder, chan, up, breaks, valid, authed,
                   registry, published, inbound, inVars>>

\* send_auth: an error ends the session before the command channel changes.
\* handle_auth closes the socket of a token it does not accept; the client
\* notices when it reads.
SendAuth ==
    /\ phase = "auth"
    /\ \/ /\ sock = "open" /\ valid
          /\ phase' = "hold" /\ authed' = TRUE /\ UNCHANGED sock
       \/ /\ sock = "open" /\ ~valid
          /\ phase' = "hold" /\ sock' = "broken" /\ UNCHANGED authed
       \/ /\ sock # "open"
          /\ phase' = "after" /\ UNCHANGED <<sock, authed>>
    /\ UNCHANGED <<reconnect, connected, again, listVars, appVars, holder, chan, up, breaks, valid,
                   registry, published, inbound, inVars>>

\* Faulty variant: the channel is only set for the first session.
PublishChannelOnce ==
    /\ phase = "hold"
    /\ phase' = "lock"
    /\ holder' = IF holder = "none" THEN "live" ELSE holder
    /\ UNCHANGED <<reconnect, connected, again, listVars, appVars, chan, serverVars, inbound, inVars>>

\* The new command channel replaces the one of the last session.
PublishChannel ==
    /\ phase = "hold"
    /\ phase' = "lock"
    /\ holder' = "live"
    /\ UNCHANGED <<reconnect, connected, again, listVars, appVars, chan, serverVars, inbound, inVars>>

\* resubscribe: under the read lock of the list every id is sent again, in
\* the list's order; errors are ignored.
ReadList ==
    /\ phase = "lock"
    /\ phase' = "resub"
    /\ again' = list
    /\ UNCHANGED <<reconnect, connected, listVars, appVars, holder, chan, serverVars, inbound, inVars>>

Resubscribe ==
    /\ phase = "resub"
    /\ \/ \E s \in again : /\ again' = again \ {s}
                           /\ ServerTakes("sub", s)
                           /\ UNCHANGED phase
       \/ again = {} /\ phase' = "read" /\ UNCHANGED <<again, registry>>
    /\ UNCHANGED <<reconnect, connected, listVars, appVars, holder, chan, up, sock, breaks, valid,
                   authed, published, inbound, inVars>>

\* process_incoming ends: the forwarder is aborted and the command channel
\* dies with what it holds, but the holder keeps its sender.
EndSession ==
    /\ phase = "read" /\ current = 0 /\ sock = "broken"
    /\ phase' = "after"
    /\ sock' = "none" /\ inbound' = <<>>
    /\ holder' = "dead" /\ chan' = <<>>
    /\ UNCHANGED <<reconnect, connected, again, listVars, appVars, up, breaks, valid, authed,
                   registry, published, inVars>>

\* Faulty variant: the loop ends with the first session that did not fail to connect.
AfterSessionOnce ==
    /\ phase = "after"
    /\ connected' = FALSE /\ sock' = "none"
    /\ phase' = IF reconnect /\ ~connected THEN "connect" ELSE "stopped"
    /\ UNCHANGED <<reconnect, again, listVars, appVars, holder, chan, up, breaks, valid,
                   authed, registry, published, inbound, inVars>>

\* The rest of an iteration of connection_loop, back-off included.
AfterSession ==
    /\ phase = "after"
    /\ connected' = FALSE /\ sock' = "none"
    /\ phase' = IF reconnect THEN "connect" ELSE "stopped"
    /\ UNCHANGED <<reconnect, again, listVars, appVars, holder, chan, up, breaks, valid,
                   authed, registry, published, inbound, inVars>>

\* The forwarder spawned by handle_session once resubscribe is done.
Forward ==
    /\ phase = "read" /\ chan # <<>>
    /\ ServerTakes(Head(chan).op, Head(chan).id)
    /\ chan' = Tail(chan)
    /\ UNCHANGED <<reconnect, loopVars, listVars, appVars, holder, up, sock, breaks, valid, authed,
                   published, inbound, inVars>>

-----------------------------------------------------------------------------
\* The application.  A write to the list waits for resubscribe's read lock.
Subscribe(s) ==
    /\ app[s] = "none" /\ s \notin list /\ ops < MaxOps
    /\ phase # "resub"
    /\ list' = list \cup {s} /\ lastSeq' = [lastSeq EXCEPT ![s] = 0]
    /\ app' = [app EXCEPT ![s] = "sub"] /\ ops' = ops + 1
    /\ UNCHANGED <<reconnect, loopVars, holder, chan, serverVars, inbound, inVars>>

Unsubscribe(s) ==
    /\ app[s] = "none" /\ s \in list /\ ops < MaxOps
    /\ phase # "resub"
    /\ list' = list \ {s} /\ lastSeq' = [lastSeq EXCEPT ![s] = 0]
    /\ app' = [app EXCEPT ![s] = "unsub"] /\ ops' = ops + 1
    /\ UNCHANGED <<reconnect, loopVars, holder, chan, serverVars, inbound, inVars>>

\* send_subscribe and send_unsubscribe: nothing without a channel, an error
\* when its session has ended, and a wait when it is full.
SendCommand(s) ==
    /\ app[s] # "none"
    /\ app' = [app EXCEPT ![s] = "none"]
    /\ IF holder = "live"
       THEN Len(chan) < ChanCap /\ chan' = Append(chan, [op |-> app[s], id |-> s])
       ELSE UNCHANGED chan
    /\ UNCHANGED <<reconnect, loopVars, listVars, ops, holder, serverVars, inbound, inVars>>

-----------------------------------------------------------------------------
\* dedup_check, for an event that has not been seen: when the set is too
\* large some of its members go, in hash order.
Forget(set) == IF Cardinality(set) > SeenLimit THEN kSubset(Evicted, set) ELSE {{}}

\* Faulty variant: the id is not inserted.
RememberNothing(e, gone) == seen' = seen \ gone /\ forgotten' = forgotten \cup gone

Remember(e, gone) == /\ seen' = (seen \cup {e}) \ gone
                     /\ forgotten' = forgotten \cup gone

\* update_sequence: the subscription may be gone by now.
UpdateSequence(s, e) == lastSeq' = IF s \in list THEN [lastSeq EXCEPT ![s] = e] ELSE lastSeq

\* handle_text_message: a new event updates the sequence of its subscription
\* and is handed over, an old one is skipped.
ReceiveEvent ==
    /\ phase = "read" /\ current = 0 /\ inbound # <<>>
    /\ LET f == Head(inbound) e == f.event
       IN /\ received' = received \cup {e}
          /\ IF e \in seen
             THEN UNCHANGED <<seen, forgotten, lastSeq, current>>
             ELSE /\ \E gone \in Forget(seen \cup {e}) : Remember(e, gone)
                  /\ UpdateSequence(f.sub, e)
                  /\ current' = e
    /\ inbound' = Tail(inbound)
    /\ UNCHANGED <<reconnect, loopVars, list, appVars, holder, chan, serverVars, events, receiver,
                   given>>

\* event_tx.send waits for room; without a receiver the event is lost.
HandOver ==
    /\ current # 0
    /\ current' = 0
    /\ IF receiver
       THEN /\ events < EventCap /\ events' = events + 1
            /\ given' = [given EXCEPT ![current] = @ + 1]
       ELSE UNCHANGED <<events, given>>
    /\ UNCHANGED <<reconnect, loopVars, listVars, appVars, holder, chan, serverVars, inbound, seen,
                   receiver, received, forgotten>>

AppRead ==
    /\ receiver /\ events > 0
    /\ events' = events - 1
    /\ UNCHANGED <<reconnect, loopVars, listVars, appVars, holder, chan, serverVars, inbound, current,
                   seen, receiver, received, given, forgotten>>

DropReceiver ==
    /\ receiver
    /\ receiver' = FALSE /\ events' = 0
    /\ UNCHANGED <<reconnect, loopVars, listVars, appVars, holder, chan, serverVars, inbound, current,
                   seen, received, given, forgotten>>

-----------------------------------------------------------------------------
LoopStep == \/ Connect \/ SendAuth \/ PublishChannel \/ ReadList \/ Resubscribe \/ EndSession
            \/ AfterSession \/ ReceiveEvent \/ HandOver

Next == \/ LoopStep \/ Forward \/ AppRead \/ DropReceiver
        \/ \E s \in Subs : Subscribe(s) \/ Unsubscribe(s) \/ SendCommand(s)
        \/ PublishEvent \/ Break \/ ComeBack \/ Expire

\* The tasks run, the application reads its events and finishes its calls, and
\* the server comes back.
Fairness == /\ WF_vars(LoopStep) /\ WF_vars(Forward) /\ WF_vars(AppRead) /\ WF_vars(ComeBack)
            /\ \A s \in Subs : WF_vars(SendCommand(s))

Spec == Init /\ [][Next]_vars /\ Fairness

-----------------------------------------------------------------------------
TypeOK ==
    /\ reconnect \in BOOLEAN /\ connected \in BOOLEAN /\ up \in BOOLEAN
    /\ valid \in BOOLEAN /\ authed \in BOOLEAN /\ orphans \in [Subs -> 0 .. MaxOps]
    /\ phase \in {"connect", "auth", "hold", "lock", "resub", "read", "after", "stopped"}
    /\ list \subseteq Subs /\ again \subseteq Subs
    /\ server \subseteq Subs /\ denied \subseteq Subs
    /\ lastSeq \in [Subs -> 0 .. MaxEvents] /\ app \in [Subs -> {"none", "sub", "unsub"}]
    /\ ops \in 0 .. MaxOps /\ breaks \in 0 .. MaxBreaks /\ published \in 0 .. MaxEvents
    /\ holder \in {"none", "live", "dead"} /\ Len(chan) <= ChanCap
    /\ sock \in {"none", "open", "broken"} /\ receiver \in BOOLEAN
    /\ current \in 0 .. MaxEvents /\ events \in 0 .. EventCap
    /\ seen \subseteq Events /\ Cardinality(seen) <= SeenLimit
    /\ received \subseteq Events /\ forgotten \subseteq Events /\ given \in [Events -> Nat]

Settled == /\ phase = "read" /\ sock = "open" /\ chan = <<>>
           /\ \A s \in Subs : app[s] = "none"

\* Whenever a session is up and no command is on its way, the server knows
\* exactly the subscriptions of the client, but for those it refused: a call
\* that races with a reconnect is in the list resubscribe reads, or in the
\* channel of the new session, or in both, and no command overtakes another of
\* its id.
SubsAgree == Settled => server = list \ denied

\* An event the client has read is handed to the application once, however
\* many subscriptions and sessions bring it; more often only if its id was
\* evicted from the set of seen ids, never not at all.
HandedOverOnce == \A e \in received \ {current} :
    \/ given[e] = 1
    \/ given[e] > 1 /\ e \in forgotten
    \/ given[e] = 0 /\ ~receiver

\* With reconnection enabled and a token the server accepts, the client ends up
\* connected, with all its subscriptions on the server but the refused ones,
\* once the breaks are over.
Reconverges ==
    reconnect => <>[](valid => connected /\ Settled /\ authed /\ server = list \ denied)

\* tests/e2e.rs:341, test_websocket_unsubscribe_stops_delivery.  Not so for an
\* id that a reconnect sent twice (README, deviations).
UnsubscribedIsSilent == Settled => \A slot \in Slots : slot[1] \in list

\* What docs/architecture.md says of resume_from (README, deviations): no
\* event that was published after the first SUBSCRIBE is missed.
NoGap == \A e \in Events : Settled /\ inbound = <<>> /\ current = 0 /\ e <= published
                           /\ (\E d \in received : d < e) /\ list # {} => e \in received
=============================================================================
