-------------------------------- MODULE Irc ---------------------------------
(***************************************************************************)
(* The IRC bus: publishers that speak through per-user sessions, the       *)
(* session pool with its reaper, the reconnecting client behind every      *)
(* session, and the shared service connection that is the only way in.     *)
(*                                                                         *)
(* The IRC server is external: it refuses a nick in use, refuses what a    *)
(* connection says before it is registered or in a channel it has not      *)
(* joined, relays a message to the other members of the channel, and may   *)
(* keep the nick of a connection that was cut for a while (a ghost).       *)
(* A message is a number, and its text is one line: publish does not look  *)
(* for line breaks in a text, and what follows one would reach the server  *)
(* as a line of its own.  Delays are left out: a client that waits to      *)
(* reconnect, or finds the server unreachable, is one that has not         *)
(* connected yet.                                                          *)
(***************************************************************************)
EXTENDS Naturals, Sequences, FiniteSets

CONSTANTS Users,        \* platform users
          MaxCalls,     \* bound: calls of IrcPublisher::publish under way at once
          Topics,       \* <<namespace, leading hashes, room>> published on
          Namespace,    \* the bridged namespace
          Channels,     \* the channels the service joins (empty by default)
          CmdCap,       \* capacity of a session's command channel (256)
          MaxSessions,  \* bound: per-user sessions opened
          MaxMsgs,      \* bound: messages published
          MaxCuts,      \* bound: connections cut
          MaxChanges    \* bound: sessions opened and connections cut, together

ASSUME IrcAssumption == /\ MaxCalls \in Nat /\ CmdCap \in Nat \ {0} /\ MaxSessions \in Nat
                        /\ MaxMsgs \in Nat /\ MaxCuts \in Nat /\ MaxChanges \in Nat

Service == 0
Opened == 1 .. MaxSessions
Sessions == {Service} \cup Opened
None == 0           \* "no session" in the pool: the service is not in it

VARIABLES users,     \* SessionManager.users: the session of each user, or None
          owner,     \* the users the sessions were opened for, in order
          cmd,       \* per session: its command channel
          joined,    \* per session: UserHandle.joined
          calls,     \* the calls of publish under way
          reap,      \* reap_idle: the users still to reap, and the handle being told
          task,      \* per session: run_client
          tries,     \* per session: nick_try of the present connection
          lines,     \* per session: lines sent by the server, not yet read
          link,      \* per session: its connection
          nick,      \* server: the nick each connection is registered with
          members,   \* server: the channels each connection has joined
          ghosts,    \* server: nicks of connections it has not noticed are gone
          sent,      \* messages published
          inbound,   \* events forwarded to the bus, in order
          cuts,
          \* History.
          accepted,  \* messages the server relayed, in order
          lost,      \* messages written to a dead connection, or refused
          said,      \* the channel of each message published
          torn       \* messages of which the service has read a part only

poolVars == <<users, owner, joined>>
serverVars == <<nick, members, ghosts>>
clientVars == <<task, tries, lines, link>>
history == <<accepted, lost, said, torn>>
vars == <<poolVars, cmd, calls, reap, clientVars, serverVars, sent, inbound, cuts, history>>

NoNick == <<>>

Init ==
    /\ users = [u \in Users |-> None] /\ owner = <<>>
    /\ cmd = [s \in Sessions |-> <<>>]
    /\ joined = [s \in Sessions |-> {}]
    /\ calls = {}
    /\ reap = [users |-> {}, telling |-> None]
    /\ task = [s \in Sessions |-> IF s = Service THEN "connect" ELSE "off"]
    /\ tries = [s \in Sessions |-> 0] /\ lines = [s \in Sessions |-> <<>>]
    /\ link = [s \in Sessions |-> "none"]
    /\ nick = [s \in Sessions |-> NoNick] /\ members = [s \in Sessions |-> {}]
    /\ ghosts = {}
    /\ sent = 0 /\ inbound = <<>> /\ cuts = 0
    /\ accepted = <<>> /\ lost = {} /\ said = <<>> /\ torn = {}

-----------------------------------------------------------------------------
\* Topics and channels.

\* A room keeps the hash it comes with, or gets one.
TopicToChannel(t) == <<IF t[2] = 0 THEN 1 ELSE t[2], t[3]>>

Bridged == {t \in Topics : t[1] = Namespace}

\* All leading hashes are trimmed.
ChannelToTopic(ch) == <<Namespace, 0, ch[2]>>

Rooms == {TopicToChannel(t) : t \in Bridged}

\* to_irc_nick is deterministic in the user and taken to be injective;
\* retry_nick appends the number of the attempt.
NickOf(s, try) == <<IF s = Service THEN "service" ELSE owner[s], try>>

-----------------------------------------------------------------------------
\* The server (external).

InUse(nk) == nk \in ghosts \/ \E s \in Sessions : nick[s] = nk

Registered(s) == link[s] = "up" /\ nick[s] # NoNick

\* A NICK line: accepted, or answered with 433.
ServerNick(s, nk) == nick' = IF InUse(nk) THEN nick ELSE [nick EXCEPT ![s] = nk]

Refusal == [verb |-> "433", ch |-> <<>>, m |-> 0]

\* The server hears of the end of a connection, or keeps a ghost.
ServerForgets(s) ==
    /\ nick' = [nick EXCEPT ![s] = NoNick]
    /\ members' = [members EXCEPT ![s] = {}]

Relay(s, c, unread) ==
    lines' = [t \in Sessions |->
                IF t # s /\ c.ch \in members[t] THEN Append(unread[t], c) ELSE unread[t]]

\* What the server does with a command line of s; unread is what the clients
\* have still to read.
ServerLine(s, c, unread) ==
    CASE c.verb = "QUIT" ->
            /\ ServerForgets(s)
            /\ link' = [link EXCEPT ![s] = "cut"]
            /\ lines' = unread /\ UNCHANGED <<accepted, lost>>
      [] c.verb = "JOIN" ->
            /\ members' = IF Registered(s) THEN [members EXCEPT ![s] = @ \cup {c.ch}] ELSE members
            /\ lines' = unread /\ UNCHANGED <<nick, link, accepted, lost>>
      [] c.verb = "PRIVMSG" ->
            /\ IF Registered(s) /\ c.ch \in members[s]
               THEN Relay(s, c, unread) /\ accepted' = Append(accepted, c.m) /\ UNCHANGED lost
               ELSE lost' = lost \cup {c.m} /\ lines' = unread /\ UNCHANGED accepted
            /\ UNCHANGED <<nick, members, link>>

\* A connection is cut: what the server had sent is gone, and the server may
\* hold on to the nick (its own ping timeout is not modelled: the ghost stays).
Cut(s) ==
    /\ link[s] = "up" /\ cuts < MaxCuts /\ Len(owner) + cuts < MaxChanges
    /\ cuts' = cuts + 1
    /\ link' = [link EXCEPT ![s] = "cut"]
    /\ lines' = [lines EXCEPT ![s] = <<>>]
    /\ ServerForgets(s)
    /\ \/ ghosts' = ghosts \cup ({nick[s]} \ {NoNick})
       \/ UNCHANGED ghosts
    /\ UNCHANGED <<poolVars, cmd, calls, reap, task, tries, sent, inbound, history>>

-----------------------------------------------------------------------------
\* IrcPublisher::publish and SessionManager::publish_as_user.

Holders(s) == {call \in calls : call.s = s}

\* No UserHandle is left: the senders of the command channel are gone.
Closed(s) == /\ s \in Opened
             /\ \A u \in Users : users[u] # s
             /\ Holders(s) = {}
             /\ reap.telling # s

Join(ch) == [verb |-> "JOIN", ch |-> ch, m |-> 0]
Say(ch, m) == [verb |-> "PRIVMSG", ch |-> ch, m |-> m]
Quit == [verb |-> "QUIT", ch |-> <<>>, m |-> 0]

\* get_or_create: the session in the pool, or a new one and its task.  The
\* entry is looked up once more when it is created, so the first look-up
\* decides nothing.
GetOrCreate(u, s) ==
    LET fresh == users[u] = None
    IN  /\ fresh => Len(owner) + cuts < MaxChanges
        /\ s = IF fresh THEN Len(owner) + 1 ELSE users[u]
        /\ users' = [users EXCEPT ![u] = s]
        /\ owner' = IF fresh THEN Append(owner, u) ELSE owner
        /\ task' = IF fresh THEN [task EXCEPT ![s] = "connect"] ELSE task

\* The session, then the decision to join under its lock: `joined` is touched
\* nowhere else, so nothing is lost by deciding right after.
PublishAsUser(u, t) ==
    LET ch == TopicToChannel(t)
    IN  /\ Cardinality(calls) < MaxCalls /\ sent < MaxMsgs
        /\ sent' = sent + 1
        /\ \E s \in Opened :
              /\ GetOrCreate(u, s)
              /\ joined' = [joined EXCEPT ![s] = @ \cup {ch}]
              /\ calls' = calls \cup {[at |-> IF ch \in joined[s] THEN "say" ELSE "join",
                                       s |-> s, ch |-> ch, m |-> sent']}
        /\ said' = Append(said, ch)
        /\ UNCHANGED <<cmd, reap, tries, lines, link, serverVars, inbound, cuts, accepted, lost,
                       torn>>

\* An event without a user goes out on the service connection, whatever
\* channels that has joined.
PublishAsService(t) ==
    LET ch == TopicToChannel(t)
    IN  /\ Cardinality(calls) < MaxCalls /\ sent < MaxMsgs
        /\ sent' = sent + 1 /\ said' = Append(said, ch)
        /\ calls' = calls \cup {[at |-> "say", s |-> Service, ch |-> ch, m |-> sent']}
        /\ UNCHANGED <<poolVars, cmd, reap, clientVars, serverVars, inbound, cuts, accepted, lost,
                       torn>>

\* drop_user, and the call is over.
DropUser(call) ==
    /\ users' = IF call.s = Service THEN users ELSE [users EXCEPT ![owner[call.s]] = None]
    /\ calls' = calls \ {call}
    /\ UNCHANGED cmd

\* Sends wait for room, and fail once the receiver is gone.
SendCommand(call, c, next) ==
    IF task[call.s] = "done" THEN DropUser(call)
    ELSE /\ Len(cmd[call.s]) < CmdCap
         /\ cmd' = [cmd EXCEPT ![call.s] = Append(@, c)]
         /\ calls' = (calls \ {call}) \cup next
         /\ UNCHANGED users

SendJoin(call) ==
    /\ call.at = "join"
    /\ SendCommand(call, Join(call.ch), {[call EXCEPT !.at = "say"]})
    /\ UNCHANGED <<owner, joined, reap, clientVars, serverVars, sent, inbound, cuts, history>>

\* The message, and last_active = now, which only says that the session may
\* be idle again some time later.
SendMessage(call) ==
    /\ call.at = "say"
    /\ SendCommand(call, Say(call.ch, call.m), {})
    /\ UNCHANGED <<owner, joined, reap, clientVars, serverVars, sent, inbound, cuts, history>>

-----------------------------------------------------------------------------
\* The reaper.

\* The scan looks at every entry once and finds some of them idle: USER_IDLE
\* may pass between any two steps.  The set is a snapshot.
Collect(stale) ==
    /\ reap.users = {} /\ reap.telling = None
    /\ \A u \in stale : users[u] # None
    /\ reap' = [reap EXCEPT !.users = stale]
    /\ UNCHANGED <<poolVars, cmd, calls, clientVars, serverVars, sent, inbound, cuts, history>>

\* The entry is removed, then its session is told to quit.
Reap(u) ==
    /\ u \in reap.users /\ reap.telling = None
    /\ reap' = [users |-> reap.users \ {u}, telling |-> users[u]]
    /\ users' = [users EXCEPT ![u] = None]
    /\ UNCHANGED <<owner, joined, cmd, calls, clientVars, serverVars, sent, inbound, cuts,
                   history>>

\* Faulty variant: the reaper keeps the handle.
TellQuitKeeps ==
    LET s == reap.telling
    IN  /\ s # None
        /\ Len(cmd[s]) < CmdCap
        /\ cmd' = [cmd EXCEPT ![s] = Append(@, Quit)]
        /\ UNCHANGED <<poolVars, calls, reap, clientVars, serverVars, sent, inbound, cuts, history>>

TellQuit ==
    LET s == reap.telling
    IN  /\ s # None
        /\ Len(cmd[s]) < CmdCap
        /\ cmd' = [cmd EXCEPT ![s] = Append(@, Quit)]
        /\ reap' = [reap EXCEPT !.telling = None]
        /\ UNCHANGED <<poolVars, calls, clientVars, serverVars, sent, inbound, cuts, history>>

-----------------------------------------------------------------------------
\* run_client and run_session.

\* Connect and register; the service joins its channels at once, registered
\* or not.
Connect(s) ==
    LET nk == NickOf(s, 0)
    IN  /\ task[s] = "connect"
        /\ task' = [task EXCEPT ![s] = "live"]
        /\ link' = [link EXCEPT ![s] = "up"]
        /\ ServerNick(s, nk)
        /\ lines' = [lines EXCEPT ![s] = IF InUse(nk) THEN <<Refusal>> ELSE <<>>]
        /\ members' = [members EXCEPT ![s] = IF s = Service /\ ~InUse(nk) THEN Channels ELSE {}]
        /\ UNCHANGED <<poolVars, cmd, calls, reap, tries, ghosts, sent, inbound, cuts, history>>

\* is_nick_error: try the next nick, on the same connection.
RetryNick(s) ==
    LET nk == NickOf(s, tries[s] + 1)
    IN  /\ task[s] = "live" /\ lines[s] # <<>> /\ Head(lines[s]).verb = "433"
        /\ tries' = [tries EXCEPT ![s] = @ + 1]
        /\ IF link[s] = "up"
           THEN /\ ServerNick(s, nk)
                /\ lines' = [lines EXCEPT ![s] = Tail(@) \o (IF InUse(nk) THEN <<Refusal>> ELSE <<>>)]
           ELSE lines' = [lines EXCEPT ![s] = Tail(@)] /\ UNCHANGED nick
        /\ UNCHANGED <<poolVars, cmd, calls, reap, task, link, members, ghosts, sent, inbound, cuts,
                       history>>

\* Faulty variant: per-user sessions forward what they hear as well.
HandleInboundAll(s) ==
    /\ task[s] = "live" /\ lines[s] # <<>> /\ Head(lines[s]).verb = "PRIVMSG"
    /\ lines' = [lines EXCEPT ![s] = Tail(@)]
    /\ inbound' = Append(inbound, [topic |-> ChannelToTopic(Head(lines[s]).ch),
                                   m |-> Head(lines[s]).m])
    /\ UNCHANGED <<poolVars, cmd, calls, reap, task, tries, link, serverVars, sent, cuts, history>>

\* A channel message: only the service connection makes an event of it.
HandleInbound(s) ==
    /\ task[s] = "live" /\ lines[s] # <<>> /\ Head(lines[s]).verb = "PRIVMSG"
    /\ lines' = [lines EXCEPT ![s] = Tail(@)]
    /\ inbound' = IF s = Service
                  THEN Append(inbound, [topic |-> ChannelToTopic(Head(lines[s]).ch),
                                        m |-> Head(lines[s]).m])
                  ELSE inbound
    /\ UNCHANGED <<poolVars, cmd, calls, reap, task, tries, link, serverVars, sent, cuts, history>>

\* The end of a connection is an error, and so is a line that is not UTF-8:
\* reconnect.  (A user session that reconnects joins nothing.)
Reconnect(s) ==
    /\ task[s] = "live"
    /\ \/ link[s] = "cut" /\ lines[s] = <<>>
       \/ lines[s] # <<>> /\ Head(lines[s]).verb = "garbled"
    /\ task' = [task EXCEPT ![s] = "connect"]
    /\ link' = [link EXCEPT ![s] = "none"]
    /\ lines' = [lines EXCEPT ![s] = <<>>]
    /\ tries' = [tries EXCEPT ![s] = 0]
    /\ ServerForgets(s)
    /\ UNCHANGED <<poolVars, cmd, calls, reap, ghosts, sent, inbound, cuts, history>>

\* What is left of a line when its beginning is gone: nothing that means
\* anything, the command without its sender, or an end of the text, which may
\* itself read as a message to any channel or as a 433, or begin within a
\* character.
Rest(line) ==
    IF line = Refusal THEN {<<>>, <<Refusal>>}
    ELSE {<<>>, <<[line EXCEPT !.verb = "433"]>>, <<[line EXCEPT !.verb = "garbled"]>>}
            \cup {<<[line EXCEPT !.verb = "PRIVMSG", !.ch = ch]>> : ch \in Rooms}

\* The select takes a command while read_line has part of a line: the part is
\* dropped with the cancelled read, and the rest is read as a line of its own.
AfterRead(s) ==
    {lines} \cup IF lines[s] = <<>> THEN {}
                 ELSE {[lines EXCEPT ![s] = rest \o Tail(@)] : rest \in Rest(Head(lines[s]))}

Tear(s, unread) ==
    torn' = IF s = Service /\ unread # lines THEN torn \cup {Head(lines[s]).m} ELSE torn

\* Faulty variant: the task ends once it has written a QUIT.
WriteCommandEnds(s) ==
    /\ task[s] = "live" /\ cmd[s] # <<>>
    /\ cmd' = [cmd EXCEPT ![s] = Tail(@)]
    /\ IF link[s] = "up" THEN ServerLine(s, Head(cmd[s]), lines)
       ELSE lost' = lost \cup {Head(cmd[s]).m} /\ UNCHANGED <<nick, members, lines, link, accepted>>
    /\ task' = IF Head(cmd[s]).verb = "QUIT" THEN [task EXCEPT ![s] = "done"] ELSE task
    /\ UNCHANGED <<poolVars, calls, reap, tries, ghosts, sent, inbound, cuts, said, torn>>

\* A command is taken and written; on a dead connection it is lost, whether
\* or not the write already fails (the next read does).
WriteCommand(s) ==
    /\ task[s] = "live" /\ cmd[s] # <<>>
    /\ cmd' = [cmd EXCEPT ![s] = Tail(@)]
    /\ IF link[s] = "up"
       THEN \E unread \in AfterRead(s) : ServerLine(s, Head(cmd[s]), unread) /\ Tear(s, unread)
       ELSE /\ lost' = lost \cup {Head(cmd[s]).m}
            /\ UNCHANGED <<nick, members, lines, link, accepted, torn>>
    /\ UNCHANGED <<poolVars, calls, reap, task, tries, ghosts, sent, inbound, cuts, said>>

\* The channel is closed and empty: QUIT, and the task is over.  The handle
\* and with it `joined` went before.
EndCleanly(s) ==
    /\ task[s] = "live" /\ cmd[s] = <<>> /\ Closed(s)
    /\ task' = [task EXCEPT ![s] = "done"]
    /\ link' = [link EXCEPT ![s] = "none"]
    /\ lines' = [lines EXCEPT ![s] = <<>>]
    /\ tries' = [tries EXCEPT ![s] = 0]
    /\ joined' = [joined EXCEPT ![s] = {}]
    /\ ServerForgets(s)
    /\ UNCHANGED <<users, owner, cmd, calls, reap, ghosts, sent, inbound, cuts, history>>

-----------------------------------------------------------------------------
ClientStep(s) == \/ Connect(s) \/ RetryNick(s) \/ HandleInbound(s) \/ Reconnect(s)
                 \/ WriteCommand(s) \/ EndCleanly(s)
CallStep(call) == SendJoin(call) \/ SendMessage(call)
ReaperStep == TellQuit \/ \E u \in Users : Reap(u)

Next == \/ \E t \in Bridged : PublishAsService(t) \/ \E u \in Users : PublishAsUser(u, t)
        \/ \E call \in calls : CallStep(call)
        \/ \E stale \in (SUBSET Users) \ {{}} : Collect(stale)
        \/ ReaperStep
        \/ \E s \in Sessions : ClientStep(s) \/ Cut(s)

\* Tasks run, a call that has begun goes on; the server is reached sooner or
\* later and connections are cut only so often.
Fairness == /\ \A s \in Sessions : WF_vars(ClientStep(s))
            /\ \A m \in 1 .. MaxMsgs : WF_vars(\E call \in calls : call.m = m /\ CallStep(call))
            /\ WF_vars(ReaperStep)

Spec == Init /\ [][Next]_vars /\ Fairness

-----------------------------------------------------------------------------
TypeOK ==
    /\ users \in [Users -> {None} \cup Opened]
    /\ owner \in Seq(Users) /\ Len(owner) <= MaxSessions
    /\ \A s \in Sessions : /\ Len(cmd[s]) <= CmdCap
                           /\ task[s] \in {"off", "connect", "live", "done"}
                           /\ link[s] \in {"none", "up", "cut"}
    /\ \A call \in calls : call.at \in {"join", "say"}
    /\ sent \in 0 .. MaxMsgs /\ cuts \in 0 .. MaxCuts

\* The server relayed message x before message y.
Before(x, y) == \E p, q \in DOMAIN accepted : p < q /\ accepted[p] = x /\ accepted[q] = y

\* bus.rs:44, "sole inbound source": however many sessions sit in a channel,
\* a message the server relayed becomes at most one event, nothing else does,
\* events keep the server's order, and the event is on the topic of the channel
\* the message was said in, unless the read of its line was cancelled half-way.
InboundOnce ==
    /\ \A i, j \in DOMAIN inbound : inbound[i].m = inbound[j].m => i = j
    /\ \A i, j \in DOMAIN inbound : i < j => Before(inbound[i].m, inbound[j].m)
    /\ \A i \in DOMAIN inbound :
          /\ \E p \in DOMAIN accepted : accepted[p] = inbound[i].m
          /\ inbound[i].topic = ChannelToTopic(said[inbound[i].m]) \/ inbound[i].m \in torn

\* Whoever holds a handle finds its command channel open.
HandlesStayOpen ==
    /\ \A call \in calls : task[call.s] # "done"
    /\ reap.telling # None => task[reap.telling] # "done"

\* The places where message m can be, with how often it is there.
Places(m) == {<<"call", call>> : call \in {call \in calls : call.m = m}}
                \cup {q \in {"queue"} \X Sessions \X (1 .. CmdCap) :
                            q[3] <= Len(cmd[q[2]]) /\ cmd[q[2]][q[3]].m = m}
                \cup {<<"server", i>> : i \in {i \in DOMAIN accepted : accepted[i] = m}}
                \cup {<<"lost", i>> : i \in {m} \cap lost}

\* A publish that reports delivered_to_bus was queued, even if the reaper took
\* the session out of the pool meanwhile: its channel is still open, and the
\* message is in one place, waiting in a session whose task lives, relayed by
\* the server, or lost with a connection or to the server's refusal.
PublishedIsAccounted ==
    /\ HandlesStayOpen
    /\ \A m \in 1 .. sent : Cardinality(Places(m)) = 1
    /\ \A s \in Sessions : task[s] = "done" => cmd[s] = <<>>

\* client.rs:38: run_client "runs until cmd_rx is closed", and it does end: a
\* session that left the pool leaves the server too, whatever was still queued
\* and whoever still held it.
ReapedSessionsEnd == \A s \in Opened :
    (task[s] # "off" /\ \A u \in Users : users[u] # s) ~> task[s] = "done"

\* lib.rs:13, of the users: "they JOIN the channels they speak in".  Whatever
\* a registered session is about to say is said in a channel it is in.
UsersSpeakWhereTheyAre == \A s \in Opened :
    Registered(s) /\ cmd[s] # <<>> /\ Head(cmd[s]).verb = "PRIVMSG"
        => Head(cmd[s]).ch \in members[s]

\* lib.rs:44, "Channels to auto-join on connect" (README, deviations): the
\* service is in its channels again and again.
ServiceHears == []<>(Channels \subseteq members[Service])
=============================================================================
