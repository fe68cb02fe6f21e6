------------------------------ MODULE IrcProofs -----------------------------
(***************************************************************************)
(* Proofs about Irc for any set of users, topics and bounds: a message     *)
(* published is in one place, and what comes in is what the server         *)
(* relayed, once and in its order.                                         *)
(***************************************************************************)
EXTENDS Irc, FiniteSetTheorems, TLAPS

Command == [verb : {"PRIVMSG", "JOIN"}, ch : Rooms, m : Nat] \cup {Quit}
Line == [verb : {"PRIVMSG", "433", "garbled"}, ch : Rooms, m : Nat] \cup {Refusal}
Call == [at : {"join", "say"}, s : Sessions, ch : Rooms, m : Nat]
Event == [topic : {ChannelToTopic(ch) : ch \in Rooms}, m : Nat]
Nicks == ({"service"} \cup Users) \X Nat

\* The pool, the calls and the reaper.
PoolTypes == /\ users \in [Users -> {None} \cup Opened]
             /\ owner \in Seq(Users)
             /\ joined \in [Sessions -> SUBSET Rooms]
             /\ calls \subseteq Call
             /\ reap \in [users : SUBSET Users, telling : {None} \cup Opened]
             /\ sent \in Nat

\* The sessions' tasks and channels.
ClientTypes == /\ cmd \in [Sessions -> Seq(Command)]
               /\ \A s \in Sessions : Len(cmd[s]) <= CmdCap
               /\ task \in [Sessions -> {"off", "connect", "live", "done"}]
               /\ link \in [Sessions -> {"none", "up", "cut"}]
               /\ tries \in [Sessions -> Nat]
               /\ lines \in [Sessions -> Seq(Line)]

\* The server, and what it has done.
ServerTypes == /\ nick \in [Sessions -> {NoNick} \cup Nicks]
               /\ members \in [Sessions -> SUBSET (Rooms \cup Channels)]
               /\ accepted \in Seq(Nat)
               /\ lost \subseteq Nat
               /\ inbound \in Seq(Event)

Types == PoolTypes /\ ClientTypes /\ ServerTypes

\* The handles: sessions are opened in order, nobody holds a session whose
\* task has not begun, and nobody one whose task is over.
Held(s) == \/ \E u \in Users : users[u] = s
           \/ \E call \in calls : call.s = s
           \/ reap.telling = s

Handles == /\ task[Service] \in {"connect", "live"}
           /\ \A s \in Opened : /\ task[s] = "off" <=> s > Len(owner)
                                /\ Held(s) => task[s] \notin {"off", "done"}
                                /\ task[s] \in {"off", "done"} => cmd[s] = <<>>
                                /\ task[s] = "off" => joined[s] = {}

\* A command carries a message exactly if it is a PRIVMSG, and messages are
\* numbered up to sent.
Numbers == /\ \A call \in calls : call.m \in 1 .. sent
           /\ \A s \in Sessions : \A i \in DOMAIN cmd[s] :
                 cmd[s][i].m \in 0 .. sent /\ (cmd[s][i].verb = "PRIVMSG" <=> cmd[s][i].m # 0)
           /\ \A i \in DOMAIN accepted : accepted[i] \in 1 .. sent
           /\ lost \subseteq 0 .. sent

Queued(m) == \E s \in Sessions : \E i \in DOMAIN cmd[s] : cmd[s][i].m = m
Calling(m) == \E call \in calls : call.m = m
Relayed(m) == \E i \in DOMAIN accepted : accepted[i] = m

\* Every message is somewhere, in one kind of place, and once.
Somewhere == \A m \in 1 .. sent : Calling(m) \/ Queued(m) \/ Relayed(m) \/ m \in lost
OneKind == \A m \in 1 .. sent : /\ Calling(m) => ~Queued(m) /\ ~Relayed(m) /\ m \notin lost
                                /\ Queued(m) => ~Relayed(m) /\ m \notin lost
                                /\ Relayed(m) => m \notin lost
CalledOnce == \A c, d \in calls : c.m = d.m => c = d
QueuedOnce == \A s, t \in Sessions : \A i \in DOMAIN cmd[s], j \in DOMAIN cmd[t] :
                 cmd[s][i].m = cmd[t][j].m /\ cmd[s][i].m # 0 => s = t /\ i = j
RelayedOnce == \A i, j \in DOMAIN accepted : accepted[i] = accepted[j] => i = j

Accounts == Numbers /\ Somewhere /\ OneKind /\ CalledOnce /\ QueuedOnce /\ RelayedOnce

\* What the service connection has read (in) and has still to read (q) was
\* relayed, in that order; acc is what the server relayed.
Has(acc, m) == \E p \in DOMAIN acc : acc[p] = m
Ordered(acc, x, y) == \E p, r \in DOMAIN acc : p < r /\ acc[p] = x /\ acc[r] = y
Heard(q, i) == q[i] # Refusal

FlowsIn(acc, in, q) ==
    /\ \A i \in DOMAIN in : Has(acc, in[i].m)
    /\ \A i \in DOMAIN q : Heard(q, i) => Has(acc, q[i].m)
    /\ \A i, j \in DOMAIN in : i < j => Ordered(acc, in[i].m, in[j].m)
    /\ \A i \in DOMAIN in, j \in DOMAIN q : Heard(q, j) => Ordered(acc, in[i].m, q[j].m)
    /\ \A i, j \in DOMAIN q : Heard(q, i) /\ Heard(q, j) /\ i < j => Ordered(acc, q[i].m, q[j].m)

Inflow == FlowsIn(accepted, inbound, lines[Service])

-----------------------------------------------------------------------------
(***************************************************************************)
(* Types, and who holds which session.                                     *)
(***************************************************************************)

\* What is known of a command and of a line.
LEMMA CommandFacts ==
  /\ \A c \in Command : /\ c.verb \in {"PRIVMSG", "JOIN", "QUIT"} /\ c.m \in Nat
                        /\ c.verb # "QUIT" => c.ch \in Rooms
  /\ Quit \in Command /\ Quit.verb = "QUIT" /\ Quit.m = 0
  /\ \A ch \in Rooms : /\ Join(ch) \in Command /\ Join(ch).verb = "JOIN"
                                 /\ Join(ch).ch = ch /\ Join(ch).m = 0
  /\ \A ch \in Rooms, m \in Nat : /\ Say(ch, m) \in Command /\ Say(ch, m).ch = ch
                                            /\ Say(ch, m).verb = "PRIVMSG" /\ Say(ch, m).m = m
  BY DEF Command, Quit, Join, Say

\* A line is a message of a channel, or what is left of one, or the refusal of
\* a nick.
LEMMA LineFacts ==
  /\ Refusal \in Line /\ Refusal.verb = "433" /\ Refusal.m = 0
  /\ \A l \in Line : /\ l.m \in Nat
                     /\ l.verb = "PRIVMSG" => l # Refusal
                     /\ l # Refusal => l.ch \in Rooms
  /\ \A c \in Command : c.verb = "PRIVMSG" => c \in Line
  BY DEF Line, Refusal, Command, Quit

\* Appending keeps the type of a sequence.
LEMMA AppendType == ASSUME NEW S, NEW q \in Seq(S), NEW x \in S PROVE Append(q, x) \in Seq(S)
  OBVIOUS

\* A command is put at the end of the channel of s.
LEMMA PushFacts ==
  ASSUME ClientTypes, NEW s \in Sessions, NEW c \in Command,
         cmd' = [cmd EXCEPT ![s] = Append(@, c)]
  PROVE  /\ cmd' \in [Sessions -> Seq(Command)]
         /\ \A t \in Sessions \ {s} : cmd'[t] = cmd[t]
         /\ Len(cmd[s]) \in Nat /\ Len(cmd'[s]) = Len(cmd[s]) + 1
         /\ DOMAIN cmd[s] = 1 .. Len(cmd[s]) /\ DOMAIN cmd'[s] = 1 .. Len(cmd[s]) + 1
         /\ \A i \in DOMAIN cmd[s] : cmd'[s][i] = cmd[s][i]
         /\ cmd'[s][Len(cmd[s]) + 1] = c
<1>1. cmd[s] \in Seq(Command) /\ cmd'[s] = Append(cmd[s], c)
  BY DEF ClientTypes
<1>2. cmd'[s] \in Seq(Command)
  BY <1>1
<1> QED
  BY <1>1, <1>2 DEF ClientTypes

\* The first command of the channel of s is taken.
LEMMA PopFacts ==
  ASSUME ClientTypes, NEW s \in Sessions, cmd[s] # <<>>, cmd' = [cmd EXCEPT ![s] = Tail(@)]
  PROVE  /\ cmd' \in [Sessions -> Seq(Command)]
         /\ \A t \in Sessions \ {s} : cmd'[t] = cmd[t]
         /\ Len(cmd[s]) \in Nat \ {0} /\ Len(cmd'[s]) = Len(cmd[s]) - 1
         /\ DOMAIN cmd[s] = 1 .. Len(cmd[s]) /\ DOMAIN cmd'[s] = 1 .. Len(cmd[s]) - 1
         /\ \A i \in DOMAIN cmd'[s] : i + 1 \in DOMAIN cmd[s] /\ cmd'[s][i] = cmd[s][i + 1]
         /\ 1 \in DOMAIN cmd[s] /\ Head(cmd[s]) = cmd[s][1] /\ Head(cmd[s]) \in Command
<1>1. cmd[s] \in Seq(Command) /\ cmd'[s] = Tail(cmd[s])
  BY DEF ClientTypes
<1>2. cmd'[s] \in Seq(Command)
  BY <1>1
<1> QED
  BY <1>1, <1>2 DEF ClientTypes

\* The step of a call: its handle keeps the channel open, so the command is
\* queued and the call goes on to its message or is over.
CallMoves(call, c, next) ==
    /\ Len(cmd[call.s]) < CmdCap
    /\ cmd' = [cmd EXCEPT ![call.s] = Append(@, c)]
    /\ calls' = (calls \ {call}) \cup next
    /\ UNCHANGED <<users, owner, joined, reap, clientVars, serverVars, sent, inbound, cuts, history>>

LEMMA CallEffect ==
  ASSUME Types, Handles, NEW call \in calls, CallStep(call)
  PROVE  /\ call \in Call /\ task[call.s] # "done"
         /\ \/ call.at = "join" /\ CallMoves(call, Join(call.ch), {[call EXCEPT !.at = "say"]})
            \/ call.at = "say" /\ CallMoves(call, Say(call.ch, call.m), {})
<1>1. call \in Call /\ call.s \in Sessions
  BY DEF Types, PoolTypes, Call
<1>2. task[call.s] # "done"
  BY <1>1 DEF Handles, Held, Sessions, Service
<1> QED
  BY <1>1, <1>2 DEF CallStep, SendJoin, SendMessage, SendCommand, CallMoves

\* What a client has still to read when it takes a command: all of it, or all
\* but the first line, of which a rest may be left.
ReadOn(q, r) ==
    \/ r = q
    \/ q # <<>> /\ r = Tail(q)
    \/ q # <<>> /\ \E l \in Line : /\ r = <<l>> \o Tail(q)
                                   /\ l # Refusal => Head(q) # Refusal /\ l.m = Head(q).m

LEMMA RestFacts ==
  ASSUME NEW line \in Line, NEW rest \in Rest(line)
  PROVE  \/ rest = <<>>
         \/ \E l \in Line : rest = <<l>> /\ (l # Refusal => line # Refusal /\ l.m = line.m)
<1>1. CASE line = Refusal
  BY <1>1 DEF Rest
<1>2. CASE line # Refusal
  <2>1. line \in [verb : {"PRIVMSG", "433", "garbled"}, ch : Rooms, m : Nat]
    BY <1>2 DEF Line
  <2>2. CASE rest = <<>>
    BY <2>2
  <2>3. ASSUME NEW v \in {"433", "garbled"}, rest = <<[line EXCEPT !.verb = v]>>
        PROVE  \E l \in Line : rest = <<l>> /\ (l # Refusal => line # Refusal /\ l.m = line.m)
    <3>1. [line EXCEPT !.verb = v] \in Line /\ [line EXCEPT !.verb = v].m = line.m
      BY <2>1 DEF Line
    <3> QED
      BY <1>2, <2>3, <3>1
  <2>4. ASSUME NEW ch \in Rooms, rest = <<[line EXCEPT !.verb = "PRIVMSG", !.ch = ch]>>
        PROVE  \E l \in Line : rest = <<l>> /\ (l # Refusal => line # Refusal /\ l.m = line.m)
    <3>1. /\ [line EXCEPT !.verb = "PRIVMSG", !.ch = ch] \in Line
          /\ [line EXCEPT !.verb = "PRIVMSG", !.ch = ch].m = line.m
      BY <2>1 DEF Line
    <3> QED
      BY <1>2, <2>4, <3>1
  <2> QED
    BY <1>2, <2>2, <2>3, <2>4 DEF Rest
<1> QED
  BY <1>1, <1>2

LEMMA UnreadFacts ==
  ASSUME ClientTypes, NEW s \in Sessions, NEW unread \in AfterRead(s)
  PROVE  /\ unread \in [Sessions -> Seq(Line)]
         /\ \A t \in Sessions : ReadOn(lines[t], unread[t])
<1>1. lines \in [Sessions -> Seq(Line)]
  BY DEF ClientTypes
<1>2. CASE unread = lines
  BY <1>1, <1>2 DEF ReadOn
<1>3. CASE unread # lines
  <2> DEFINE q == lines[s]
  <2>1. PICK rest \in Rest(Head(q)) : unread = [lines EXCEPT ![s] = rest \o Tail(q)]
    BY <1>3 DEF AfterRead
  <2>2. q # <<>>
    BY <1>3 DEF AfterRead
  <2>3. Head(q) \in Line /\ Tail(q) \in Seq(Line)
    BY <1>1, <2>2
  <2> HIDE DEF q
  <2>4. rest \o Tail(q) \in Seq(Line) /\ ReadOn(q, rest \o Tail(q))
    <3>1. CASE rest = <<>>
      <4>1. rest \o Tail(q) = Tail(q)
        BY <2>3, <3>1
      <4> QED
        BY <2>2, <2>3, <4>1 DEF ReadOn
    <3>2. ASSUME NEW l \in Line, rest = <<l>>, l # Refusal => Head(q) # Refusal /\ l.m = Head(q).m
          PROVE  rest \o Tail(q) \in Seq(Line) /\ ReadOn(q, rest \o Tail(q))
      <4>1. rest \in Seq(Line)
        BY <3>2
      <4>2. rest \o Tail(q) \in Seq(Line)
        BY <2>3, <4>1
      <4> QED
        BY <2>2, <3>2, <4>2 DEF ReadOn
    <3> QED
      BY <2>3, <3>1, <3>2, RestFacts
  <2>5. \A t \in Sessions : unread[t] = IF t = s THEN rest \o Tail(q) ELSE lines[t]
    BY <1>1, <2>1
  <2>6. unread \in [Sessions -> Seq(Line)]
    BY <1>1, <2>1, <2>4
  <2>7. ASSUME NEW t \in Sessions PROVE ReadOn(lines[t], unread[t])
    <3>1. CASE t = s
      BY <2>4, <2>5, <3>1 DEF q
    <3>2. CASE t # s
      BY <2>5, <3>2 DEF ReadOn
    <3> QED
      BY <3>1, <3>2
  <2> QED
    BY <2>6, <2>7
<1> QED
  BY <1>2, <1>3

\* Where the message of a command goes when it is written ...
Written(c) == \/ accepted' = Append(accepted, c.m) /\ lost' = lost /\ c.verb = "PRIVMSG"
              \/ accepted' = accepted /\ lost' = lost \cup {c.m}
              \/ accepted' = accepted /\ lost' = lost /\ c.verb # "PRIVMSG"

\* ... who hears of it ...
Delivered(c) ==
    /\ lines' \in [Sessions -> Seq(Line)]
    /\ torn \subseteq torn'
    /\ \E unread \in [Sessions -> Seq(Line)] :
          /\ unread[Service] = lines[Service] \/ Head(lines[Service]).m \in torn'
          /\ \A t \in Sessions :
                /\ ReadOn(lines[t], unread[t])
                /\ \/ lines'[t] = unread[t]
                   \/ /\ lines'[t] = Append(unread[t], c)
                      /\ c.verb = "PRIVMSG" /\ accepted' = Append(accepted, c.m)

\* ... and what the server knows of the session afterwards.
Obeyed(s, c) ==
    \/ /\ c.verb = "QUIT" /\ link' = [link EXCEPT ![s] = "cut"]
       /\ members' = [members EXCEPT ![s] = {}] /\ nick' = [nick EXCEPT ![s] = NoNick]
    \/ /\ c.verb = "JOIN" /\ link[s] = "up"
       /\ members' = [members EXCEPT ![s] = @ \cup {c.ch}] /\ UNCHANGED <<link, nick>>
    \/ /\ c.verb = "PRIVMSG" \/ link[s] # "up" \/ nick[s] = NoNick
       /\ UNCHANGED <<link, nick, members>>

LEMMA WriteEffect ==
  ASSUME Types, NEW s \in Sessions, WriteCommand(s)
  PROVE  /\ task[s] = "live" /\ cmd[s] # <<>> /\ cmd' = [cmd EXCEPT ![s] = Tail(@)]
         /\ UNCHANGED <<poolVars, calls, reap, task, tries, ghosts, sent, inbound, cuts, said>>
         /\ Written(Head(cmd[s])) /\ Delivered(Head(cmd[s])) /\ Obeyed(s, Head(cmd[s]))
<1> DEFINE c == Head(cmd[s])
<1>1. /\ task[s] = "live" /\ cmd[s] # <<>> /\ cmd' = [cmd EXCEPT ![s] = Tail(@)]
      /\ UNCHANGED <<poolVars, calls, reap, task, tries, ghosts, sent, inbound, cuts, said>>
  BY DEF WriteCommand
<1>2. c \in Command /\ c.verb \in {"PRIVMSG", "JOIN", "QUIT"}
  BY <1>1, PopFacts, CommandFacts DEF Types
<1>3. lines \in [Sessions -> Seq(Line)]
  BY DEF Types, ClientTypes
<1>4. CASE link[s] # "up"
  <2>1. lost' = lost \cup {c.m} /\ UNCHANGED <<nick, members, lines, link, accepted, torn>>
    BY <1>4 DEF WriteCommand
  <2>2. Delivered(c)
    BY <1>3, <2>1 DEF Delivered, ReadOn
  <2> QED
    BY <1>1, <1>4, <2>1, <2>2 DEF Written, Obeyed
<1>5. CASE link[s] = "up"
  <2>1. PICK unread \in AfterRead(s) : ServerLine(s, c, unread) /\ Tear(s, unread)
    BY <1>5 DEF WriteCommand
  <2>2. /\ unread \in [Sessions -> Seq(Line)]
        /\ \A t \in Sessions : ReadOn(lines[t], unread[t])
        /\ unread[Service] = lines[Service] \/ Head(lines[Service]).m \in torn'
        /\ torn \subseteq torn'
    <3>1. s # Service => unread[Service] = lines[Service]
      BY <1>3 DEF AfterRead, Sessions
    <3> QED
      BY <2>1, <3>1, UnreadFacts DEF Types, Tear
  <2>3. CASE c.verb = "QUIT"
    <3>1. /\ link' = [link EXCEPT ![s] = "cut"] /\ ServerForgets(s)
          /\ lines' = unread /\ UNCHANGED <<accepted, lost>>
      BY <2>1, <2>3 DEF ServerLine
    <3> QED
      BY <1>1, <2>2, <2>3, <3>1 DEF Written, Delivered, Obeyed, ServerForgets
  <2>4. CASE c.verb = "JOIN"
    <3>1. /\ members' = IF Registered(s) THEN [members EXCEPT ![s] = @ \cup {c.ch}] ELSE members
          /\ lines' = unread /\ UNCHANGED <<nick, link, accepted, lost>>
      BY <2>1, <2>4 DEF ServerLine
    <3> QED
      BY <1>1, <1>5, <2>2, <2>4, <3>1 DEF Written, Delivered, Obeyed, Registered
  <2>5. CASE c.verb = "PRIVMSG"
    <3>1. /\ \/ Relay(s, c, unread) /\ accepted' = Append(accepted, c.m) /\ UNCHANGED lost
             \/ lost' = lost \cup {c.m} /\ lines' = unread /\ UNCHANGED accepted
          /\ UNCHANGED <<nick, members, link>>
      BY <2>1, <2>5 DEF ServerLine
    <3>2. Written(c) /\ Obeyed(s, c)
      BY <2>5, <3>1 DEF Written, Obeyed
    <3>3. CASE lines' = unread
      BY <1>1, <2>2, <3>2, <3>3 DEF Delivered
    <3>4. CASE Relay(s, c, unread) /\ accepted' = Append(accepted, c.m)
      <4>1. c \in Line
        BY <1>2, <2>5, LineFacts
      <4>2. \A t \in Sessions : lines'[t] = unread[t] \/ lines'[t] = Append(unread[t], c)
        BY <3>4 DEF Relay
      <4>3. \A t \in Sessions : lines'[t] \in Seq(Line)
        <5> SUFFICES ASSUME NEW t \in Sessions PROVE lines'[t] \in Seq(Line)
          OBVIOUS
        <5>1. unread[t] \in Seq(Line)
          BY <2>2
        <5>2. ASSUME NEW q \in Seq(Line), NEW l \in Line PROVE Append(q, l) \in Seq(Line)
          OBVIOUS
        <5> QED
          BY <4>1, <4>2, <5>1, <5>2
      <4>4. lines' \in [Sessions -> Seq(Line)]
        <5>1. lines' = [t \in Sessions |-> lines'[t]]
          BY <3>4 DEF Relay
        <5> QED
          BY <4>3, <5>1
      <4>5. Delivered(c)
        BY <2>2, <2>5, <3>4, <4>2, <4>4 DEF Delivered
      <4> QED
        BY <1>1, <3>2, <4>5
    <3> QED
      BY <1>1, <3>1, <3>2, <3>3, <3>4
  <2> QED
    BY <1>2, <2>3, <2>4, <2>5
<1> QED
  BY <1>4, <1>5

\* Every session that is connecting or connected has an owner, so its nick is
\* one.
LEMMA NickFacts ==
  ASSUME Types, Handles, NEW s \in Sessions, task[s] \in {"connect", "live"}, NEW n \in Nat
  PROVE  NickOf(s, n) \in Nicks /\ NickOf(s, n) # NoNick
<1>1. s # Service => owner[s] \in Users
  <2> SUFFICES ASSUME s # Service PROVE owner[s] \in Users
    OBVIOUS
  <2>1. s \in Opened /\ s \in Nat \ {0} /\ Len(owner) \in Nat
    BY IrcAssumption DEF Sessions, Opened, IrcAssumption, Types, PoolTypes
  <2>2. s <= Len(owner)
    BY <2>1 DEF Handles
  <2> QED
    BY <2>1, <2>2 DEF Types, PoolTypes
<1>2. NickOf(s, n) \in Nicks
  BY <1>1 DEF NickOf, Nicks
<1>3. NickOf(s, n) # NoNick
  BY DEF NickOf, NoNick
<1> QED
  BY <1>2, <1>3

\* The initial state.
LEMMA InitTypes == Init => Types /\ Handles
<1> SUFFICES ASSUME Init PROVE Types /\ Handles
  OBVIOUS
<1> USE DEF Init
<1>1. PoolTypes
  <2>1. users \in [Users -> {None} \cup Opened] /\ owner \in Seq(Users)
    OBVIOUS
  <2>2. joined \in [Sessions -> SUBSET Rooms]
    OBVIOUS
  <2> QED
    BY <2>1, <2>2 DEF PoolTypes
<1>2. ClientTypes
  <2>1. cmd \in [Sessions -> Seq(Command)] /\ \A s \in Sessions : Len(cmd[s]) <= CmdCap
    BY IrcAssumption DEF IrcAssumption
  <2>2. lines \in [Sessions -> Seq(Line)]
    OBVIOUS
  <2> QED
    BY <2>1, <2>2 DEF ClientTypes
<1>3. ServerTypes
  <2>1. accepted \in Seq(Nat)
    OBVIOUS
  <2>2. inbound \in Seq(Event)
    OBVIOUS
  <2>3. members \in [Sessions -> SUBSET (Rooms \cup Channels)] /\ nick \in [Sessions -> {NoNick} \cup Nicks]
    OBVIOUS
  <2> QED
    BY <2>1, <2>2, <2>3 DEF ServerTypes
<1>4. Handles
  BY IrcAssumption DEF Handles, Held, Sessions, Service, Opened, None, IrcAssumption
<1> QED
  BY <1>1, <1>2, <1>3, <1>4 DEF Types

\* publish_as_user in one line: a call joins the calls, on the session of the
\* pool or on a fresh one.
UserCall(u, t, s) ==
    LET ch == TopicToChannel(t)
    IN  [at |-> IF ch \in joined[s] THEN "say" ELSE "join", s |-> s, ch |-> ch, m |-> sent + 1]

LEMMA PublishEffect ==
  ASSUME Types, NEW u \in Users, NEW t \in Bridged, PublishAsUser(u, t)
  PROVE  \E s \in Opened :
            /\ GetOrCreate(u, s)
            /\ joined' = [joined EXCEPT ![s] = @ \cup {TopicToChannel(t)}]
            /\ calls' = calls \cup {UserCall(u, t, s)} /\ UserCall(u, t, s) \in Call
            /\ TopicToChannel(t) \in Rooms
            /\ sent' = sent + 1 /\ said' = Append(said, TopicToChannel(t))
            /\ UNCHANGED <<cmd, reap, tries, lines, link, serverVars, inbound, cuts, accepted, lost,
                           torn>>
<1>1. TopicToChannel(t) \in Rooms
  BY DEF Rooms
<1>2. PICK s \in Opened :
        /\ GetOrCreate(u, s)
        /\ joined' = [joined EXCEPT ![s] = @ \cup {TopicToChannel(t)}]
        /\ calls' = calls \cup {UserCall(u, t, s)}
  BY DEF PublishAsUser, UserCall
<1>3. UserCall(u, t, s) \in Call
  BY <1>1 DEF UserCall, Call, Sessions, Types, PoolTypes
<1> QED
  BY <1>1, <1>2, <1>3 DEF PublishAsUser

LEMMA ServiceEffect ==
  ASSUME Types, NEW t \in Bridged, PublishAsService(t)
  PROVE  \E call \in Call :
            /\ call.at = "say" /\ call.s = Service /\ call.m = sent + 1
            /\ calls' = calls \cup {call}
            /\ sent' = sent + 1 /\ said' = Append(said, call.ch)
            /\ UNCHANGED <<poolVars, cmd, reap, clientVars, serverVars, inbound, cuts, accepted, lost,
                           torn>>
<1> DEFINE call == [at |-> "say", s |-> Service, ch |-> TopicToChannel(t), m |-> sent + 1]
<1>1. TopicToChannel(t) \in Rooms
  BY DEF Rooms
<1>2. call \in Call
  BY <1>1 DEF Call, Sessions, Types, PoolTypes
<1>3. /\ calls' = calls \cup {call} /\ call.at = "say" /\ call.s = Service /\ call.m = sent + 1
      /\ said' = Append(said, call.ch)
  BY DEF PublishAsService
<1> HIDE DEF call
<1> QED
  BY <1>2, <1>3 DEF PublishAsService

\* A publisher gets a session whose task runs or is about to.
LEMMA PublishTypes ==
  ASSUME Types, Handles, NEW t \in Bridged,
         PublishAsService(t) \/ \E u \in Users : PublishAsUser(u, t)
  PROVE  Types' /\ Handles'
<1>1. CASE PublishAsService(t)
  <2>1. PICK call \in Call :
            /\ call.at = "say" /\ call.s = Service /\ call.m = sent + 1
            /\ calls' = calls \cup {call}
            /\ sent' = sent + 1 /\ said' = Append(said, call.ch)
            /\ UNCHANGED <<poolVars, cmd, reap, clientVars, serverVars, inbound, cuts, accepted, lost,
                           torn>>
    BY <1>1, ServiceEffect
  <2>2. Types'
    BY <2>1 DEF Types, PoolTypes, ClientTypes, ServerTypes, poolVars, clientVars, serverVars, history
  <2>3. Service \notin Opened
    BY IrcAssumption DEF Service, Opened, IrcAssumption
  <2>4. Handles'
    BY <2>1, <2>3 DEF Handles, Held, poolVars, clientVars
  <2> QED
    BY <2>2, <2>4
<1>2. ASSUME NEW u \in Users, PublishAsUser(u, t) PROVE Types' /\ Handles'
  <2>1. PICK s \in Opened :
            /\ GetOrCreate(u, s)
            /\ joined' = [joined EXCEPT ![s] = @ \cup {TopicToChannel(t)}]
            /\ calls' = calls \cup {UserCall(u, t, s)} /\ UserCall(u, t, s) \in Call
            /\ TopicToChannel(t) \in Rooms
            /\ sent' = sent + 1 /\ said' = Append(said, TopicToChannel(t))
            /\ UNCHANGED <<cmd, reap, tries, lines, link, serverVars, inbound, cuts, accepted, lost,
                           torn>>
    BY <1>2, PublishEffect
  <2>2. /\ owner \in Seq(Users) /\ Len(owner) \in Nat /\ s \in Nat \ {0} /\ s \in Sessions
        /\ Service \notin Opened /\ None \notin Opened /\ Opened \subseteq Nat
    BY IrcAssumption DEF Types, PoolTypes, Opened, Sessions, IrcAssumption, Service, None
  <2>3. users' = [users EXCEPT ![u] = s]
    BY <2>1 DEF GetOrCreate
  <2>4. /\ owner' \in Seq(Users) /\ task' \in [Sessions -> {"off", "connect", "live", "done"}]
        /\ \/ users[u] = None /\ s = Len(owner) + 1 /\ Len(owner') = s /\ task'[s] = "connect"
           \/ users[u] = s /\ owner' = owner /\ task' = task
        /\ \A x \in Opened \ {s} : task'[x] = task[x]
        /\ task'[Service] = task[Service]
    <3>1. CASE users[u] = None
      <4>1. s = Len(owner) + 1 /\ owner' = Append(owner, u) /\ task' = [task EXCEPT ![s] = "connect"]
        BY <2>1, <3>1 DEF GetOrCreate
      <4> QED
        BY <2>2, <3>1, <4>1 DEF Types, ClientTypes, Sessions
    <3>2. CASE users[u] # None
      BY <2>1, <2>2, <3>2 DEF GetOrCreate, Types, ClientTypes
    <3> QED
      BY <3>1, <3>2
  <2>5. Types'
    <3>1. PoolTypes'
      BY <2>1, <2>2, <2>3, <2>4 DEF Types, PoolTypes
    <3>2. ClientTypes'
      BY <2>1, <2>4 DEF Types, ClientTypes
    <3>3. ServerTypes'
      BY <2>1 DEF Types, ServerTypes, serverVars
    <3> QED
      BY <3>1, <3>2, <3>3 DEF Types
  <2>6. Handles'
    <3>1. UserCall(u, t, s).s = s
      BY DEF UserCall
    <3>2. ASSUME NEW x \in Opened, x # s, Held(x)' PROVE Held(x)
      BY <2>1, <2>2, <2>3, <3>1, <3>2 DEF Held, Types, PoolTypes
    <3>3. task'[s] \notin {"off", "done"} /\ s <= Len(owner')
      BY <2>2, <2>4 DEF Handles, Held
    <3>4. \A x \in Opened \ {s} : joined'[x] = joined[x]
      BY <2>1, <2>2 DEF Types, PoolTypes, Sessions
    <3>5. \A x \in Opened \ {s} : x > Len(owner) <=> x > Len(owner')
      BY <2>2, <2>4
    <3>6. ASSUME NEW x \in Opened
          PROVE  /\ task'[x] = "off" <=> x > Len(owner')
                 /\ Held(x)' => task'[x] \notin {"off", "done"}
                 /\ task'[x] \in {"off", "done"} => cmd'[x] = <<>>
                 /\ task'[x] = "off" => joined'[x] = {}
      <4>1. CASE x = s
        BY <2>2, <3>3, <4>1
      <4>2. CASE x # s
        BY <2>1, <2>4, <3>2, <3>4, <3>5, <4>2 DEF Handles
      <4> QED
        BY <4>1, <4>2
    <3> QED
      BY <2>4, <3>6 DEF Handles
  <2> QED
    BY <2>5, <2>6
<1> QED
  BY <1>1, <1>2

\* The step of a call keeps its handle or gives it up.
LEMMA CallTypes ==
  ASSUME Types, Handles, NEW call \in calls, CallStep(call)
  PROVE  Types' /\ Handles'
<1>1. PICK c \in Command, next \in SUBSET Call :
        CallMoves(call, c, next) /\ (\A d \in next : d.s = call.s) /\ call \in Call
  <2>1. CASE call.at = "join" /\ CallMoves(call, Join(call.ch), {[call EXCEPT !.at = "say"]})
    <3>1. [call EXCEPT !.at = "say"] \in Call /\ [call EXCEPT !.at = "say"].s = call.s
      BY DEF Types, PoolTypes, Call
    <3> QED
      BY <2>1, <3>1, CommandFacts, CallEffect DEF Call
  <2>2. CASE CallMoves(call, Say(call.ch, call.m), {})
    <3>1. call \in Call
      BY CallEffect
    <3>2. Say(call.ch, call.m) \in Command
      BY <3>1, CommandFacts DEF Call
    <3>3. {} \in SUBSET Call /\ \A d \in {} : d.s = call.s
      OBVIOUS
    <3> QED
      BY <2>2, <3>1, <3>2, <3>3
  <2> QED
    BY <2>1, <2>2, CallEffect
<1>2. call.s \in Sessions
  BY <1>1 DEF Call
<1>3. /\ cmd' \in [Sessions -> Seq(Command)] /\ \A t \in Sessions \ {call.s} : cmd'[t] = cmd[t]
      /\ Len(cmd[call.s]) \in Nat /\ Len(cmd'[call.s]) = Len(cmd[call.s]) + 1
  BY <1>1, <1>2, PushFacts DEF CallMoves, Types
<1>4. Len(cmd'[call.s]) <= CmdCap
  BY <1>1, <1>3, IrcAssumption DEF CallMoves, IrcAssumption
<1>5. Types'
  <2>1. PoolTypes'
    BY <1>1 DEF CallMoves, Types, PoolTypes
  <2>2. ClientTypes'
    BY <1>1, <1>3, <1>4 DEF CallMoves, Types, ClientTypes, clientVars
  <2>3. ServerTypes'
    BY <1>1 DEF CallMoves, Types, ServerTypes, serverVars, history
  <2> QED
    BY <2>1, <2>2, <2>3 DEF Types
<1>6. ASSUME NEW x \in Opened PROVE Held(x)' => Held(x)
  BY <1>1 DEF CallMoves, Held
<1>7. ASSUME NEW x \in Opened, task[x] \in {"off", "done"} PROVE x # call.s
  BY <1>7 DEF Handles, Held
<1>8. Handles'
  BY <1>1, <1>3, <1>6, <1>7 DEF CallMoves, Handles, Sessions, clientVars
<1> QED
  BY <1>5, <1>8

\* The reaper takes handles out of the pool and gives the one it tells up.
LEMMA ReaperTypes ==
  ASSUME Types, Handles, ReaperStep \/ \E stale \in SUBSET Users : Collect(stale)
  PROVE  Types' /\ Handles'
<1>1. ASSUME NEW stale \in SUBSET Users, Collect(stale) PROVE Types' /\ Handles'
  <2>1. Types'
    BY <1>1 DEF Collect, Types, PoolTypes, ClientTypes, ServerTypes, poolVars, clientVars, serverVars,
                history
  <2>2. reap'.telling = reap.telling
    BY <1>1 DEF Collect, Types, PoolTypes
  <2> QED
    BY <1>1, <2>1, <2>2 DEF Collect, Handles, Held, poolVars, clientVars
<1>2. ASSUME NEW u \in Users, Reap(u) PROVE Types' /\ Handles'
  <2>1. Types'
    BY <1>2 DEF Reap, Types, PoolTypes, ClientTypes, ServerTypes, poolVars, clientVars, serverVars,
                history
  <2>2. reap'.telling = users[u] /\ users' = [users EXCEPT ![u] = None] /\ None \notin Opened
    BY <1>2, IrcAssumption DEF Reap, None, Opened, IrcAssumption
  <2>3. ASSUME NEW x \in Opened PROVE Held(x)' => Held(x)
    BY <1>2, <2>2 DEF Reap, Held, Types, PoolTypes
  <2> QED
    BY <1>2, <2>1, <2>3 DEF Reap, Handles, clientVars
<1>3. CASE TellQuit
  <2> DEFINE s == reap.telling
  <2>1. s \in Opened /\ s \in Sessions /\ Len(cmd[s]) < CmdCap
    BY <1>3 DEF TellQuit, Types, PoolTypes, Sessions
  <2>2. /\ cmd' = [cmd EXCEPT ![s] = Append(@, Quit)]
        /\ reap' = [reap EXCEPT !.telling = None]
        /\ UNCHANGED <<poolVars, calls, clientVars, serverVars, sent, inbound, cuts, history>>
    BY <1>3 DEF TellQuit
  <2>3. /\ cmd' \in [Sessions -> Seq(Command)] /\ \A t \in Sessions \ {s} : cmd'[t] = cmd[t]
        /\ Len(cmd[s]) \in Nat /\ Len(cmd'[s]) = Len(cmd[s]) + 1
    BY <2>1, <2>2, PushFacts, CommandFacts DEF Types
  <2>4. Types'
    <3>1. PoolTypes'
      BY <2>2 DEF Types, PoolTypes, poolVars
    <3>2. Len(cmd'[s]) <= CmdCap
      BY <2>1, <2>3, IrcAssumption DEF IrcAssumption
    <3>3. ClientTypes'
      BY <2>2, <2>3, <3>2 DEF Types, ClientTypes, clientVars
    <3>4. ServerTypes'
      BY <2>2 DEF Types, ServerTypes, serverVars, history
    <3> QED
      BY <3>1, <3>3, <3>4 DEF Types
  <2>5. task[s] \notin {"off", "done"}
    BY <2>1 DEF Handles, Held
  <2>6. reap'.telling = None /\ None \notin Opened
    BY <2>2, IrcAssumption DEF Types, PoolTypes, None, Opened, IrcAssumption
  <2>7. ASSUME NEW x \in Opened PROVE Held(x)' => Held(x)
    BY <2>2, <2>6 DEF Held, poolVars
  <2>8. Handles'
    BY <2>2, <2>3, <2>5, <2>7 DEF Handles, poolVars, clientVars, Sessions
  <2> QED
    BY <2>4, <2>8
<1> QED
  BY <1>1, <1>2, <1>3 DEF ReaperStep

\* A client connects, is refused, reads, reconnects or ends; connections are
\* cut.
LEMMA ClientStepTypes ==
  ASSUME Types, Handles, NEW s \in Sessions, ClientStep(s) \/ Cut(s)
  PROVE  Types' /\ Handles'
<1>1. CASE Connect(s)
  <2>1. NickOf(s, 0) \in Nicks
    BY <1>1, NickFacts DEF Connect
  <2>2. lines' \in [Sessions -> Seq(Line)]
    <3>1. <<Refusal>> \in Seq(Line) /\ <<>> \in Seq(Line)
      BY LineFacts
    <3> QED
      BY <1>1, <3>1 DEF Connect, Types, ClientTypes
  <2>3. PoolTypes'
    BY <1>1 DEF Connect, Types, PoolTypes, poolVars
  <2>4. ClientTypes'
    BY <1>1, <2>2 DEF Connect, Types, ClientTypes
  <2>5. ServerTypes'
    BY <1>1, <2>1 DEF Connect, ServerNick, Types, ServerTypes, history
  <2>6. Handles'
    BY <1>1 DEF Connect, Handles, Held, Types, ClientTypes, poolVars, Sessions
  <2> QED
    BY <2>3, <2>4, <2>5, <2>6 DEF Types
<1>2. CASE RetryNick(s)
  <2> DEFINE nk == NickOf(s, tries[s] + 1)
             q == lines[s]
  <2>1. nk \in Nicks
    BY <1>2, NickFacts DEF RetryNick, Types, ClientTypes
  <2>2. q \in Seq(Line) /\ q # <<>>
    BY <1>2 DEF RetryNick, Types, ClientTypes
  <2>3. Tail(q) \in Seq(Line) /\ Tail(q) \o <<Refusal>> \in Seq(Line) /\ Tail(q) \o <<>> = Tail(q)
    <3> HIDE DEF q
    <3>1. Tail(q) \in Seq(Line) /\ Tail(q) \o <<>> = Tail(q)
      BY <2>2
    <3>2. <<Refusal>> \in Seq(Line)
      BY LineFacts
    <3> QED
      BY <3>1, <3>2
  <2>4. lines' \in [Sessions -> Seq(Line)]
    <3>1. \/ lines' = [lines EXCEPT ![s] = Tail(q)] \/ lines' = [lines EXCEPT ![s] = Tail(q) \o <<>>]
          \/ lines' = [lines EXCEPT ![s] = Tail(q) \o <<Refusal>>]
      BY <1>2 DEF RetryNick
    <3> HIDE DEF q
    <3> QED
      BY <2>3, <3>1 DEF Types, ClientTypes
  <2>5. PoolTypes'
    BY <1>2 DEF RetryNick, Types, PoolTypes, poolVars
  <2>6. ClientTypes'
    BY <1>2, <2>4 DEF RetryNick, Types, ClientTypes
  <2>7. ServerTypes'
    BY <1>2, <2>1 DEF RetryNick, ServerNick, Types, ServerTypes, history
  <2>8. Handles'
    BY <1>2 DEF RetryNick, Handles, Held, poolVars
  <2> QED
    BY <2>5, <2>6, <2>7, <2>8 DEF Types
<1>3. CASE HandleInbound(s)
  <2> DEFINE q == lines[s]
             e == [topic |-> ChannelToTopic(Head(q).ch), m |-> Head(q).m]
  <2>1. q \in Seq(Line) /\ q # <<>> /\ Head(q).verb = "PRIVMSG"
    BY <1>3 DEF HandleInbound, Types, ClientTypes
  <2>2. Tail(q) \in Seq(Line) /\ Head(q) \in Line
    <3> HIDE DEF q
    <3> QED
      BY <2>1
  <2>3. e \in Event
    BY <2>1, <2>2, LineFacts DEF Event
  <2>4. inbound' \in Seq(Event)
    <3>1. inbound' = inbound \/ inbound' = Append(inbound, e)
      BY <1>3 DEF HandleInbound
    <3> HIDE DEF e
    <3> QED
      BY <2>3, <3>1, AppendType DEF Types, ServerTypes
  <2>5. lines' \in [Sessions -> Seq(Line)]
    BY <1>3, <2>2 DEF HandleInbound, Types, ClientTypes
  <2>6. PoolTypes'
    BY <1>3 DEF HandleInbound, Types, PoolTypes, poolVars
  <2>7. ClientTypes'
    BY <1>3, <2>5 DEF HandleInbound, Types, ClientTypes
  <2>8. ServerTypes'
    BY <1>3, <2>4 DEF HandleInbound, Types, ServerTypes, serverVars, history
  <2>9. Handles'
    BY <1>3 DEF HandleInbound, Handles, Held, poolVars
  <2> QED
    BY <2>6, <2>7, <2>8, <2>9 DEF Types
<1>4. CASE Reconnect(s)
  <2>1. PoolTypes'
    BY <1>4 DEF Reconnect, Types, PoolTypes, poolVars
  <2>2. ClientTypes'
    <3>1. <<>> \in Seq(Line)
      OBVIOUS
    <3> QED
      BY <1>4, <3>1 DEF Reconnect, Types, ClientTypes
  <2>3. ServerTypes'
    BY <1>4 DEF Reconnect, ServerForgets, Types, ServerTypes, history
  <2>4. Handles'
    BY <1>4 DEF Reconnect, Handles, Held, Types, ClientTypes, poolVars, Sessions
  <2> QED
    BY <2>1, <2>2, <2>3, <2>4 DEF Types
<1>5. CASE WriteCommand(s)
  <2> DEFINE c == Head(cmd[s])
  <2>1. /\ task[s] = "live" /\ cmd[s] # <<>> /\ cmd' = [cmd EXCEPT ![s] = Tail(@)]
        /\ UNCHANGED <<poolVars, calls, reap, task, tries, ghosts, sent, inbound, cuts, said>>
        /\ Written(c) /\ Delivered(c) /\ Obeyed(s, c)
    BY <1>5, WriteEffect
  <2>2. /\ cmd' \in [Sessions -> Seq(Command)] /\ \A t \in Sessions \ {s} : cmd'[t] = cmd[t]
        /\ Len(cmd[s]) \in Nat \ {0} /\ Len(cmd'[s]) = Len(cmd[s]) - 1 /\ c \in Command
    BY <2>1, PopFacts DEF Types
  <2>3. c.m \in Nat /\ (c.verb = "JOIN" => c.ch \in Rooms)
    BY <2>2, CommandFacts
  <2> HIDE DEF c
  <2>4. PoolTypes'
    BY <2>1 DEF Types, PoolTypes, poolVars
  <2>5. ASSUME NEW t \in Sessions PROVE Len(cmd'[t]) <= CmdCap
    <3>1. Len(cmd[t]) <= CmdCap
      BY DEF Types, ClientTypes
    <3>2. CASE t = s
      BY <2>2, <3>1, <3>2, IrcAssumption DEF IrcAssumption
    <3>3. CASE t # s
      BY <2>2, <3>1, <3>3
    <3> QED
      BY <3>2, <3>3
  <2>6. ClientTypes'
    BY <2>1, <2>2, <2>5 DEF Types, ClientTypes, Delivered, Obeyed
  <2>7. accepted' \in Seq(Nat) /\ lost' \subseteq Nat
    <3>1. Append(accepted, c.m) \in Seq(Nat)
      BY <2>3, AppendType DEF Types, ServerTypes
    <3> QED
      BY <2>1, <2>3, <3>1 DEF Types, ServerTypes, Written
  <2>8. ServerTypes'
    BY <2>1, <2>3, <2>7 DEF Types, ServerTypes, Obeyed
  <2>9. Handles'
    BY <2>1, <2>2 DEF Handles, Held, poolVars, Sessions
  <2> QED
    BY <2>4, <2>6, <2>8, <2>9 DEF Types
<1>6. CASE EndCleanly(s)
  <2>1. PoolTypes'
    BY <1>6 DEF EndCleanly, Types, PoolTypes
  <2>2. ClientTypes'
    <3>1. <<>> \in Seq(Line)
      OBVIOUS
    <3> QED
      BY <1>6, <3>1 DEF EndCleanly, Types, ClientTypes
  <2>3. ServerTypes'
    BY <1>6 DEF EndCleanly, ServerForgets, Types, ServerTypes, history
  <2>4. s \in Opened /\ s # Service /\ cmd[s] = <<>> /\ ~Held(s)
    BY <1>6, IrcAssumption DEF EndCleanly, Closed, Holders, Held, Opened, Service, IrcAssumption
  <2>5. Handles'
    BY <1>6, <2>4 DEF EndCleanly, Handles, Held, Types, PoolTypes, ClientTypes, Sessions
  <2> QED
    BY <2>1, <2>2, <2>3, <2>5 DEF Types
<1>7. CASE Cut(s)
  <2>1. PoolTypes'
    BY <1>7 DEF Cut, Types, PoolTypes, poolVars
  <2>2. ClientTypes'
    <3>1. <<>> \in Seq(Line)
      OBVIOUS
    <3> QED
      BY <1>7, <3>1 DEF Cut, Types, ClientTypes
  <2>3. ServerTypes'
    BY <1>7 DEF Cut, ServerForgets, Types, ServerTypes, history
  <2>4. Handles'
    BY <1>7 DEF Cut, Handles, Held, poolVars
  <2> QED
    BY <2>1, <2>2, <2>3, <2>4 DEF Types
<1> QED
  BY <1>1, <1>2, <1>3, <1>4, <1>5, <1>6, <1>7 DEF ClientStep

\* Every step keeps the types and the handles.
LEMMA NextTypes == Types /\ Handles /\ [Next]_vars => Types' /\ Handles'
<1> SUFFICES ASSUME Types, Handles, [Next]_vars PROVE Types' /\ Handles'
  OBVIOUS
<1>1. CASE UNCHANGED vars
  BY <1>1 DEF vars, poolVars, clientVars, serverVars, history, Types, PoolTypes, ClientTypes,
              ServerTypes, Handles, Held
<1> QED
  BY <1>1, PublishTypes, CallTypes, ReaperTypes, ClientStepTypes DEF Next

-----------------------------------------------------------------------------
(***************************************************************************)
(* A published message is in one place.                                    *)
(***************************************************************************)

\* A command at the end of a channel: its message is queued there and nowhere
\* else.
LEMMA PushAccounts ==
  ASSUME Types, QueuedOnce, NEW s \in Sessions, NEW c \in Command,
         c.m = 0 \/ ~Queued(c.m), cmd' = [cmd EXCEPT ![s] = Append(@, c)]
  PROVE  /\ QueuedOnce'
         /\ \A m : Queued(m)' <=> Queued(m) \/ c.m = m
<1>1. /\ \A t \in Sessions \ {s} : cmd'[t] = cmd[t]
      /\ Len(cmd[s]) \in Nat
      /\ DOMAIN cmd[s] = 1 .. Len(cmd[s]) /\ DOMAIN cmd'[s] = 1 .. Len(cmd[s]) + 1
      /\ \A i \in DOMAIN cmd[s] : cmd'[s][i] = cmd[s][i]
      /\ cmd'[s][Len(cmd[s]) + 1] = c
  BY PushFacts DEF Types
<1>2. ASSUME NEW t \in Sessions, NEW i \in DOMAIN cmd'[t]
      PROVE  \/ t = s /\ i = Len(cmd[s]) + 1 /\ cmd'[t][i] = c
             \/ i \in DOMAIN cmd[t] /\ cmd'[t][i] = cmd[t][i]
  BY <1>1
<1>3. ASSUME NEW t \in Sessions, NEW i \in DOMAIN cmd[t]
      PROVE  i \in DOMAIN cmd'[t] /\ cmd'[t][i] = cmd[t][i]
  BY <1>1
<1>4. ASSUME NEW m PROVE Queued(m)' <=> Queued(m) \/ c.m = m
  <2>1. ASSUME Queued(m)' PROVE Queued(m) \/ c.m = m
    BY <1>2, <2>1 DEF Queued
  <2>2. ASSUME Queued(m) PROVE Queued(m)'
    BY <1>3, <2>2 DEF Queued
  <2>3. ASSUME c.m = m PROVE Queued(m)'
    BY <1>1, <2>3 DEF Queued
  <2> QED
    BY <2>1, <2>2, <2>3
<1>5. ASSUME NEW t \in Sessions, NEW u \in Sessions, NEW i \in DOMAIN cmd'[t], NEW j \in DOMAIN cmd'[u],
             cmd'[t][i].m = cmd'[u][j].m, cmd'[t][i].m # 0
      PROVE  t = u /\ i = j
  <2>1. CASE i \in DOMAIN cmd[t] /\ cmd'[t][i] = cmd[t][i] /\ j \in DOMAIN cmd[u] /\ cmd'[u][j] = cmd[u][j]
    BY <1>5, <2>1 DEF QueuedOnce
  <2>2. CASE t = s /\ i = Len(cmd[s]) + 1 /\ cmd'[t][i] = c
    BY <1>2, <1>5, <2>2 DEF Queued
  <2>3. CASE u = s /\ j = Len(cmd[s]) + 1 /\ cmd'[u][j] = c
    BY <1>2, <1>5, <2>3 DEF Queued
  <2> QED
    BY <1>2, <2>1, <2>2, <2>3
<1> QED
  BY <1>4, <1>5 DEF QueuedOnce

\* The first command of a channel is taken: its message is queued no more.
LEMMA PopAccounts ==
  ASSUME Types, QueuedOnce, NEW s \in Sessions, cmd[s] # <<>>, cmd' = [cmd EXCEPT ![s] = Tail(@)]
  PROVE  /\ QueuedOnce'
         /\ Queued(Head(cmd[s]).m)
         /\ \A m : m # 0 => (Queued(m)' <=> Queued(m) /\ Head(cmd[s]).m # m)
<1> DEFINE c == Head(cmd[s])
<1>1. /\ \A t \in Sessions \ {s} : cmd'[t] = cmd[t]
      /\ Len(cmd[s]) \in Nat \ {0}
      /\ DOMAIN cmd[s] = 1 .. Len(cmd[s]) /\ DOMAIN cmd'[s] = 1 .. Len(cmd[s]) - 1
      /\ \A i \in DOMAIN cmd'[s] : i + 1 \in DOMAIN cmd[s] /\ cmd'[s][i] = cmd[s][i + 1]
      /\ 1 \in DOMAIN cmd[s] /\ c = cmd[s][1]
  BY PopFacts DEF Types
<1> HIDE DEF c
<1> DEFINE Was(t, i) == IF t = s THEN i + 1 ELSE i
<1>2. ASSUME NEW t \in Sessions, NEW i \in DOMAIN cmd'[t]
      PROVE  Was(t, i) \in DOMAIN cmd[t] /\ cmd'[t][i] = cmd[t][Was(t, i)] /\ (t = s => Was(t, i) # 1)
  BY <1>1
<1>3. ASSUME NEW t \in Sessions, NEW i \in DOMAIN cmd[t]
      PROVE  (t = s /\ i = 1) \/ \E j \in DOMAIN cmd'[t] : cmd'[t][j] = cmd[t][i]
  <2>1. CASE t = s /\ i # 1
    <3>1. i - 1 \in DOMAIN cmd'[s] /\ cmd'[s][i - 1] = cmd[s][i]
      BY <1>1, <2>1
    <3> QED
      BY <2>1, <3>1
  <2>2. CASE t # s
    BY <1>1, <2>2
  <2> QED
    BY <2>1, <2>2
<1>4. Queued(c.m)
  BY <1>1 DEF Queued
<1>5. ASSUME NEW m, m # 0 PROVE Queued(m)' <=> Queued(m) /\ c.m # m
  <2>1. ASSUME Queued(m)' PROVE Queued(m) /\ c.m # m
    <3>0. PICK t \in Sessions : \E i \in DOMAIN cmd'[t] : cmd'[t][i].m = m
      BY <2>1 DEF Queued
    <3>1. PICK i \in DOMAIN cmd'[t] : cmd'[t][i].m = m
      BY <3>0
    <3>2. cmd[t][Was(t, i)].m = m /\ Was(t, i) \in DOMAIN cmd[t] /\ (t = s => Was(t, i) # 1)
      BY <1>2, <3>1
    <3> HIDE DEF Was
    <3>3. Queued(m)
      BY <3>2 DEF Queued
    <3>4. c.m # m
      BY <1>1, <1>5, <3>2 DEF QueuedOnce
    <3> QED
      BY <3>3, <3>4
  <2>2. ASSUME Queued(m), c.m # m PROVE Queued(m)'
    <3>0. PICK t \in Sessions : \E i \in DOMAIN cmd[t] : cmd[t][i].m = m
      BY <2>2 DEF Queued
    <3>1. PICK i \in DOMAIN cmd[t] : cmd[t][i].m = m
      BY <3>0
    <3>2. ~(t = s /\ i = 1)
      BY <1>1, <2>2, <3>1
    <3> QED
      BY <1>3, <3>1, <3>2 DEF Queued
  <2> QED
    BY <2>1, <2>2
<1>6. ASSUME NEW t \in Sessions, NEW u \in Sessions, NEW i \in DOMAIN cmd'[t], NEW j \in DOMAIN cmd'[u],
             cmd'[t][i].m = cmd'[u][j].m, cmd'[t][i].m # 0
      PROVE  t = u /\ i = j
  <2>1. t = u /\ Was(t, i) = Was(u, j)
    <3>1. /\ Was(t, i) \in DOMAIN cmd[t] /\ cmd'[t][i] = cmd[t][Was(t, i)]
          /\ Was(u, j) \in DOMAIN cmd[u] /\ cmd'[u][j] = cmd[u][Was(u, j)]
      BY <1>2
    <3> HIDE DEF Was
    <3> QED
      BY <1>6, <3>1 DEF QueuedOnce
  <2>2. CASE t = s
    BY <1>1, <2>1, <2>2
  <2>3. CASE t # s
    BY <2>1, <2>3
  <2> QED
    BY <2>1, <2>2, <2>3
<1> QED
  BY <1>4, <1>5, <1>6 DEF QueuedOnce, c

\* A published message starts as a call.
LEMMA NewCallAccounts ==
  ASSUME Types, Accounts, NEW c \in Call, c.m = sent + 1, calls' = calls \cup {c}, sent' = sent + 1,
         UNCHANGED <<cmd, accepted, lost>>
  PROVE  Accounts'
<1>1. sent \in Nat /\ 1 .. sent' = (1 .. sent) \cup {sent + 1} /\ 0 .. sent \subseteq 0 .. sent'
      /\ 1 .. sent \subseteq 1 .. sent' /\ sent + 1 \in 1 .. sent' /\ sent + 1 \notin 0 .. sent
      /\ 1 .. sent \subseteq 0 .. sent
  BY DEF Types, PoolTypes
<1>2. \A m : (Queued(m)' <=> Queued(m)) /\ (Relayed(m)' <=> Relayed(m))
  BY DEF Queued, Relayed
<1>3. \A m : Calling(m)' <=> Calling(m) \/ m = sent + 1
  BY DEF Calling
<1>4. ~Queued(sent + 1) /\ ~Relayed(sent + 1) /\ sent + 1 \notin lost /\ ~Calling(sent + 1)
  BY <1>1 DEF Accounts, Numbers, Queued, Relayed, Calling
<1>5. Numbers'
  <2>1. \A d \in calls' : d.m \in 1 .. sent'
    BY <1>1 DEF Accounts, Numbers
  <2>2. \A s \in Sessions : \A i \in DOMAIN cmd[s] :
          cmd[s][i].m \in 0 .. sent' /\ (cmd[s][i].verb = "PRIVMSG" <=> cmd[s][i].m # 0)
    BY <1>1 DEF Accounts, Numbers
  <2>3. (\A i \in DOMAIN accepted : accepted[i] \in 1 .. sent') /\ lost \subseteq 0 .. sent'
    BY <1>1 DEF Accounts, Numbers
  <2> QED
    BY <2>1, <2>2, <2>3 DEF Numbers
<1>6. Somewhere'
  BY <1>1, <1>2, <1>3 DEF Accounts, Somewhere
<1>7. OneKind'
  BY <1>1, <1>2, <1>3, <1>4 DEF Accounts, OneKind
<1>8. CalledOnce'
  BY <1>4 DEF Accounts, CalledOnce, Calling
<1>9. QueuedOnce' /\ RelayedOnce'
  BY DEF Accounts, QueuedOnce, RelayedOnce
<1> QED
  BY <1>5, <1>6, <1>7, <1>8, <1>9 DEF Accounts

\* A command is queued: the QUIT of the reaper, the JOIN of a call that goes on,
\* or the message of a call that is over.
LEMMA QueueAccounts ==
  ASSUME Types, Accounts, NEW s \in Sessions, NEW c \in Command, c.verb = "PRIVMSG" <=> c.m # 0,
         cmd' = [cmd EXCEPT ![s] = Append(@, c)], UNCHANGED <<sent, accepted, lost>>,
         CalledOnce', \A m : m # 0 => (Calling(m)' <=> Calling(m) /\ c.m # m),
         \A d \in calls' : \E e \in calls : d.m = e.m,
         c.m # 0 => Calling(c.m)
  PROVE  Accounts'
<1>1. sent \in Nat /\ 1 .. sent \subseteq 0 .. sent /\ 0 \in 0 .. sent /\ 0 \notin 1 .. sent
  BY DEF Types, PoolTypes
<1>2. c.m # 0 => c.m \in 1 .. sent /\ ~Queued(c.m) /\ ~Relayed(c.m) /\ c.m \notin lost
  BY DEF Accounts, Numbers, OneKind, Calling
<1>3. QueuedOnce' /\ \A m : Queued(m)' <=> Queued(m) \/ c.m = m
  BY <1>2, PushAccounts DEF Accounts
<1>4. \A m : Relayed(m)' <=> Relayed(m)
  BY DEF Relayed
<1>5. Numbers'
  <2>1. \A d \in calls' : d.m \in 1 .. sent
    BY DEF Accounts, Numbers
  <2>2. ASSUME NEW t \in Sessions, NEW i \in DOMAIN cmd'[t]
        PROVE  cmd'[t][i].m \in 0 .. sent /\ (cmd'[t][i].verb = "PRIVMSG" <=> cmd'[t][i].m # 0)
    <3>1. \/ cmd'[t][i] = c
          \/ i \in DOMAIN cmd[t] /\ cmd'[t][i] = cmd[t][i]
      BY PushFacts DEF Types
    <3> QED
      BY <1>1, <1>2, <3>1 DEF Accounts, Numbers
  <2> QED
    BY <2>1, <2>2 DEF Accounts, Numbers
<1>6. Somewhere'
  BY <1>1, <1>3, <1>4 DEF Accounts, Somewhere
<1>7. OneKind'
  BY <1>1, <1>2, <1>3, <1>4 DEF Accounts, OneKind
<1>8. RelayedOnce'
  BY DEF Accounts, RelayedOnce
<1> QED
  BY <1>3, <1>5, <1>6, <1>7, <1>8 DEF Accounts

\* The step of a call moves its message into the channel, or puts a JOIN there.
LEMMA CallAccounts ==
  ASSUME Types, Handles, Accounts, NEW call \in calls, CallStep(call)
  PROVE  Accounts'
<1>1. call \in Call /\ call.s \in Sessions /\ call.ch \in Rooms /\ call.m \in Nat
  BY CallEffect DEF Call
<1>2. call.m # 0
  BY DEF Accounts, Numbers, Types, PoolTypes
<1>3. \A d \in calls : d.m = call.m => d = call
  BY DEF Accounts, CalledOnce
<1>4. CASE call.at = "join" /\ CallMoves(call, Join(call.ch), {[call EXCEPT !.at = "say"]})
  <2> DEFINE d == [call EXCEPT !.at = "say"]
  <2>1. d.m = call.m
    BY <1>1 DEF Call
  <2>2. calls' = (calls \ {call}) \cup {d} /\ UNCHANGED <<sent, accepted, lost>>
        /\ cmd' = [cmd EXCEPT ![call.s] = Append(@, Join(call.ch))]
    BY <1>4 DEF CallMoves, history
  <2> HIDE DEF d
  <2>3. CalledOnce'
    BY <1>3, <2>1, <2>2 DEF Accounts, CalledOnce
  <2>4. \A m : Calling(m)' <=> Calling(m)
    BY <2>1, <2>2 DEF Calling
  <2>5. \A x \in calls' : \E e \in calls : x.m = e.m
    BY <2>1, <2>2
  <2>6. Join(call.ch) \in Command /\ Join(call.ch).m = 0 /\ Join(call.ch).verb = "JOIN"
    BY <1>1, CommandFacts
  <2> QED
    BY <1>1, <2>2, <2>3, <2>4, <2>5, <2>6, QueueAccounts
<1>5. CASE call.at = "say" /\ CallMoves(call, Say(call.ch, call.m), {})
  <2> DEFINE c == Say(call.ch, call.m)
  <2>1. calls' = calls \ {call} /\ UNCHANGED <<sent, accepted, lost>>
        /\ cmd' = [cmd EXCEPT ![call.s] = Append(@, c)]
    BY <1>5 DEF CallMoves, history
  <2>2. c \in Command /\ c.m = call.m /\ c.verb = "PRIVMSG"
    BY <1>1, CommandFacts
  <2> HIDE DEF c
  <2>3. CalledOnce'
    BY <2>1 DEF Accounts, CalledOnce
  <2>4. \A m : Calling(m)' <=> Calling(m) /\ c.m # m
    BY <1>3, <2>1, <2>2 DEF Calling
  <2>5. \A x \in calls' : \E e \in calls : x.m = e.m
    BY <2>1
  <2>6. Calling(c.m)
    BY <2>2 DEF Calling
  <2> QED
    BY <1>1, <1>2, <2>1, <2>2, <2>3, <2>4, <2>5, <2>6, QueueAccounts
<1> QED
  BY <1>4, <1>5, CallEffect

\* A command that is written takes its message to the server or loses it.
LEMMA WriteAccounts ==
  ASSUME Types, Accounts, NEW s \in Sessions, WriteCommand(s)
  PROVE  Accounts'
<1> DEFINE c == Head(cmd[s])
<1>1. /\ cmd[s] # <<>> /\ cmd' = [cmd EXCEPT ![s] = Tail(@)]
      /\ UNCHANGED <<calls, sent>> /\ Written(c)
  BY WriteEffect
<1>2. /\ QueuedOnce' /\ Queued(c.m)
      /\ \A m : m # 0 => (Queued(m)' <=> Queued(m) /\ c.m # m)
  BY <1>1, PopAccounts DEF Accounts
<1>3. /\ \A t \in Sessions : \A i \in DOMAIN cmd'[t] : \E j \in DOMAIN cmd[t] : cmd'[t][i] = cmd[t][j]
      /\ 1 \in DOMAIN cmd[s] /\ c = cmd[s][1] /\ c \in Command
  <2>1. /\ \A t \in Sessions \ {s} : cmd'[t] = cmd[t]
        /\ \A i \in DOMAIN cmd'[s] : i + 1 \in DOMAIN cmd[s] /\ cmd'[s][i] = cmd[s][i + 1]
        /\ 1 \in DOMAIN cmd[s] /\ c = cmd[s][1] /\ c \in Command
    BY <1>1, PopFacts DEF Types
  <2> QED
    BY <2>1
<1> HIDE DEF c
<1>4. c.m \in 0 .. sent /\ (c.verb = "PRIVMSG" <=> c.m # 0)
  BY <1>3 DEF Accounts, Numbers
<1>5. sent \in Nat /\ 1 .. sent \subseteq 0 .. sent /\ 0 \notin 1 .. sent /\ \A m \in 0 .. sent : m # 0 => m \in 1 .. sent
  BY DEF Types, PoolTypes
<1>6. c.m # 0 => ~Calling(c.m) /\ ~Relayed(c.m) /\ c.m \notin lost
  BY <1>2, <1>4, <1>5 DEF Accounts, OneKind
<1>7. \A m : Calling(m)' <=> Calling(m)
  BY <1>1 DEF Calling
<1>8. CASE accepted' = Append(accepted, c.m) /\ lost' = lost /\ c.verb = "PRIVMSG"
  <2>1. /\ accepted \in Seq(Nat) /\ Len(accepted) \in Nat /\ c.m # 0 /\ c.m \in Nat
        /\ DOMAIN accepted = 1 .. Len(accepted)
    BY <1>4, <1>5, <1>8 DEF Types, ServerTypes
  <2>2. /\ DOMAIN accepted' = 1 .. Len(accepted) + 1
        /\ \A i \in DOMAIN accepted : accepted'[i] = accepted[i]
        /\ accepted'[Len(accepted) + 1] = c.m
    BY <1>8, <2>1
  <2>3. \A m : Relayed(m)' <=> Relayed(m) \/ m = c.m
    <3> TAKE m
    <3>1. ASSUME Relayed(m)' PROVE Relayed(m) \/ m = c.m
      BY <2>1, <2>2, <3>1 DEF Relayed
    <3>2. ASSUME Relayed(m) PROVE Relayed(m)'
      BY <2>1, <2>2, <3>2 DEF Relayed
    <3>3. ASSUME m = c.m PROVE Relayed(m)'
      BY <2>1, <2>2, <3>3 DEF Relayed
    <3> QED
      BY <3>1, <3>2, <3>3
  <2>4. RelayedOnce'
    BY <1>6, <2>1, <2>2 DEF Accounts, RelayedOnce, Relayed
  <2>5. Numbers'
    <3>1. \A i \in DOMAIN accepted' : accepted'[i] \in 1 .. sent
      BY <1>4, <1>5, <2>1, <2>2 DEF Accounts, Numbers
    <3> QED
      BY <1>1, <1>3, <1>8, <3>1 DEF Accounts, Numbers
  <2>6. Somewhere'
    BY <1>1, <1>2, <1>5, <1>7, <1>8, <2>3 DEF Accounts, Somewhere
  <2>7. OneKind'
    BY <1>1, <1>2, <1>5, <1>6, <1>7, <1>8, <2>3 DEF Accounts, OneKind
  <2> QED
    BY <1>1, <1>2, <2>4, <2>5, <2>6, <2>7 DEF Accounts, CalledOnce
<1>9. CASE accepted' = accepted /\ lost' \subseteq lost \cup {c.m} /\ lost \subseteq lost'
           /\ (c.m # 0 => c.m \in lost')
  <2>1. \A m : Relayed(m)' <=> Relayed(m)
    BY <1>9 DEF Relayed
  <2>2. RelayedOnce'
    BY <1>9 DEF Accounts, RelayedOnce
  <2>3. Numbers'
    BY <1>1, <1>3, <1>4, <1>9 DEF Accounts, Numbers
  <2>4. Somewhere'
    BY <1>1, <1>2, <1>5, <1>7, <1>9, <2>1 DEF Accounts, Somewhere
  <2>5. OneKind'
    BY <1>1, <1>2, <1>5, <1>6, <1>7, <1>9, <2>1 DEF Accounts, OneKind
  <2> QED
    BY <1>1, <1>2, <2>2, <2>3, <2>4, <2>5 DEF Accounts, CalledOnce
<1> QED
  BY <1>1, <1>4, <1>8, <1>9 DEF Written

\* Every step keeps the accounts.
LEMMA NextAccounts == Types /\ Handles /\ Accounts /\ [Next]_vars => Accounts'
<1> SUFFICES ASSUME Types, Handles, Accounts, [Next]_vars PROVE Accounts'
  OBVIOUS
<1>1. ASSUME NEW t \in Bridged, PublishAsService(t) PROVE Accounts'
  BY <1>1, ServiceEffect, NewCallAccounts DEF history
<1>2. ASSUME NEW t \in Bridged, NEW u \in Users, PublishAsUser(u, t) PROVE Accounts'
  <2>1. PICK s \in Opened : /\ UserCall(u, t, s) \in Call /\ calls' = calls \cup {UserCall(u, t, s)}
                            /\ sent' = sent + 1 /\ UNCHANGED <<cmd, accepted, lost>>
    BY <1>2, PublishEffect
  <2>2. UserCall(u, t, s).m = sent + 1
    BY DEF UserCall
  <2> QED
    BY <2>1, <2>2, NewCallAccounts
<1>3. CASE TellQuit
  <2>1. /\ cmd' = [cmd EXCEPT ![reap.telling] = Append(@, Quit)] /\ reap.telling \in Sessions
        /\ UNCHANGED <<calls, sent, accepted, lost>>
    BY <1>3 DEF TellQuit, history, Types, PoolTypes, Sessions
  <2>2. CalledOnce' /\ \A m : Calling(m)' <=> Calling(m)
    BY <2>1 DEF Accounts, CalledOnce, Calling
  <2>3. \A m : m # 0 => (Calling(m)' <=> Calling(m) /\ Quit.m # m)
    BY <2>2, CommandFacts
  <2> QED
    BY <2>1, <2>2, <2>3, CommandFacts, QueueAccounts
<1>4. ASSUME NEW s \in Sessions, WriteCommand(s) PROVE Accounts'
  BY <1>4, WriteAccounts
<1>5. ASSUME UNCHANGED <<calls, cmd, sent, accepted, lost>> PROVE Accounts'
  BY <1>5 DEF Accounts, Numbers, Somewhere, OneKind, Calling, Queued, Relayed, CalledOnce, QueuedOnce,
              RelayedOnce
<1>6. ASSUME NEW stale \in SUBSET Users, Collect(stale) PROVE Accounts'
  BY <1>5, <1>6 DEF Collect, history
<1>7. ASSUME NEW u \in Users, Reap(u) PROVE Accounts'
  BY <1>5, <1>7 DEF Reap, history
<1>8. ASSUME NEW s \in Sessions,
             \/ Connect(s) \/ RetryNick(s) \/ HandleInbound(s) \/ Reconnect(s) \/ EndCleanly(s) \/ Cut(s)
      PROVE  Accounts'
  BY <1>5, <1>8 DEF Connect, RetryNick, HandleInbound, Reconnect, EndCleanly, Cut, history
<1>9. CASE UNCHANGED vars
  BY <1>5, <1>9 DEF vars, history
<1> QED
  BY <1>1, <1>2, <1>3, <1>4, <1>6, <1>7, <1>8, <1>9, CallAccounts DEF Next, ReaperStep, ClientStep

\* What the four kinds of places hold: at most one place each.
LEMMA OnePlace ==
  ASSUME Types, Accounts, NEW m \in 1 .. sent
  PROVE  \E p : Places(m) = {p}
<1> DEFINE P1 == {<<"call", call>> : call \in {call \in calls : call.m = m}}
           P2 == {q \in {"queue"} \X Sessions \X (1 .. CmdCap) :
                    q[3] <= Len(cmd[q[2]]) /\ cmd[q[2]][q[3]].m = m}
           P3 == {<<"server", i>> : i \in {i \in DOMAIN accepted : accepted[i] = m}}
           P4 == {<<"lost", i>> : i \in {m} \cap lost}
<1>0. m # 0
  BY DEF Types, PoolTypes
<1>1. (~Calling(m) => P1 = {}) /\ (Calling(m) => \E p : P1 = {p})
  <2>1. ASSUME ~Calling(m) PROVE P1 = {}
    BY <2>1 DEF Calling
  <2>2. ASSUME NEW c \in calls, c.m = m PROVE P1 = {<<"call", c>>}
    <3>1. {call \in calls : call.m = m} = {c}
      BY <2>2 DEF Accounts, CalledOnce
    <3> QED
      BY <3>1
  <2> QED
    BY <2>1, <2>2 DEF Calling
<1>2. (~Queued(m) => P2 = {}) /\ (Queued(m) => \E p : P2 = {p})
  <2>1. ASSUME NEW s \in Sessions
        PROVE  /\ Len(cmd[s]) \in Nat /\ Len(cmd[s]) <= CmdCap /\ CmdCap \in Nat
               /\ DOMAIN cmd[s] = 1 .. Len(cmd[s])
    BY IrcAssumption DEF Types, ClientTypes, IrcAssumption
  <2>2. ASSUME NEW q \in P2
        PROVE  q = <<"queue", q[2], q[3]>> /\ q[2] \in Sessions /\ q[3] \in DOMAIN cmd[q[2]]
               /\ cmd[q[2]][q[3]].m = m
    BY <2>1
  <2>3. ASSUME ~Queued(m) PROVE P2 = {}
    BY <2>2, <2>3 DEF Queued
  <2>4. ASSUME NEW s \in Sessions, NEW i \in DOMAIN cmd[s], cmd[s][i].m = m
        PROVE  P2 = {<<"queue", s, i>>}
    <3>1. <<"queue", s, i>> \in P2
      BY <2>1, <2>4
    <3>2. ASSUME NEW q \in P2 PROVE q = <<"queue", s, i>>
      <4>1. q[2] = s /\ q[3] = i
        BY <1>0, <2>2, <2>4 DEF Accounts, QueuedOnce
      <4> QED
        BY <2>2, <4>1
    <3> QED
      BY <3>1, <3>2
  <2> HIDE DEF P2
  <2> QED
    BY <2>3, <2>4 DEF Queued
<1>3. (~Relayed(m) => P3 = {}) /\ (Relayed(m) => \E p : P3 = {p})
  <2>1. ASSUME ~Relayed(m) PROVE P3 = {}
    BY <2>1 DEF Relayed
  <2>2. ASSUME NEW i \in DOMAIN accepted, accepted[i] = m PROVE P3 = {<<"server", i>>}
    <3>1. {j \in DOMAIN accepted : accepted[j] = m} = {i}
      BY <2>2 DEF Accounts, RelayedOnce
    <3> QED
      BY <3>1
  <2> QED
    BY <2>1, <2>2 DEF Relayed
<1>4. (m \notin lost => P4 = {}) /\ (m \in lost => P4 = {<<"lost", m>>})
  OBVIOUS
<1>5. Places(m) = P1 \cup P2 \cup P3 \cup P4
  BY DEF Places
<1> HIDE DEF P1, P2, P3, P4
<1> QED
  BY <1>1, <1>2, <1>3, <1>4, <1>5 DEF Accounts, Somewhere, OneKind

\* Nothing is published, queued or relayed in the initial state.
LEMMA InitAccounts == Init => Accounts
<1> SUFFICES ASSUME Init PROVE Accounts
  OBVIOUS
<1>1. 1 .. sent = {}
  BY DEF Init
<1> QED
  BY <1>1 DEF Init, Accounts, Numbers, Somewhere, OneKind, CalledOnce, QueuedOnce, RelayedOnce

\* Whatever the reaper, reconnects and cut connections do, a message that was
\* published is in one place, a call always finds the channel of its session
\* open, and a task ends with an empty channel.
THEOREM MessagesAreAccounted == Spec => []PublishedIsAccounted
<1>1. ASSUME Types, Handles, Accounts PROVE PublishedIsAccounted
  <2>1. HandlesStayOpen
    BY <1>1 DEF HandlesStayOpen, Handles, Held, Types, PoolTypes, Call, Sessions, Service
  <2>2. ASSUME NEW m \in 1 .. sent PROVE Cardinality(Places(m)) = 1
    <3>1. PICK p : Places(m) = {p}
      BY <1>1, OnePlace
    <3> QED
      BY <3>1, FS_Singleton
  <2>3. ASSUME NEW s \in Sessions, task[s] = "done" PROVE cmd[s] = <<>>
    BY <1>1, <2>3 DEF Handles, Sessions, Service
  <2> QED
    BY <2>1, <2>2, <2>3 DEF PublishedIsAccounted
<1>2. Types /\ Handles /\ Accounts => PublishedIsAccounted
  BY <1>1
<1> QED
  BY <1>2, InitTypes, InitAccounts, NextTypes, NextAccounts, PTL DEF Spec

-----------------------------------------------------------------------------
(***************************************************************************)
(* What comes in is what the server relayed, in its order.                 *)
(***************************************************************************)

\* Relaying a message keeps the order of the messages before it, and puts it
\* behind each of them.
LEMMA RelayOrder ==
  ASSUME NEW acc \in Seq(Nat), NEW m \in Nat
  PROVE  /\ \A x : Has(acc, x) => Has(Append(acc, m), x) /\ Ordered(Append(acc, m), x, m)
         /\ \A x, y : Ordered(acc, x, y) => Ordered(Append(acc, m), x, y)
         /\ Has(Append(acc, m), m)
<1> DEFINE n == Len(acc) + 1
           b == Append(acc, m)
<1>1. /\ Len(acc) \in Nat /\ DOMAIN acc = 1 .. Len(acc) /\ DOMAIN b = 1 .. n
      /\ \A i \in DOMAIN acc : i \in DOMAIN b /\ b[i] = acc[i] /\ i < n
      /\ n \in DOMAIN b /\ b[n] = m
  OBVIOUS
<1> HIDE DEF b, n
<1>2. ASSUME NEW x, Has(acc, x) PROVE Has(b, x) /\ Ordered(b, x, m)
  BY <1>1, <1>2 DEF Has, Ordered
<1>3. ASSUME NEW x, NEW y, Ordered(acc, x, y) PROVE Ordered(b, x, y)
  BY <1>1, <1>3 DEF Ordered
<1>4. Has(b, m)
  BY <1>1 DEF Has
<1> QED
  BY <1>2, <1>3, <1>4 DEF b

\* The server relays a message the service does not hear of ...
LEMMA FlowUnheard ==
  ASSUME NEW acc \in Seq(Nat), NEW in, NEW q, NEW m \in Nat, FlowsIn(acc, in, q)
  PROVE  FlowsIn(Append(acc, m), in, q)
  BY RelayOrder DEF FlowsIn

\* ... or one that it does.
LEMMA FlowHeard ==
  ASSUME NEW acc \in Seq(Nat), NEW in, NEW q \in Seq(Line), NEW c \in Line, FlowsIn(acc, in, q)
  PROVE  FlowsIn(Append(acc, c.m), in, Append(q, c))
<1> DEFINE b == Append(acc, c.m)
           r == Append(q, c)
           n == Len(q) + 1
<1>1. c.m \in Nat
  BY LineFacts
<1>2. /\ \A x : Has(acc, x) => Has(b, x) /\ Ordered(b, x, c.m)
      /\ \A x, y : Ordered(acc, x, y) => Ordered(b, x, y)
      /\ Has(b, c.m)
  BY <1>1, RelayOrder
<1>3. /\ Len(q) \in Nat /\ DOMAIN q = 1 .. Len(q) /\ DOMAIN r = 1 .. n
      /\ \A i \in DOMAIN r : i # n => i \in DOMAIN q /\ r[i] = q[i] /\ ~(n < i)
      /\ r[n] = c
  OBVIOUS
<1> HIDE DEF b, r, n
<1>4. FlowsIn(b, in, q)
  BY <1>2 DEF FlowsIn
<1>5. \A i \in DOMAIN r : Heard(r, i) => Has(b, r[i].m)
  BY <1>2, <1>3, <1>4 DEF FlowsIn, Heard
<1>6. \A i \in DOMAIN in, j \in DOMAIN r : Heard(r, j) => Ordered(b, in[i].m, r[j].m)
  <2> SUFFICES ASSUME NEW i \in DOMAIN in, NEW j \in DOMAIN r, Heard(r, j)
               PROVE  Ordered(b, in[i].m, r[j].m)
    OBVIOUS
  <2>1. CASE j = n
    BY <1>2, <1>3, <2>1 DEF FlowsIn
  <2>2. CASE j # n
    BY <1>3, <1>4, <2>2 DEF FlowsIn, Heard
  <2> QED
    BY <2>1, <2>2
<1>7. ASSUME NEW i \in DOMAIN r, NEW j \in DOMAIN r, Heard(r, i), Heard(r, j), i < j
      PROVE  Ordered(b, r[i].m, r[j].m)
  <2>1. i # n
    BY <1>3, <1>7
  <2>2. CASE j = n
    BY <1>2, <1>3, <1>7, <2>1, <2>2 DEF FlowsIn, Heard
  <2>3. CASE j # n
    BY <1>3, <1>4, <1>7, <2>1, <2>3 DEF FlowsIn, Heard
  <2> QED
    BY <2>2, <2>3
<1> QED
  BY <1>4, <1>5, <1>6, <1>7 DEF FlowsIn, b, r

\* What is known of the rest of a sequence.
LEMMA TailFacts ==
  ASSUME NEW S, NEW q \in Seq(S), q # <<>>
  PROVE  /\ Tail(q) \in Seq(S) /\ Head(q) \in S /\ Head(q) = q[1] /\ 1 \in DOMAIN q
         /\ Len(Tail(q)) \in Nat /\ DOMAIN Tail(q) = 1 .. Len(Tail(q))
         /\ \A i \in DOMAIN Tail(q) : i \in Nat /\ i + 1 \in DOMAIN q /\ Tail(q)[i] = q[i + 1] /\ 1 < i + 1
  OBVIOUS

\* A line is lost, or dropped.
LEMMA FlowTail ==
  ASSUME NEW acc, NEW in, NEW q \in Seq(Line), q # <<>>, FlowsIn(acc, in, q)
  PROVE  FlowsIn(acc, in, Tail(q))
<1> DEFINE r == Tail(q)
<1>1. \A i \in DOMAIN r : i \in Nat /\ i + 1 \in DOMAIN q /\ r[i] = q[i + 1]
  BY TailFacts
<1> HIDE DEF r
<1>2. \A i \in DOMAIN r : Heard(r, i) => Has(acc, r[i].m)
  BY <1>1 DEF FlowsIn, Heard
<1>3. \A i \in DOMAIN in, j \in DOMAIN r : Heard(r, j) => Ordered(acc, in[i].m, r[j].m)
  BY <1>1 DEF FlowsIn, Heard
<1>4. ASSUME NEW i \in DOMAIN r, NEW j \in DOMAIN r, Heard(r, i), Heard(r, j), i < j
      PROVE  Ordered(acc, r[i].m, r[j].m)
  <2>1. i + 1 < j + 1 /\ Heard(q, i + 1) /\ Heard(q, j + 1)
    BY <1>1, <1>4 DEF Heard
  <2> QED
    BY <1>1, <2>1 DEF FlowsIn
<1> QED
  BY <1>2, <1>3, <1>4 DEF FlowsIn, r

\* A line of which the rest is left still stands for its message.
LEMMA FlowRest ==
  ASSUME NEW acc, NEW in, NEW q \in Seq(Line), q # <<>>, NEW l \in Line,
         l # Refusal => Head(q) # Refusal /\ l.m = Head(q).m, FlowsIn(acc, in, q)
  PROVE  FlowsIn(acc, in, <<l>> \o Tail(q))
<1> DEFINE r == <<l>> \o Tail(q)
<1>1. /\ DOMAIN r = DOMAIN q /\ r[1] = l /\ Head(q) = q[1]
      /\ \A i \in DOMAIN r : i # 1 => r[i] = q[i]
  <2>1. /\ Tail(q) \in Seq(Line) /\ Len(Tail(q)) = Len(q) - 1 /\ Len(q) \in Nat \ {0}
        /\ DOMAIN q = 1 .. Len(q) /\ Head(q) = q[1]
        /\ \A i \in 1 .. Len(q) - 1 : Tail(q)[i] = q[i + 1]
    OBVIOUS
  <2>2. <<l>> \in Seq(Line) /\ Len(<<l>>) = 1 /\ <<l>>[1] = l
    OBVIOUS
  <2>3. /\ Len(r) = Len(q) /\ DOMAIN r = 1 .. Len(q) /\ r[1] = l
        /\ \A i \in 2 .. Len(q) : r[i] = Tail(q)[i - 1]
    BY <2>1, <2>2
  <2> HIDE DEF r
  <2> QED
    BY <2>1, <2>3
<1> HIDE DEF r
<1>2. \A i \in DOMAIN r : Heard(r, i) => Heard(q, i) /\ r[i].m = q[i].m
  BY <1>1 DEF Heard
<1> QED
  BY <1>1, <1>2 DEF FlowsIn, r

\* handle_inbound: the first line becomes the last event.
LEMMA FlowRead ==
  ASSUME NEW acc, NEW in \in Seq(Event), NEW q \in Seq(Line), q # <<>>, Head(q).verb = "PRIVMSG",
         NEW e \in Event, e.m = Head(q).m, FlowsIn(acc, in, q)
  PROVE  FlowsIn(acc, Append(in, e), Tail(q))
<1> DEFINE r == Tail(q)
           to == Append(in, e)
           n == Len(in) + 1
<1>1. /\ Head(q) = q[1] /\ 1 \in DOMAIN q
      /\ \A i \in DOMAIN r : i \in Nat /\ i + 1 \in DOMAIN q /\ r[i] = q[i + 1] /\ 1 < i + 1
  BY TailFacts
<1>2. /\ Len(in) \in Nat /\ DOMAIN in = 1 .. Len(in) /\ DOMAIN to = 1 .. n
      /\ \A i \in DOMAIN to : i # n => i \in DOMAIN in /\ to[i] = in[i] /\ ~(n < i)
      /\ to[n] = e
  OBVIOUS
<1>3. FlowsIn(acc, in, r)
  BY FlowTail
<1>4. Heard(q, 1) /\ e.m = q[1].m
  BY <1>1, LineFacts, TailFacts DEF Heard
<1> HIDE DEF r, to, n
<1>5. \A i \in DOMAIN to : Has(acc, to[i].m)
  BY <1>1, <1>2, <1>4 DEF FlowsIn
<1>6. ASSUME NEW i \in DOMAIN to, NEW j \in DOMAIN r, Heard(r, j) PROVE Ordered(acc, to[i].m, r[j].m)
  <2>1. CASE i = n
    <3>1. Heard(q, j + 1)
      BY <1>1, <1>6 DEF Heard
    <3> QED
      BY <1>1, <1>2, <1>4, <2>1, <3>1 DEF FlowsIn
  <2>2. CASE i # n
    BY <1>2, <1>3, <1>6, <2>2 DEF FlowsIn
  <2> QED
    BY <2>1, <2>2
<1>7. ASSUME NEW i \in DOMAIN to, NEW j \in DOMAIN to, i < j PROVE Ordered(acc, to[i].m, to[j].m)
  <2>1. i # n
    BY <1>2, <1>7
  <2>2. CASE j = n
    BY <1>1, <1>2, <1>4, <2>1, <2>2 DEF FlowsIn
  <2>3. CASE j # n
    BY <1>2, <1>7, <2>1, <2>3 DEF FlowsIn
  <2> QED
    BY <2>2, <2>3
<1> QED
  BY <1>3, <1>5, <1>6, <1>7 DEF FlowsIn, r, to

\* A refusal that is answered with another one: that comes behind the messages.
LEMMA FlowRefused ==
  ASSUME NEW acc, NEW in, NEW q \in Seq(Line), q # <<>>, FlowsIn(acc, in, q)
  PROVE  FlowsIn(acc, in, Tail(q) \o <<Refusal>>)
<1> DEFINE t == Tail(q)
           r == Tail(q) \o <<Refusal>>
           n == Len(t) + 1
<1>1. Len(t) \in Nat /\ DOMAIN t = 1 .. Len(t) /\ t \in Seq(Line) /\ Refusal \in Line
  BY TailFacts, LineFacts
<1>2. FlowsIn(acc, in, t)
  BY FlowTail
<1>3. /\ DOMAIN r = 1 .. n
      /\ \A i \in DOMAIN r : i # n => i \in DOMAIN t /\ r[i] = t[i]
      /\ r[n] = Refusal
  BY <1>1
<1>4. \A i \in DOMAIN r : Heard(r, i) => i # n /\ Heard(t, i)
  BY <1>3 DEF Heard
<1> HIDE DEF t, r, n
<1> QED
  BY <1>2, <1>3, <1>4 DEF FlowsIn, r

\* The lines of a new or cut connection hold no message.
LEMMA FlowEmpty ==
  ASSUME NEW acc, NEW in, NEW old, FlowsIn(acc, in, old)
  PROVE  FlowsIn(acc, in, <<>>) /\ FlowsIn(acc, in, <<Refusal>>)
<1>1. \A i \in DOMAIN <<Refusal>> : ~Heard(<<Refusal>>, i)
  BY DEF Heard
<1> QED
  BY <1>1 DEF FlowsIn

\* Every step keeps the flow: only the server relays, only the service reads.
LEMMA NextInflow == Types /\ Inflow /\ [Next]_vars => Inflow'
<1> SUFFICES ASSUME Types, Inflow, [Next]_vars PROVE Inflow'
  OBVIOUS
<1> DEFINE q == lines[Service]
<1>1. Service \in Sessions /\ q \in Seq(Line) /\ accepted \in Seq(Nat) /\ inbound \in Seq(Event)
  BY DEF Sessions, Types, ClientTypes, ServerTypes
<1>2. ASSUME UNCHANGED <<accepted, inbound>>, lines'[Service] = q PROVE Inflow'
  BY <1>2 DEF Inflow
<1>3. ASSUME UNCHANGED <<accepted, inbound>>, lines'[Service] \in {<<>>, <<Refusal>>} PROVE Inflow'
  BY <1>3, FlowEmpty DEF Inflow
<1>4. ASSUME NEW s \in Sessions, Connect(s) PROVE Inflow'
  <2>1. lines'[Service] \in {q, <<>>, <<Refusal>>} /\ UNCHANGED <<accepted, inbound>>
    BY <1>1, <1>4 DEF Connect, Types, ClientTypes, history
  <2> QED
    BY <1>2, <1>3, <2>1
<1>5. ASSUME NEW s \in Sessions, RetryNick(s) PROVE Inflow'
  <2>1. UNCHANGED <<accepted, inbound>>
    BY <1>5 DEF RetryNick, history
  <2>2. CASE s = Service
    <3>1. q # <<>>
      BY <1>5, <2>2 DEF RetryNick
    <3>2. Tail(q) \o <<>> = Tail(q)
      BY <1>1, <3>1
    <3>3. lines'[Service] = Tail(q) \/ lines'[Service] = Tail(q) \o <<Refusal>>
      BY <1>5, <2>2, <3>2 DEF RetryNick, Types, ClientTypes
    <3> QED
      BY <1>1, <2>1, <3>1, <3>3, FlowTail, FlowRefused DEF Inflow
  <2>3. CASE s # Service
    BY <1>1, <1>2, <1>5, <2>1, <2>3 DEF RetryNick, Types, ClientTypes
  <2> QED
    BY <2>2, <2>3
<1>6. ASSUME NEW s \in Sessions, HandleInbound(s) PROVE Inflow'
  <2>1. CASE s = Service
    <3> DEFINE e == [topic |-> ChannelToTopic(Head(q).ch), m |-> Head(q).m]
    <3>1. /\ q # <<>> /\ Head(q).verb = "PRIVMSG" /\ lines'[Service] = Tail(q)
          /\ inbound' = Append(inbound, e) /\ accepted' = accepted
      BY <1>6, <2>1 DEF HandleInbound, Types, ClientTypes, history
    <3>2. e \in Event /\ e.m = Head(q).m
      BY <1>1, <3>1, TailFacts, LineFacts DEF Event
    <3> HIDE DEF e
    <3> QED
      BY <1>1, <3>1, <3>2, FlowRead DEF Inflow
  <2>2. CASE s # Service
    BY <1>1, <1>2, <1>6, <2>2 DEF HandleInbound, Types, ClientTypes, history
  <2> QED
    BY <2>1, <2>2
<1>7. ASSUME NEW s \in Sessions, WriteCommand(s) PROVE Inflow'
  <2> DEFINE c == Head(cmd[s])
  <2>1. inbound' = inbound /\ Written(c) /\ Delivered(c) /\ c \in Command
    BY <1>7, WriteEffect, PopFacts DEF Types
  <2>2. c.m \in Nat /\ (c.verb = "PRIVMSG" => c \in Line)
    BY <2>1, CommandFacts, LineFacts
  <2> HIDE DEF c
  <2>3. PICK unread \in Seq(Line) :
          /\ ReadOn(q, unread)
          /\ \/ lines'[Service] = unread
             \/ /\ lines'[Service] = Append(unread, c)
                /\ c.verb = "PRIVMSG" /\ accepted' = Append(accepted, c.m)
    BY <1>1, <2>1 DEF Delivered
  <2>4. FlowsIn(accepted, inbound, unread)
    BY <1>1, <2>3, FlowTail, FlowRest DEF Inflow, ReadOn
  <2>5. CASE lines'[Service] = unread
    BY <1>1, <2>1, <2>2, <2>4, <2>5, FlowUnheard DEF Inflow, Written
  <2>6. CASE /\ lines'[Service] = Append(unread, c)
             /\ c.verb = "PRIVMSG" /\ accepted' = Append(accepted, c.m)
    BY <1>1, <2>1, <2>2, <2>4, <2>6, FlowHeard DEF Inflow
  <2> QED
    BY <2>3, <2>5, <2>6
<1>8. ASSUME NEW s \in Sessions, EndCleanly(s) \/ Cut(s) \/ Reconnect(s) PROVE Inflow'
  <2>1. lines'[Service] \in {q, <<>>} /\ UNCHANGED <<accepted, inbound>>
    BY <1>1, <1>8 DEF EndCleanly, Cut, Reconnect, Types, ClientTypes, history
  <2> QED
    BY <1>2, <1>3, <2>1
<1>9. ASSUME NEW t \in Bridged, PublishAsService(t) \/ \E u \in Users : PublishAsUser(u, t) PROVE Inflow'
  BY <1>2, <1>9 DEF PublishAsService, PublishAsUser, clientVars, history
<1>10. ASSUME NEW call \in calls, CallStep(call) PROVE Inflow'
  BY <1>2, <1>10 DEF CallStep, SendJoin, SendMessage, clientVars, history
<1>11. ASSUME ReaperStep \/ \E stale \in SUBSET Users : Collect(stale) PROVE Inflow'
  BY <1>2, <1>11 DEF ReaperStep, TellQuit, Reap, Collect, clientVars, history
<1>12. CASE UNCHANGED vars
  BY <1>2, <1>12 DEF vars, clientVars, history
<1> QED
  BY <1>4, <1>5, <1>6, <1>7, <1>8, <1>9, <1>10, <1>11, <1>12 DEF Next, ClientStep

-----------------------------------------------------------------------------
(***************************************************************************)
(* An event is on the topic of the channel its message was said in.        *)
(***************************************************************************)

\* The lines of the service name the channel their message was said in.
LinesName(q, ch, cut) == \A i \in DOMAIN q : q[i] # Refusal /\ q[i].m \notin cut => q[i].ch = ch[q[i].m]

\* Whatever carries a message names its channel, unless its line was torn.
Named == /\ said \in Seq(Rooms) /\ Len(said) = sent
         /\ \A call \in calls : call.ch = said[call.m]
         /\ \A s \in Sessions : \A i \in DOMAIN cmd[s] :
               cmd[s][i].verb = "PRIVMSG" => cmd[s][i].ch = said[cmd[s][i].m]
         /\ LinesName(lines[Service], said, torn)
         /\ \A i \in DOMAIN inbound :
               inbound[i].m \in torn \/ inbound[i].topic = ChannelToTopic(said[inbound[i].m])

\* A new message leaves the channels of the others as they are.
LEMMA NewNamed ==
  ASSUME Types, Accounts, Inflow, Named, NEW ch \in Rooms, said' = Append(said, ch), sent' = sent + 1,
         NEW call \in Call, call.m = sent + 1, call.ch = ch, calls' = calls \cup {call},
         UNCHANGED <<cmd, lines, inbound, torn>>
  PROVE  Named'
<1>1. /\ said' \in Seq(Rooms) /\ Len(said') = sent' /\ said'[sent + 1] = ch /\ sent \in Nat
      /\ \A m \in 1 .. sent : said'[m] = said[m]
  BY DEF Named, Types, PoolTypes
<1>2. \A c \in calls' : c.ch = said'[c.m]
  BY <1>1 DEF Named, Accounts, Numbers
<1>3. ASSUME NEW s \in Sessions, NEW i \in DOMAIN cmd[s], cmd[s][i].verb = "PRIVMSG"
      PROVE  cmd[s][i].ch = said'[cmd[s][i].m]
  <2>1. cmd[s][i].m \in 1 .. sent
    BY <1>1, <1>3 DEF Accounts, Numbers
  <2> QED
    BY <1>1, <1>3, <2>1 DEF Named
<1>4. \A m : Has(accepted, m) => said'[m] = said[m]
  BY <1>1 DEF Has, Accounts, Numbers
<1>5. LinesName(lines[Service], said', torn)
  BY <1>4 DEF Named, LinesName, Inflow, FlowsIn, Heard
<1>6. \A i \in DOMAIN inbound : inbound[i].m \in torn \/ inbound[i].topic = ChannelToTopic(said'[inbound[i].m])
  BY <1>4 DEF Named, Inflow, FlowsIn
<1> QED
  BY <1>1, <1>2, <1>3, <1>5, <1>6 DEF Named

\* The lines change, the rest does not.
LEMMA LinesNamed ==
  ASSUME Named, UNCHANGED <<said, sent, calls, cmd, inbound, torn>>, LinesName(lines'[Service], said, torn)
  PROVE  Named'
  BY DEF Named

\* A command is written: its message may be heard, and a line may be torn.
LEMMA WriteNamed ==
  ASSUME Types, Accounts, Named, NEW s \in Sessions, WriteCommand(s)
  PROVE  Named'
<1> DEFINE c == Head(cmd[s])
           q == lines[Service]
<1>1. /\ cmd[s] # <<>> /\ cmd' = [cmd EXCEPT ![s] = Tail(@)]
      /\ UNCHANGED <<calls, sent, inbound, said>> /\ Delivered(c)
  BY WriteEffect
<1>2. /\ \A t \in Sessions : \A i \in DOMAIN cmd'[t] : \E j \in DOMAIN cmd[t] : cmd'[t][i] = cmd[t][j]
      /\ \E i \in DOMAIN cmd[s] : c = cmd[s][i]
  <2>1. /\ \A t \in Sessions \ {s} : cmd'[t] = cmd[t]
        /\ \A i \in DOMAIN cmd'[s] : i + 1 \in DOMAIN cmd[s] /\ cmd'[s][i] = cmd[s][i + 1]
        /\ 1 \in DOMAIN cmd[s] /\ c = cmd[s][1]
    BY <1>1, PopFacts DEF Types
  <2> QED
    BY <2>1
<1>3. q \in Seq(Line) /\ Service \in Sessions
  BY DEF Types, ClientTypes, Sessions
<1> HIDE DEF c
<1>4. c.verb = "PRIVMSG" => c.ch = said[c.m]
  BY <1>2 DEF Named
<1>5. PICK unread \in [Sessions -> Seq(Line)] :
          /\ unread[Service] = q \/ Head(q).m \in torn'
          /\ ReadOn(q, unread[Service])
          /\ \/ lines'[Service] = unread[Service]
             \/ lines'[Service] = Append(unread[Service], c) /\ c.verb = "PRIVMSG"
  BY <1>1, <1>3 DEF Delivered
<1>6. torn \subseteq torn'
  BY <1>1 DEF Delivered
<1> DEFINE r == unread[Service]
<1>7. r \in Seq(Line)
  BY <1>3
<1>8. LinesName(r, said, torn')
  <2>1. CASE r = q
    BY <1>6, <2>1 DEF Named, LinesName
  <2>2. CASE q # <<>> /\ r = Tail(q)
    <3>1. \A i \in DOMAIN r : i + 1 \in DOMAIN q /\ r[i] = q[i + 1]
      BY <1>3, <2>2, TailFacts
    <3> QED
      BY <1>6, <3>1 DEF Named, LinesName
  <2>3. ASSUME q # <<>>, r # q, NEW l \in Line, r = <<l>> \o Tail(q),
               l # Refusal => Head(q) # Refusal /\ l.m = Head(q).m
        PROVE  LinesName(r, said, torn')
    <3>1. DOMAIN r = DOMAIN q /\ r[1] = l /\ \A i \in DOMAIN r : i # 1 => r[i] = q[i]
      <4>1. /\ Tail(q) \in Seq(Line) /\ Len(Tail(q)) = Len(q) - 1 /\ Len(q) \in Nat \ {0}
            /\ DOMAIN q = 1 .. Len(q)
            /\ \A i \in 1 .. Len(q) - 1 : Tail(q)[i] = q[i + 1]
        BY <1>3, <2>3
      <4>2. <<l>> \in Seq(Line) /\ Len(<<l>>) = 1 /\ <<l>>[1] = l
        OBVIOUS
      <4>3. /\ Len(r) = Len(q) /\ DOMAIN r = 1 .. Len(q) /\ r[1] = l
            /\ \A i \in 2 .. Len(q) : r[i] = Tail(q)[i - 1]
        BY <2>3, <4>1, <4>2
      <4> HIDE DEF r, q
      <4> QED
        BY <4>1, <4>3
    <3>2. l = Refusal \/ l.m \in torn'
      BY <1>5, <2>3
    <3> HIDE DEF r, q
    <3> QED
      BY <1>6, <3>1, <3>2 DEF Named, LinesName, q
  <2> QED
    BY <1>5, <2>1, <2>2, <2>3 DEF ReadOn
<1>9. LinesName(lines'[Service], said, torn')
  <2>1. CASE lines'[Service] = r
    BY <1>8, <2>1
  <2>2. CASE lines'[Service] = Append(r, c) /\ c.verb = "PRIVMSG"
    <3> HIDE DEF r
    <3>1. \A i \in DOMAIN Append(r, c) : \/ i \in DOMAIN r /\ Append(r, c)[i] = r[i]
                                         \/ Append(r, c)[i] = c
      BY <1>7
    <3> QED
      BY <1>4, <1>8, <2>2, <3>1 DEF LinesName
  <2> QED
    BY <1>5, <2>1, <2>2
<1> QED
  BY <1>1, <1>2, <1>6, <1>9 DEF Named

\* Every step keeps the channels of the messages.
LEMMA NextNamed == Types /\ Handles /\ Accounts /\ Inflow /\ Named /\ [Next]_vars => Named'
<1> SUFFICES ASSUME Types, Handles, Accounts, Inflow, Named, [Next]_vars PROVE Named'
  OBVIOUS
<1> DEFINE q == lines[Service]
<1>1. Service \in Sessions /\ q \in Seq(Line) /\ inbound \in Seq(Event)
  BY DEF Sessions, Types, ClientTypes, ServerTypes
<1>2. ASSUME NEW t \in Bridged, PublishAsService(t) PROVE Named'
  <2>1. PICK call \in Call : /\ call.m = sent + 1 /\ calls' = calls \cup {call}
                             /\ sent' = sent + 1 /\ said' = Append(said, call.ch)
                             /\ UNCHANGED <<cmd, lines, inbound, torn>>
    BY <1>2, ServiceEffect DEF clientVars
  <2>2. call.ch \in Rooms
    BY DEF Call
  <2> QED
    BY <2>1, <2>2, NewNamed
<1>3. ASSUME NEW t \in Bridged, NEW u \in Users, PublishAsUser(u, t) PROVE Named'
  <2>1. PICK s \in Opened : /\ UserCall(u, t, s) \in Call /\ calls' = calls \cup {UserCall(u, t, s)}
                            /\ TopicToChannel(t) \in Rooms
                            /\ sent' = sent + 1 /\ said' = Append(said, TopicToChannel(t))
                            /\ UNCHANGED <<cmd, lines, inbound, torn>>
    BY <1>3, PublishEffect
  <2>2. UserCall(u, t, s).m = sent + 1 /\ UserCall(u, t, s).ch = TopicToChannel(t)
    BY DEF UserCall
  <2> QED
    BY <2>1, <2>2, NewNamed
<1>4. ASSUME NEW s \in Sessions, NEW c \in Command, c.verb = "PRIVMSG" => c.ch = said[c.m],
             cmd' = [cmd EXCEPT ![s] = Append(@, c)], \A call \in calls' : call.ch = said[call.m],
             UNCHANGED <<said, sent, lines, inbound, torn>>
      PROVE  Named'
  <2>1. /\ \A t \in Sessions \ {s} : cmd'[t] = cmd[t]
        /\ Len(cmd[s]) \in Nat
        /\ DOMAIN cmd[s] = 1 .. Len(cmd[s]) /\ DOMAIN cmd'[s] = 1 .. Len(cmd[s]) + 1
        /\ \A i \in DOMAIN cmd[s] : cmd'[s][i] = cmd[s][i]
        /\ cmd'[s][Len(cmd[s]) + 1] = c
    BY <1>4, PushFacts DEF Types
  <2>2. ASSUME NEW t \in Sessions, NEW i \in DOMAIN cmd'[t], cmd'[t][i].verb = "PRIVMSG"
        PROVE  cmd'[t][i].ch = said[cmd'[t][i].m]
    BY <1>4, <2>1, <2>2 DEF Named
  <2> QED
    BY <1>4, <2>2 DEF Named
<1>5. ASSUME NEW call \in calls, CallStep(call) PROVE Named'
  <2>1. /\ call \in Call
        /\ \/ call.at = "join" /\ CallMoves(call, Join(call.ch), {[call EXCEPT !.at = "say"]})
           \/ call.at = "say" /\ CallMoves(call, Say(call.ch, call.m), {})
    BY <1>5, CallEffect
  <2>2. call.s \in Sessions /\ call.ch \in Rooms /\ call.m \in Nat /\ call.ch = said[call.m]
    BY <2>1 DEF Call, Named
  <2>3. /\ Join(call.ch) \in Command /\ Join(call.ch).verb = "JOIN"
        /\ Say(call.ch, call.m) \in Command /\ Say(call.ch, call.m).ch = call.ch
        /\ Say(call.ch, call.m).m = call.m
    BY <2>2, CommandFacts
  <2>4. UNCHANGED <<said, sent, lines, inbound, torn>>
    BY <2>1 DEF CallMoves, clientVars, history
  <2>5. \A d \in calls' : d.ch = said[d.m]
    <3>1. [call EXCEPT !.at = "say"].ch = call.ch /\ [call EXCEPT !.at = "say"].m = call.m
      BY <2>1 DEF Call
    <3> QED
      BY <2>1, <2>2, <3>1 DEF CallMoves, Named
  <2> QED
    BY <1>4, <2>1, <2>2, <2>3, <2>4, <2>5 DEF CallMoves
<1>6. CASE TellQuit
  <2>1. /\ cmd' = [cmd EXCEPT ![reap.telling] = Append(@, Quit)] /\ reap.telling \in Sessions
        /\ UNCHANGED <<calls, said, sent, lines, inbound, torn>>
    BY <1>6 DEF TellQuit, history, clientVars, Types, PoolTypes, Sessions
  <2> QED
    BY <1>4, <2>1, CommandFacts DEF Named
<1>7. ASSUME NEW s \in Sessions, WriteCommand(s) PROVE Named'
  BY <1>7, WriteNamed
<1>8. ASSUME UNCHANGED <<calls, cmd, sent, said, inbound, torn>>,
             \/ lines'[Service] \in {q, <<>>, <<Refusal>>}
             \/ q # <<>> /\ lines'[Service] \in {Tail(q), Tail(q) \o <<Refusal>>}
      PROVE  Named'
  <2>1. LinesName(q, said, torn)
    BY DEF Named
  <2>2. LinesName(<<>>, said, torn) /\ LinesName(<<Refusal>>, said, torn)
    BY DEF LinesName
  <2>3. ASSUME q # <<>> PROVE LinesName(Tail(q), said, torn) /\ LinesName(Tail(q) \o <<Refusal>>, said, torn)
    <3> DEFINE t == Tail(q)
    <3>1. t \in Seq(Line) /\ \A i \in DOMAIN t : i + 1 \in DOMAIN q /\ t[i] = q[i + 1]
      BY <1>1, <2>3, TailFacts
    <3> HIDE DEF t
    <3>2. LinesName(t, said, torn)
      BY <2>1, <3>1 DEF LinesName
    <3>3. \A i \in DOMAIN (t \o <<Refusal>>) : \/ i \in DOMAIN t /\ (t \o <<Refusal>>)[i] = t[i]
                                               \/ (t \o <<Refusal>>)[i] = Refusal
      BY <3>1, LineFacts
    <3> QED
      BY <3>2, <3>3 DEF LinesName, t
  <2>4. LinesName(lines'[Service], said, torn)
    BY <1>8, <2>1, <2>2, <2>3
  <2> QED
    BY <1>8, <2>4, LinesNamed
<1>9. ASSUME NEW s \in Sessions, Connect(s) \/ Reconnect(s) \/ EndCleanly(s) \/ Cut(s) PROVE Named'
  <2>1. /\ UNCHANGED <<calls, cmd, sent, said, inbound, torn>>
        /\ lines'[Service] \in {q, <<>>, <<Refusal>>}
    BY <1>1, <1>9 DEF Connect, Reconnect, EndCleanly, Cut, Types, ClientTypes, history
  <2> QED
    BY <1>8, <2>1
<1>10. ASSUME NEW s \in Sessions, RetryNick(s) PROVE Named'
  <2>1. UNCHANGED <<calls, cmd, sent, said, inbound, torn>>
    BY <1>10 DEF RetryNick, history
  <2>2. CASE s = Service
    <3>1. q # <<>> /\ Tail(q) \o <<>> = Tail(q)
      BY <1>1, <1>10, <2>2 DEF RetryNick
    <3>2. lines'[Service] = Tail(q) \/ lines'[Service] = Tail(q) \o <<Refusal>>
      BY <1>10, <2>2, <3>1 DEF RetryNick, Types, ClientTypes
    <3> QED
      BY <1>8, <2>1, <3>1, <3>2
  <2>3. CASE s # Service
    BY <1>1, <1>8, <1>10, <2>1, <2>3 DEF RetryNick, Types, ClientTypes
  <2> QED
    BY <2>2, <2>3
<1>11. ASSUME NEW s \in Sessions, HandleInbound(s) PROVE Named'
  <2>1. UNCHANGED <<calls, cmd, sent, said, torn>>
    BY <1>11 DEF HandleInbound, history
  <2>2. CASE s = Service
    <3> DEFINE e == [topic |-> ChannelToTopic(Head(q).ch), m |-> Head(q).m]
    <3>1. /\ q # <<>> /\ Head(q).verb = "PRIVMSG" /\ lines'[Service] = Tail(q)
          /\ inbound' = Append(inbound, e)
      BY <1>11, <2>2 DEF HandleInbound, Types, ClientTypes
    <3>2. e \in Event /\ Head(q) # Refusal /\ Head(q) = q[1] /\ 1 \in DOMAIN q
      BY <1>1, <3>1, TailFacts, LineFacts DEF Event
    <3>3. e.m \in torn \/ e.topic = ChannelToTopic(said[e.m])
      BY <3>2 DEF Named, LinesName
    <3>4. \A i \in DOMAIN q : q[i] # Refusal /\ q[i].m \notin torn => q[i].ch = said[q[i].m]
      BY DEF Named, LinesName
    <3>5. LinesName(Tail(q), said, torn)
      <4>1. \A i \in DOMAIN Tail(q) : i + 1 \in DOMAIN q /\ Tail(q)[i] = q[i + 1]
        BY <1>1, <3>1, TailFacts
      <4> HIDE DEF q
      <4> QED
        BY <3>4, <4>1 DEF LinesName
    <3> HIDE DEF e, q
    <3>6. \A i \in DOMAIN inbound' : \/ i \in DOMAIN inbound /\ inbound'[i] = inbound[i]
                                     \/ inbound'[i] = e
      BY <1>1, <3>1, <3>2
    <3> QED
      BY <2>1, <3>1, <3>3, <3>5, <3>6 DEF Named
  <2>3. CASE s # Service
    <3>1. inbound' = inbound /\ lines'[Service] = q
      BY <1>1, <1>11, <2>3 DEF HandleInbound, Types, ClientTypes
    <3> QED
      BY <1>8, <2>1, <3>1
  <2> QED
    BY <2>2, <2>3
<1>12. ASSUME (\E u \in Users : Reap(u)) \/ \E stale \in SUBSET Users : Collect(stale) PROVE Named'
  BY <1>8, <1>12 DEF Reap, Collect, clientVars, history
<1>13. CASE UNCHANGED vars
  BY <1>8, <1>13 DEF vars, clientVars, history
<1> QED
  BY <1>2, <1>3, <1>5, <1>6, <1>7, <1>9, <1>10, <1>11, <1>12, <1>13 DEF Next, ReaperStep, ClientStep

\* However many sessions sit in a channel and whatever reconnects, a message
\* the server relayed becomes at most one event, nothing else becomes one,
\* events keep the server's order, and an event is on the topic of the channel
\* its message was said in unless the read of its line was cancelled: a rest
\* that is read as a line of its own can change the topic, but neither the order
\* nor the number of the events.
THEOREM InboundIsOnce == Spec => []InboundOnce
<1>1. ASSUME Types, Accounts, Inflow, Named PROVE InboundOnce
  <2>1. inbound \in Seq(Event) /\ accepted \in Seq(Nat)
    BY <1>1 DEF Types, ServerTypes
  <2>2. ASSUME NEW i \in DOMAIN inbound, NEW j \in DOMAIN inbound, i < j
        PROVE  Before(inbound[i].m, inbound[j].m) /\ inbound[i].m # inbound[j].m
    <3>1. Ordered(accepted, inbound[i].m, inbound[j].m)
      BY <1>1, <2>2 DEF Inflow, FlowsIn
    <3>2. PICK p, r \in DOMAIN accepted : p < r /\ accepted[p] = inbound[i].m /\ accepted[r] = inbound[j].m
      BY <3>1 DEF Ordered
    <3>3. p # r
      BY <2>1, <3>2
    <3> QED
      BY <1>1, <3>2, <3>3 DEF Before, Accounts, RelayedOnce
  <2>3. ASSUME NEW i \in DOMAIN inbound, NEW j \in DOMAIN inbound, inbound[i].m = inbound[j].m
        PROVE  i = j
    <3>1. i \in Nat /\ j \in Nat
      BY <2>1
    <3>2. i < j \/ j < i \/ i = j
      BY <3>1
    <3> QED
      BY <2>2, <2>3, <3>2
  <2>4. ASSUME NEW i \in DOMAIN inbound
        PROVE  /\ \E p \in DOMAIN accepted : accepted[p] = inbound[i].m
               /\ inbound[i].topic = ChannelToTopic(said[inbound[i].m]) \/ inbound[i].m \in torn
    BY <1>1 DEF Inflow, FlowsIn, Has, Named
  <2> QED
    BY <2>2, <2>3, <2>4 DEF InboundOnce
<1>2. Types /\ Accounts /\ Inflow /\ Named => InboundOnce
  BY <1>1
<1>3. Init => Inflow
  BY DEF Init, Inflow, FlowsIn, Sessions
<1>4. Init => Named
  <2> SUFFICES ASSUME Init PROVE Named
    OBVIOUS
  <2>1. said \in Seq(Rooms) /\ Len(said) = sent
    BY DEF Init
  <2> QED
    BY <2>1 DEF Init, Named, LinesName, Sessions
<1> QED
  BY <1>2, <1>3, <1>4, InitTypes, InitAccounts, NextTypes, NextAccounts, NextInflow, NextNamed, PTL
     DEF Spec

=============================================================================
