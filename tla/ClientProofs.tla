---------------------------- MODULE ClientProofs ----------------------------
(***************************************************************************)
(* Proofs about Client for any set of subscriptions, any capacities and    *)
(* any limits: a settled session holds the client's subscriptions, and an  *)
(* event is handed to the application once.                                *)
(***************************************************************************)
EXTENDS Client, FiniteSetTheorems, SequenceTheorems, TLAPS

Phases == {"connect", "auth", "hold", "lock", "resub", "read", "after", "stopped"}
Command == [op : {"sub", "unsub"}, id : Subs]
Frame == [sub : Subs, event : Events]

\* Types of what the loop, the application, the channel and the server share.
SubTypes == /\ phase \in Phases
            /\ sock \in {"none", "open", "broken"}
            /\ authed \in BOOLEAN
            /\ list \subseteq Subs /\ again \subseteq Subs
            /\ server \subseteq Subs /\ denied \subseteq Subs
            /\ app \in [Subs -> {"none", "sub", "unsub"}]
            /\ chan \in Seq(Command)

\* Types of what the frames pass through.
EventTypes == /\ inbound \in Seq(Frame)
              /\ published \in Nat
              /\ current \in Nat
              /\ receiver \in BOOLEAN
              /\ received \subseteq Events
              /\ given \in [Events -> Nat]

\* The phases in which the channel of the session is the published one.
Live == phase \in {"lock", "resub", "read"}

\* How far the session is, and what the server knows of it by then.
SessionShape ==
    /\ sock = "open" => phase \in {"auth", "hold", "lock", "resub", "read"}
    /\ sock # "open" \/ phase \in {"auth", "hold", "lock"} => server = {} /\ denied = {}
    /\ sock = "open" /\ phase # "auth" => authed
    /\ holder = "live" <=> Live
    /\ chan # <<>> => Live
    /\ phase = "resub" => again \subseteq list
    /\ phase = "resub" /\ sock = "open" => server = (list \ again) \ denied
    /\ server \cap denied = {}

\* The call in progress for s is what the list already says.
CallAgrees(s) == /\ app[s] = "sub" => s \in list
                 /\ app[s] = "unsub" => s \notin list

\* The i-th command of the channel is the last one for its subscription.
LastOf(i) == \A j \in DOMAIN chan : j > i => chan[j].id # chan[i].id

\* Without a call in progress the last command for s is what the list says,
\* and without a command either the server already agrees.
ChannelAgrees(s) == app[s] = "none" =>
    \A i \in DOMAIN chan : chan[i].id = s /\ LastOf(i) => (chan[i].op = "sub" <=> s \in list)

ServerAgrees(s) ==
    phase = "read" /\ sock = "open" /\ app[s] = "none" /\ (\A i \in DOMAIN chan : chan[i].id # s)
        => (s \in server <=> s \in list \ denied)

SubInv == /\ SubTypes
          /\ SessionShape
          /\ \A s \in Subs : CallAgrees(s) /\ ChannelAgrees(s) /\ ServerAgrees(s)

\* What the set of seen ids says of the events that were read and given.
EventInv == /\ EventTypes
            /\ seen \subseteq received
            /\ received \subseteq seen \cup forgotten
            /\ current # 0 => /\ current \in received
                              /\ given[current] > 0 => current \in forgotten
            /\ \A e \in Events \ received : given[e] = 0
            /\ HandedOverOnce
-----------------------------------------------------------------------------
(***************************************************************************)
(* A settled session holds the client's subscriptions.                     *)
(***************************************************************************)

\* What is known of a sequence with an element appended.
LEMMA AppendFacts ==
  ASSUME NEW S, NEW q \in Seq(S), NEW x \in S, NEW r, r = Append(q, x)
  PROVE  /\ r \in Seq(S) /\ Len(q) \in Nat
         /\ DOMAIN q = 1 .. Len(q) /\ DOMAIN r = 1 .. Len(q) + 1
         /\ \A i \in DOMAIN q : i \in DOMAIN r /\ r[i] = q[i]
         /\ r[Len(q) + 1] = x
  OBVIOUS

\* What the invariant speaks of.
subVars == <<phase, sock, authed, list, again, server, denied, app, chan, holder>>

\* Nothing is stored, connected or sent in the initial state.
LEMMA InitSubs == Init => SubInv
<1> SUFFICES ASSUME Init PROVE SubInv
  OBVIOUS
<1>1. SubTypes
  <2>1. chan \in Seq(Command)
    BY DEF Init
  <2>2. app \in [Subs -> {"none", "sub", "unsub"}]
    BY DEF Init
  <2> QED
    BY <2>1, <2>2 DEF Init, SubTypes, Phases
<1>2. SessionShape
  BY DEF Init, SessionShape, Live
<1>3. ASSUME NEW s \in Subs PROVE CallAgrees(s) /\ ChannelAgrees(s) /\ ServerAgrees(s)
  BY DEF Init, CallAgrees, ChannelAgrees, ServerAgrees
<1> QED
  BY <1>1, <1>2, <1>3 DEF SubInv

\* The steps that only move events do not touch the subscriptions.
LEMMA OtherStepsSubs ==
  ASSUME SubInv, \/ PublishEvent \/ ComeBack \/ Expire \/ ReceiveEvent \/ HandOver \/ AppRead
                 \/ DropReceiver \/ UNCHANGED vars
  PROVE  SubInv'
<1>1. UNCHANGED subVars
  BY DEF subVars, PublishEvent, ComeBack, Expire, ReceiveEvent, HandOver, AppRead, DropReceiver,
         vars, loopVars, listVars, appVars, serverVars, registry
<1> QED
  BY <1>1 DEF subVars, SubInv, SubTypes, SessionShape, Live, CallAgrees, ChannelAgrees, LastOf,
              ServerAgrees

\* The loop moves between phases while the channel, the calls and the list
\* stay as they are.
LEMMA LoopStepsSubs ==
  ASSUME SubInv, \/ Connect \/ SendAuth \/ PublishChannel \/ ReadList \/ AfterSession \/ Break
  PROVE  SubInv'
<1>1. UNCHANGED <<list, app, chan>>
  BY DEF Connect, SendAuth, PublishChannel, ReadList, AfterSession, Break, listVars, appVars
<1>2. SubTypes'
  BY DEF SubInv, SubTypes, Phases, Connect, SendAuth, PublishChannel, ReadList, AfterSession,
         Break, Forgotten, listVars, appVars, serverVars, registry, loopVars
<1>3. SessionShape'
  BY DEF SubInv, SubTypes, SessionShape, Live, Phases, Connect, SendAuth, PublishChannel, ReadList,
         AfterSession, Break, Forgotten, listVars, appVars, serverVars, registry, loopVars
<1>4. ASSUME NEW s \in Subs PROVE (CallAgrees(s) /\ ChannelAgrees(s))'
  BY <1>1 DEF SubInv, CallAgrees, ChannelAgrees, LastOf
<1>5. ASSUME NEW s \in Subs PROVE ServerAgrees(s)'
  BY DEF SubInv, ServerAgrees, Connect, SendAuth, PublishChannel, ReadList, AfterSession, Break,
         loopVars
<1> QED
  BY <1>2, <1>3, <1>4, <1>5 DEF SubInv

\* resubscribe: the server gets one id of the list after the other; when all
\* are sent it holds the list.
LEMMA ResubscribeSubs == ASSUME SubInv, Resubscribe PROVE SubInv'
<1>1. UNCHANGED <<list, app, chan, holder, sock, authed>> /\ phase = "resub"
  BY DEF Resubscribe, listVars, appVars
<1>2. SubTypes'
  BY <1>1 DEF SubInv, SubTypes, Phases, Resubscribe, ServerTakes, HandleSubscribe, registry
<1>3. SessionShape'
  BY <1>1 DEF SubInv, SubTypes, SessionShape, Live, Resubscribe, ServerTakes, HandleSubscribe,
              registry
<1>4. ASSUME NEW s \in Subs PROVE (CallAgrees(s) /\ ChannelAgrees(s))'
  BY <1>1 DEF SubInv, CallAgrees, ChannelAgrees, LastOf
<1>5. ASSUME NEW s \in Subs PROVE ServerAgrees(s)'
  BY <1>1 DEF SubInv, SessionShape, ServerAgrees, Resubscribe, registry
<1> QED
  BY <1>2, <1>3, <1>4, <1>5 DEF SubInv

\* The session ends: its channel dies with the commands it holds.
LEMMA EndSessionSubs == ASSUME SubInv, EndSession PROVE SubInv'
<1>1. UNCHANGED <<list, app, again, server, denied, authed>> /\ chan' = <<>>
  BY DEF EndSession, listVars, appVars, registry
<1>2. SubTypes'
  BY <1>1 DEF SubInv, SubTypes, Phases, EndSession
<1>3. SessionShape'
  BY <1>1 DEF SubInv, SubTypes, SessionShape, Live, EndSession
<1>4. ASSUME NEW s \in Subs PROVE (CallAgrees(s) /\ ChannelAgrees(s) /\ ServerAgrees(s))'
  BY <1>1 DEF SubInv, CallAgrees, ChannelAgrees, ServerAgrees, EndSession
<1> QED
  BY <1>2, <1>3, <1>4 DEF SubInv

\* The forwarder: the command it takes was the last one for its id, and then
\* the server does what the list says, or a later one is still in the channel.
LEMMA ForwardSubs == ASSUME SubInv, Forward PROVE SubInv'
<1> DEFINE c == Head(chan)
<1>1. /\ UNCHANGED <<list, app, holder, sock, authed, again, phase>>
      /\ phase = "read" /\ chan # <<>> /\ chan' = Tail(chan)
  BY DEF Forward, listVars, appVars, loopVars
<1>2. /\ chan \in Seq(Command) /\ c = chan[1] /\ c \in Command /\ chan' \in Seq(Command)
      /\ Len(chan) \in Nat \ {0} /\ DOMAIN chan = 1 .. Len(chan)
      /\ Len(chan') = Len(chan) - 1 /\ DOMAIN chan' = 1 .. Len(chan')
      /\ \A i \in DOMAIN chan' : i + 1 \in DOMAIN chan /\ chan'[i] = chan[i + 1]
  BY <1>1 DEF SubInv, SubTypes
<1>3. SubTypes'
  BY <1>1, <1>2 DEF SubInv, SubTypes, Forward, ServerTakes, HandleSubscribe, HandleUnsubscribe,
                    registry, Command
<1>4. SessionShape'
  BY <1>1, <1>2 DEF SubInv, SubTypes, SessionShape, Live, Forward, ServerTakes, HandleSubscribe,
                    HandleUnsubscribe, registry
<1>5. ASSUME NEW s \in Subs PROVE CallAgrees(s)'
  BY <1>1 DEF SubInv, CallAgrees
<1>6. ASSUME NEW i \in DOMAIN chan', LastOf(i)' PROVE LastOf(i + 1)
  <2> SUFFICES ASSUME NEW j \in DOMAIN chan, j > i + 1 PROVE chan[j].id # chan[i + 1].id
    BY DEF LastOf
  <2>1. j - 1 \in DOMAIN chan' /\ j - 1 > i /\ chan'[j - 1] = chan[j]
    BY <1>2
  <2> QED
    BY <1>2, <1>6, <2>1 DEF LastOf
<1>7. ASSUME NEW s \in Subs PROVE ChannelAgrees(s)'
  <2> SUFFICES ASSUME app[s] = "none", NEW i \in DOMAIN chan', chan'[i].id = s, LastOf(i)'
               PROVE  chan'[i].op = "sub" <=> s \in list
    BY <1>1 DEF ChannelAgrees
  <2>1. LastOf(i + 1)
    BY <1>6
  <2> QED
    BY <1>2, <2>1 DEF SubInv, ChannelAgrees
<1>8. ASSUME NEW s \in Subs PROVE ServerAgrees(s)'
  <2> SUFFICES ASSUME sock = "open", app[s] = "none", \A i \in DOMAIN chan' : chan'[i].id # s
               PROVE  s \in server' <=> s \in list \ denied'
    BY <1>1 DEF ServerAgrees
  <2>1. \A j \in DOMAIN chan : j > 1 => chan[j].id # s
    <3> SUFFICES ASSUME NEW j \in DOMAIN chan, j > 1 PROVE chan[j].id # s
      OBVIOUS
    <3>1. j - 1 \in DOMAIN chan' /\ chan'[j - 1] = chan[j]
      BY <1>2
    <3> QED
      BY <3>1
  <2>2. authed /\ server \cap denied = {}
    BY <1>1 DEF SubInv, SessionShape
  <2>3. CASE c.id = s
    <3>1. LastOf(1) /\ 1 \in DOMAIN chan
      BY <1>2, <2>1, <2>3 DEF LastOf
    <3>2. c.op = "sub" <=> s \in list
      BY <1>2, <2>3, <3>1 DEF SubInv, ChannelAgrees
    <3> QED
      BY <1>2, <2>2, <2>3, <3>2 DEF Forward, ServerTakes, HandleSubscribe, HandleUnsubscribe,
                                        Command
  <2>4. CASE c.id # s
    <3>1. \A i \in DOMAIN chan : chan[i].id # s
      BY <1>2, <2>1, <2>4
    <3>2. s \in server <=> s \in list \ denied
      BY <1>1, <3>1 DEF SubInv, ServerAgrees
    <3> QED
      BY <2>2, <2>4, <3>2 DEF Forward, ServerTakes, HandleSubscribe, HandleUnsubscribe
  <2> QED
    BY <2>3, <2>4
<1> QED
  BY <1>3, <1>4, <1>5, <1>7, <1>8 DEF SubInv

\* subscribe and unsubscribe change the list first; while the command is
\* outstanding nothing is asked of the channel and the server.
LEMMA CallSubs ==
  ASSUME SubInv, NEW t \in Subs, Subscribe(t) \/ Unsubscribe(t)
  PROVE  SubInv'
<1>1. /\ UNCHANGED <<chan, holder, sock, authed, again, phase, server, denied>>
      /\ phase # "resub" /\ app[t] = "none" /\ app' = [app EXCEPT ![t] = app'[t]]
      /\ \/ app'[t] = "sub" /\ list' = list \cup {t}
         \/ app'[t] = "unsub" /\ list' = list \ {t}
  BY DEF Subscribe, Unsubscribe, loopVars, serverVars, registry, SubInv, SubTypes
<1>2. SubTypes'
  BY <1>1 DEF SubInv, SubTypes
<1>3. SessionShape'
  BY <1>1 DEF SubInv, SessionShape, Live
<1>4. ASSUME NEW s \in Subs PROVE (CallAgrees(s) /\ ChannelAgrees(s) /\ ServerAgrees(s))'
  <2>1. CASE s = t
    BY <1>1, <2>1 DEF SubInv, SubTypes, CallAgrees, ChannelAgrees, ServerAgrees
  <2>2. CASE s # t
    BY <1>1, <2>2 DEF SubInv, SubTypes, CallAgrees, ChannelAgrees, LastOf, ServerAgrees
  <2> QED
    BY <2>1, <2>2
<1> QED
  BY <1>2, <1>3, <1>4 DEF SubInv

\* The command of a call goes to the end of the live channel.  Without a live
\* channel the session has not read the list yet, or is over.
LEMMA SendCommandSubs == ASSUME SubInv, NEW t \in Subs, SendCommand(t) PROVE SubInv'
<1> DEFINE c == [op |-> app[t], id |-> t]
<1>1. /\ UNCHANGED <<list, holder, sock, authed, again, phase, server, denied>>
      /\ app[t] # "none" /\ app' = [app EXCEPT ![t] = "none"]
  BY DEF SendCommand, loopVars, serverVars, registry, listVars
<1>2. c \in Command
  BY <1>1 DEF SubInv, SubTypes, Command
<1>3. CASE holder = "live"
  <2>1. /\ chan \in Seq(Command) /\ chan' = Append(chan, c) /\ chan' \in Seq(Command)
        /\ Len(chan) \in Nat /\ DOMAIN chan = 1 .. Len(chan) /\ DOMAIN chan' = 1 .. Len(chan) + 1
        /\ \A i \in DOMAIN chan : i \in DOMAIN chan' /\ chan'[i] = chan[i]
        /\ chan'[Len(chan) + 1] = c
    <3>1. chan \in Seq(Command) /\ chan' = Append(chan, c)
      BY <1>3 DEF SubInv, SubTypes, SendCommand
    <3> HIDE DEF c
    <3> QED
      BY <1>2, <3>1, AppendFacts
  <2>2. SubTypes'
    BY <1>1, <2>1 DEF SubInv, SubTypes
  <2>3. SessionShape'
    BY <1>1, <1>3 DEF SubInv, SessionShape, Live
  <2>4. ASSUME NEW s \in Subs PROVE (CallAgrees(s) /\ ChannelAgrees(s) /\ ServerAgrees(s))'
    <3>1. CASE s = t
      <4>1. CallAgrees(s)'
        BY <1>1, <3>1 DEF SubInv, SubTypes, CallAgrees
      <4>2. ASSUME NEW i \in DOMAIN chan', LastOf(i)', chan'[i].id = t PROVE i = Len(chan) + 1
        BY <2>1, <4>2 DEF LastOf
      <4>3. ChannelAgrees(s)'
        BY <1>1, <2>1, <3>1, <4>2 DEF SubInv, SubTypes, CallAgrees, ChannelAgrees
      <4>4. ServerAgrees(s)'
        BY <2>1, <3>1 DEF ServerAgrees
      <4> QED
        BY <4>1, <4>3, <4>4
    <3>2. CASE s # t
      <4>1. app'[s] = app[s]
        BY <1>1, <3>2 DEF SubInv, SubTypes
      <4>2. CallAgrees(s)'
        BY <1>1, <4>1 DEF SubInv, CallAgrees
      <4>3. ASSUME NEW i \in DOMAIN chan', LastOf(i)', chan'[i].id = s
            PROVE  i \in DOMAIN chan /\ LastOf(i)
        BY <2>1, <3>2, <4>3 DEF LastOf
      <4>4. ChannelAgrees(s)'
        BY <1>1, <2>1, <4>1, <4>3 DEF SubInv, ChannelAgrees
      <4>5. ServerAgrees(s)'
        BY <1>1, <2>1, <4>1 DEF SubInv, ServerAgrees
      <4> QED
        BY <4>2, <4>4, <4>5
    <3> QED
      BY <3>1, <3>2
  <2> QED
    BY <2>2, <2>3, <2>4 DEF SubInv
<1>4. CASE holder # "live"
  <2>1. chan' = chan /\ chan = <<>> /\ phase # "read"
    BY <1>4 DEF SendCommand, SubInv, SessionShape, Live
  <2>2. SubTypes'
    BY <1>1, <2>1 DEF SubInv, SubTypes
  <2>3. SessionShape'
    BY <1>1, <2>1 DEF SubInv, SessionShape, Live
  <2>4. ASSUME NEW s \in Subs PROVE (CallAgrees(s) /\ ChannelAgrees(s) /\ ServerAgrees(s))'
    BY <1>1, <2>1 DEF SubInv, SubTypes, CallAgrees, ChannelAgrees, ServerAgrees
  <2> QED
    BY <2>2, <2>3, <2>4 DEF SubInv
<1> QED
  BY <1>3, <1>4

\* Every step of the client, the application, the server and the socket keeps
\* the agreement between list, calls, channel and server.
LEMMA NextSubs == SubInv /\ [Next]_vars => SubInv'
<1> SUFFICES ASSUME SubInv, [Next]_vars PROVE SubInv'
  OBVIOUS
<1> QED
  BY OtherStepsSubs, LoopStepsSubs, ResubscribeSubs, EndSessionSubs, ForwardSubs, CallSubs,
     SendCommandSubs DEF Next, LoopStep

\* Whatever races with a reconnect, once a session is up and no call and no
\* command is outstanding the server's registry holds exactly the subscriptions
\* the client stores, but for those it refused: the list resubscribe reads and
\* the commands behind it agree, whichever SUBSCRIBE the server refuses.
THEOREM SubscriptionsAgree == Spec => []SubsAgree
<1>1. SubInv => SubsAgree
  BY DEF SubInv, SubTypes, SubsAgree, Settled, ServerAgrees
<1> QED
  BY <1>1, InitSubs, NextSubs, PTL DEF Spec

-----------------------------------------------------------------------------
(***************************************************************************)
(* An event is handed to the application once.                             *)
(***************************************************************************)

\* No event is published, read or given in the initial state.
LEMMA InitEvents == Init => EventInv
<1> SUFFICES ASSUME Init PROVE EventInv
  OBVIOUS
<1>1. inbound \in Seq(Frame)
  BY DEF Init
<1>2. given \in [Events -> Nat]
  BY DEF Init
<1> QED
  BY <1>1, <1>2 DEF Init, EventInv, EventTypes, HandedOverOnce

\* Steps that move neither frames nor events.
LEMMA OtherStepsEvents ==
  ASSUME EventInv, UNCHANGED <<inbound, published, current, received, given, seen, forgotten>>,
         receiver' = receiver \/ receiver' = FALSE
  PROVE  EventInv'
<1>1. EventTypes'
  BY DEF EventInv, EventTypes
<1>2. HandedOverOnce'
  <2> SUFFICES ASSUME NEW e \in received, e # current
               PROVE  \/ given[e] = 1
                      \/ given[e] > 1 /\ e \in forgotten
                      \/ given[e] = 0 /\ ~receiver'
    BY DEF HandedOverOnce
  <2> QED
    BY DEF EventInv, EventTypes, HandedOverOnce
<1> QED
  BY <1>1, <1>2 DEF EventInv

\* A published event is one frame for each slot of the session.
LEMMA PublishEventTypes == ASSUME EventInv, PublishEvent PROVE inbound' \in Seq(Frame)
<1> DEFINE frame(slot) == [sub |-> slot[1], event |-> published + 1]
<1>1. PICK order \in SetToSeqs(Slots) :
        inbound' = inbound \o [i \in DOMAIN order |-> frame(order[i])]
  BY DEF PublishEvent
<1>2. Cardinality(Slots) \in Nat
  <2>1. IsFiniteSet(Subs \X (0 .. MaxOps))
    <3>1. MaxOps \in Int /\ IsFiniteSet(Subs)
      BY ClientAssumption DEF ClientAssumption
    <3>2. IsFiniteSet(0 .. MaxOps)
      BY <3>1, FS_Interval
    <3> QED
      BY <3>1, <3>2, FS_Product
  <2>2. Slots \subseteq Subs \X (0 .. MaxOps)
    BY DEF Slots
  <2> QED
    BY <2>1, <2>2, FS_Subset, FS_CardinalityType
<1>3. order \in [1 .. Cardinality(Slots) -> Slots]
  BY <1>1, Zenon DEF SetToSeqs
<1>4. published + 1 \in Events
  BY ClientAssumption DEF PublishEvent, ClientAssumption, EventInv, EventTypes, Events
<1>5. [i \in DOMAIN order |-> frame(order[i])] \in Seq(Frame)
  <2>1. ASSUME NEW i \in 1 .. Cardinality(Slots) PROVE frame(order[i]) \in Frame
    BY <1>3, <1>4 DEF Slots, Frame
  <2> QED
    BY <1>2, <1>3, <2>1
<1> QED
  BY <1>1, <1>5 DEF EventInv, EventTypes

\* handle_text_message reads a frame: an event that is remembered was handed
\* over already, one that is not was never read or its id was evicted.
LEMMA ReceiveEventEvents == ASSUME EventInv, ReceiveEvent PROVE EventInv'
<1> DEFINE f == Head(inbound)
           e == f.event
<1>1. /\ UNCHANGED <<published, receiver, given>> /\ current = 0
      /\ received' = received \cup {e} /\ inbound' = Tail(inbound) /\ inbound # <<>>
  BY DEF ReceiveEvent, serverVars
<1>2. e \in Events /\ inbound' \in Seq(Frame) /\ e \in Nat /\ e # 0
  <2>1. f \in Frame /\ inbound' \in Seq(Frame)
    BY <1>1 DEF EventInv, EventTypes
  <2> QED
    BY <2>1, ClientAssumption DEF Frame, Events, ClientAssumption
<1>3. CASE e \in seen
  <2>1. UNCHANGED <<seen, forgotten, current>>
    BY <1>3 DEF ReceiveEvent
  <2>2. received' = received
    BY <1>1, <1>3 DEF EventInv
  <2> QED
    BY <1>1, <1>2, <2>1, <2>2 DEF EventInv, EventTypes, HandedOverOnce
<1>4. CASE e \notin seen
  <2>1. PICK gone \in Forget(seen \cup {e}) : Remember(e, gone)
    BY <1>4 DEF ReceiveEvent
  <2>2. gone \subseteq seen \cup {e}
    BY <2>1 DEF Forget, kSubset
  <2>3. current' = e
    BY <1>4 DEF ReceiveEvent
  <2>4. EventTypes'
    BY <1>1, <1>2, <2>3 DEF EventInv, EventTypes
  <2>5. seen' \subseteq received' /\ received' \subseteq seen' \cup forgotten'
    BY <1>1, <2>1, <2>2 DEF EventInv, Remember
  <2>6. given[e] > 0 => e \in forgotten
    BY <1>2, <1>4 DEF EventInv
  <2>7. \A x \in Events \ received' : given'[x] = 0
    BY <1>1 DEF EventInv
  <2>8. HandedOverOnce'
    <3>1. ASSUME NEW x \in received
          PROVE  \/ given[x] = 1
                 \/ given[x] > 1 /\ x \in forgotten'
                 \/ given[x] = 0 /\ ~receiver
      <4>1. x # current
        BY <1>1, ClientAssumption DEF EventInv, EventTypes, Events, ClientAssumption
      <4> QED
        BY <2>1, <4>1 DEF EventInv, HandedOverOnce, Remember
    <3>2. received' \ {current'} \subseteq received
      BY <1>1, <2>3
    <3> QED
      BY <1>1, <3>1, <3>2 DEF HandedOverOnce
  <2> QED
    BY <1>1, <2>1, <2>3, <2>4, <2>5, <2>6, <2>7, <2>8 DEF EventInv, Remember
<1> QED
  BY <1>3, <1>4

\* The event is put into the channel, or lost because nobody receives.
LEMMA HandOverEvents == ASSUME EventInv, HandOver PROVE EventInv'
<1>1. /\ UNCHANGED <<inbound, published, receiver, received, seen, forgotten>>
      /\ current # 0 /\ current' = 0 /\ current \in received /\ current \in Events
      /\ IF receiver THEN given' = [given EXCEPT ![current] = @ + 1] ELSE given' = given
  BY DEF HandOver, serverVars, EventInv, EventTypes
<1>2. EventTypes'
  BY <1>1 DEF EventInv, EventTypes
<1>3. \A x \in Events \ received' : given'[x] = 0
  BY <1>1 DEF EventInv, EventTypes
<1>4. HandedOverOnce'
  <2> SUFFICES ASSUME NEW x \in received
               PROVE  \/ given'[x] = 1
                      \/ given'[x] > 1 /\ x \in forgotten
                      \/ given'[x] = 0 /\ ~receiver
    BY <1>1 DEF HandedOverOnce
  <2>1. CASE x = current
    BY <1>1, <2>1 DEF EventInv, EventTypes
  <2>2. CASE x # current
    BY <1>1, <2>2 DEF EventInv, EventTypes, HandedOverOnce
  <2> QED
    BY <2>1, <2>2
<1> QED
  BY <1>1, <1>2, <1>3, <1>4 DEF EventInv

\* Every step keeps what the set of seen ids says of the events.
LEMMA NextEvents == EventInv /\ [Next]_vars => EventInv'
<1> SUFFICES ASSUME EventInv, [Next]_vars PROVE EventInv'
  OBVIOUS
<1>1. CASE PublishEvent
  <2>1. UNCHANGED inVars /\ published' \in Nat
    BY <1>1 DEF PublishEvent, EventInv, EventTypes
  <2> QED
    BY <1>1, <2>1, PublishEventTypes DEF EventInv, EventTypes, HandedOverOnce, inVars
<1>2. CASE EndSession
  <2>1. UNCHANGED <<published, inVars>> /\ inbound' \in Seq(Frame)
    BY <1>2 DEF EndSession
  <2> QED
    BY <2>1 DEF EventInv, EventTypes, HandedOverOnce, inVars
<1>3. CASE ReceiveEvent
  BY <1>3, ReceiveEventEvents
<1>4. CASE HandOver
  BY <1>4, HandOverEvents
<1>5. CASE \/ Connect \/ SendAuth \/ PublishChannel \/ ReadList \/ Resubscribe \/ AfterSession
           \/ Forward \/ AppRead \/ DropReceiver \/ Break \/ ComeBack \/ Expire \/ UNCHANGED vars
  <2>1. UNCHANGED <<inbound, published, current, received, given, seen, forgotten>>
    BY <1>5 DEF Connect, SendAuth, PublishChannel, ReadList, Resubscribe, AfterSession, Forward,
                AppRead, DropReceiver, Break, ComeBack, Expire, vars, inVars, serverVars
  <2>2. receiver' = receiver \/ receiver' = FALSE
    BY <1>5 DEF Connect, SendAuth, PublishChannel, ReadList, Resubscribe, AfterSession, Forward,
                AppRead, DropReceiver, Break, ComeBack, Expire, vars, inVars
  <2> QED
    BY <2>1, <2>2, OtherStepsEvents
<1>6. ASSUME NEW s \in Subs, Subscribe(s) \/ Unsubscribe(s) \/ SendCommand(s) PROVE EventInv'
  <2>1. UNCHANGED <<inbound, published, current, received, given, seen, forgotten, receiver>>
    BY <1>6 DEF Subscribe, Unsubscribe, SendCommand, inVars, serverVars
  <2> QED
    BY <2>1, OtherStepsEvents
<1> QED
  BY <1>1, <1>2, <1>3, <1>4, <1>5, <1>6 DEF Next, LoopStep

\* However many subscriptions and sessions bring an event, the application
\* gets it once, and a second time only if its id was evicted meanwhile; it is
\* lost only when the application has dropped the receiver.
THEOREM EventsAreHandedOverOnce == Spec => []HandedOverOnce
<1>1. EventInv => HandedOverOnce
  BY DEF EventInv
<1> QED
  BY <1>1, InitEvents, NextEvents, PTL DEF Spec
=============================================================================
