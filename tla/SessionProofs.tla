--------------------------- MODULE SessionProofs ----------------------------
(***************************************************************************)
(* One connection's tasks: the clean-up is complete unless the wait for    *)
(* the reader ran out (CleanUpIsComplete), and a Close follows every       *)
(* control frame and is sent once (CloseComesLast), for any capacity of    *)
(* the control channel, any number of requests and events, and any timing. *)
(***************************************************************************)
EXTENDS Session, SequenceTheorems, TLAPS

\* The states of handle_websocket once the reader is given up or has ended.
PastReading == {"awaitWriter", "cleanup", "cleanupSubs", "cleanupConn", "done"}

\* What each task may rely on at the place where it is.
Placed ==
    /\ reader = "batch" => items > 0
    /\ reader = "reply" => reply.frame \in Frames
    /\ events <= queued
    /\ writer = "sending" <=> frame # "none"
    /\ writer # "done" => slowCount <= SlowLimit

\* Who has ended, and who knows of it.
Stages ==
    /\ task \in {"awaitReader", "answer"} => writer = "done"
    /\ task = "answer" => reader = "ended" /\ sink = "handed"
    /\ task \in PastReading => reader = "ended" \/ (orphan /\ writer = "done")
    /\ goodbye # "open" => task \in PastReading
    /\ orphan => writer = "done"

\* The clean-up's steps stay done when no reader is left to undo them.
Cleaned ==
    ~orphan => /\ task \in {"cleanupSubs", "cleanupConn", "done"} => ~present
               /\ task \in {"cleanupConn", "done"} => ~subscribed
               /\ task = "done" => ~registered

\* Who may send Close: the writer while it lives, the connection task with a
\* sink that a failed or slow writer handed back.
SinkRules ==
    /\ sink = "handed" => writer = "done" /\ (failed \/ slowCount > SlowLimit) /\ ~Closed
    /\ writer # "done" => ~failed /\ ~Closed
    /\ writer = "closing" => goodbye # "open" /\ ctrl = <<>>

\* The control frame in the writer's hand, if it holds one.
Held == IF frame \in Frames THEN 1 ELSE 0

\* Number of control frames on the wire.
Said == Len(replies) - Len(ctrl) - Held

\* The first n items of r are the control frames of w, in their order.
SpokenIn(w, r, n) ==
    \E place \in [1 .. n -> 1 .. Len(w)] :
        /\ \A i, j \in 1 .. n : i < j => place[i] < place[j]
        /\ \A i \in 1 .. n : w[place[i]] = r[i]
        /\ \A k \in 1 .. Len(w) : w[k] \in Frames => \E i \in 1 .. n : place[i] = k

\* While the writer lives, the replies are those on the wire, then the one in
\* its hand, then those in the channel.
InOrder ==
    writer # "done" =>
        /\ Said \in Nat
        /\ frame \in Frames => frame = replies[Said + 1]
        /\ \A i \in 1 .. Len(ctrl) : ctrl[i] = replies[Said + Held + i]
        /\ SpokenIn(wire, replies, Said)

SessionInv == TypeOK /\ Placed /\ Stages /\ Cleaned /\ SinkRules /\ InOrder /\ CloseOvertakesNothing

-----------------------------------------------------------------------------
\* The parts of TypeOK that different provers see to.
Flags ==
    /\ auth \in BOOLEAN /\ failed \in BOOLEAN /\ orphan \in BOOLEAN
    /\ subscribed \in BOOLEAN /\ present \in BOOLEAN /\ registered \in BOOLEAN

ReplyType == reply \in [frame : Frames \cup {"none"}, close : BOOLEAN]

Channels ==
    /\ inbound \in Seq(Requests \cup {"close"})
    /\ ctrl \in Seq(Frames) /\ Len(ctrl) <= CtrlCap /\ replies \in Seq(Frames)
    /\ wire \in Seq(Frames \cup {"event", "close"})
    /\ frame \in Frames \cup {"none", "event"}

Places ==
    /\ requests \in 0..MaxRequests /\ peer \in {"open", "closing", "gone"}
    /\ reader \in {"reading", "batch", "reply", "ended"} /\ items \in 0..BatchSize
    /\ ending \in {"none", "ClientClose", "Gone"}
    /\ events \in 0..MaxEvents /\ queued \in 0..MaxEvents
    /\ writer \in {"select", "sending", "closing", "done"}
    /\ slowCount \in 0..(SlowLimit + 1)
    /\ sink \in {"writer", "handed", "dropped"} /\ goodbye \in {"open", "sent", "dropped"}
    /\ task \in {"select", "awaitReader", "answer", "awaitWriter", "cleanup", "cleanupSubs",
                 "cleanupConn", "done"}

\* The groups of variables are their members everywhere below.
USE DEF clientVars, readerVars, writerVars, stateVars

\* The four parts are TypeOK.
LEMMA TypeParts == TypeOK <=> Flags /\ ReplyType /\ Channels /\ Places
BY DEF TypeOK, Flags, ReplyType, Channels, Places

\* The flags are Boolean.
LEMMA FlagsStep ==
    ASSUME Flags, [Next]_vars
    PROVE  Flags'
<1>1. CASE \E r \in Requests : ClientSend(r)
    BY <1>1, Zenon DEF ClientSend, Flags
<1>2. CASE ClientClose
    BY <1>2, Zenon DEF ClientClose, Flags
<1>3. CASE ClientGone
    BY <1>3, Zenon DEF ClientGone, Flags
<1>4. CASE FanOut
    BY <1>4, Zenon DEF FanOut, Flags
<1>5. CASE ReadRequest
    BY <1>5, Zenon
    DEF ReadRequest, HandleAuth, HandleSubscribe, HandleSubscribeBatch,
                HandleUnsubscribe, HandleTrack, HandleUntrack, HandlePing, HandlePublish,
                SubscribeItem, Answer, Silent, Flags
<1>6. CASE BatchItem
    BY <1>6, Zenon DEF BatchItem, SubscribeItem, Answer, Flags
<1>7. CASE SendCtrl
    BY <1>7, Zenon DEF SendCtrl, AfterReply, NoReply, Flags
<1>8. CASE ReadClose
    BY <1>8, Zenon DEF ReadClose, Flags
<1>9. CASE TakeCtrl
    BY <1>9, Zenon DEF TakeCtrl, Flags
<1>10. CASE TakeGoodbye
    BY <1>10, Zenon DEF TakeGoodbye, Flags
<1>11. CASE TakeEvent
    BY <1>11, Zenon DEF TakeEvent, Flags
<1>12. CASE SendFast
    BY <1>12, Zenon DEF SendFast, Flags
<1>13. CASE SendSlow
    BY <1>13, Zenon DEF SendSlow, WriterReturns, Flags
<1>14. CASE SendFails
    BY <1>14, Zenon DEF SendFails, WriterReturns, Flags
<1>15. CASE WriterClose
    BY <1>15, Zenon DEF WriterClose, WriterReturns, Flags
<1>16. CASE WriterEndedFirst
    BY <1>16, Zenon DEF WriterEndedFirst, Flags
<1>17. CASE ReaderEndedFirst
    BY <1>17, Zenon DEF ReaderEndedFirst, Flags
<1>18. CASE AwaitReader
    BY <1>18, Zenon DEF AwaitReader, Flags
<1>19. CASE AnswerClose
    BY <1>19, Zenon DEF AnswerClose, Flags
<1>20. CASE AwaitWriter
    BY <1>20, Zenon DEF AwaitWriter, Flags
<1>21. CASE CleanupPresence
    BY <1>21, Zenon DEF CleanupPresence, Flags
<1>22. CASE CleanupSubs
    BY <1>22, Zenon DEF CleanupSubs, Flags
<1>23. CASE CleanupConn
    BY <1>23, Zenon DEF CleanupConn, Flags
<1>24. CASE UNCHANGED vars
    BY <1>24, Zenon DEF vars, Flags
<1>25. QED
    BY <1>1, <1>2, <1>3, <1>4, <1>5, <1>6, <1>7, <1>8, <1>9, <1>10, <1>11, <1>12,
       <1>13, <1>14, <1>15, <1>16, <1>17, <1>18, <1>19, <1>20, <1>21, <1>22, <1>23, <1>24
    DEF Next, Client, Reader, Writer, Task

\* The reader's reply is a frame and an Action.
LEMMA ReplyStep ==
    ASSUME ReplyType, [Next]_vars
    PROVE  ReplyType'
<1>1. CASE \E r \in Requests : ClientSend(r)
    BY <1>1, Zenon DEF ClientSend, ReplyType, Frames
<1>2. CASE ClientClose
    BY <1>2, Zenon DEF ClientClose, ReplyType, Frames
<1>3. CASE ClientGone
    BY <1>3, Zenon DEF ClientGone, ReplyType, Frames
<1>4. CASE FanOut
    BY <1>4, Zenon DEF FanOut, ReplyType, Frames
<1>5. CASE ReadRequest
  <2>1. reply' = reply \/ \E f \in Frames : \E b \in BOOLEAN : reply' = [frame |-> f, close |-> b]
    BY <1>5, Zenon
    DEF ReadRequest, HandleAuth, HandleSubscribe, HandleSubscribeBatch, HandleUnsubscribe, HandleTrack,
        HandleUntrack, HandlePing, HandlePublish, SubscribeItem, Answer, Silent, Frames
  <2>2. QED
    BY <2>1 DEF ReplyType
<1>6. CASE BatchItem
  <2>1. \E f \in Frames : \E b \in BOOLEAN : reply' = [frame |-> f, close |-> b]
    BY <1>6, Zenon DEF BatchItem, SubscribeItem, Answer, Frames
  <2>2. QED
    BY <2>1 DEF ReplyType
<1>7. CASE SendCtrl
    BY <1>7, Zenon DEF SendCtrl, AfterReply, NoReply, ReplyType, Frames
<1>8. CASE ReadClose
    BY <1>8, Zenon DEF ReadClose, ReplyType, Frames
<1>9. CASE TakeCtrl
    BY <1>9, Zenon DEF TakeCtrl, ReplyType, Frames
<1>10. CASE TakeGoodbye
    BY <1>10, Zenon DEF TakeGoodbye, ReplyType, Frames
<1>11. CASE TakeEvent
    BY <1>11, Zenon DEF TakeEvent, ReplyType, Frames
<1>12. CASE SendFast
    BY <1>12, Zenon DEF SendFast, ReplyType, Frames
<1>13. CASE SendSlow
    BY <1>13, Zenon DEF SendSlow, WriterReturns, ReplyType, Frames
<1>14. CASE SendFails
    BY <1>14, Zenon DEF SendFails, WriterReturns, ReplyType, Frames
<1>15. CASE WriterClose
    BY <1>15, Zenon DEF WriterClose, WriterReturns, ReplyType, Frames
<1>16. CASE WriterEndedFirst
    BY <1>16, Zenon DEF WriterEndedFirst, ReplyType, Frames
<1>17. CASE ReaderEndedFirst
    BY <1>17, Zenon DEF ReaderEndedFirst, ReplyType, Frames
<1>18. CASE AwaitReader
    BY <1>18, Zenon DEF AwaitReader, ReplyType, Frames
<1>19. CASE AnswerClose
    BY <1>19, Zenon DEF AnswerClose, ReplyType, Frames
<1>20. CASE AwaitWriter
    BY <1>20, Zenon DEF AwaitWriter, ReplyType, Frames
<1>21. CASE CleanupPresence
    BY <1>21, Zenon DEF CleanupPresence, ReplyType, Frames
<1>22. CASE CleanupSubs
    BY <1>22, Zenon DEF CleanupSubs, ReplyType, Frames
<1>23. CASE CleanupConn
    BY <1>23, Zenon DEF CleanupConn, ReplyType, Frames
<1>24. CASE UNCHANGED vars
    BY <1>24, Zenon DEF vars, ReplyType, Frames
<1>25. QED
    BY <1>1, <1>2, <1>3, <1>4, <1>5, <1>6, <1>7, <1>8, <1>9, <1>10, <1>11, <1>12,
       <1>13, <1>14, <1>15, <1>16, <1>17, <1>18, <1>19, <1>20, <1>21, <1>22, <1>23, <1>24
    DEF Next, Client, Reader, Writer, Task

\* The channels carry frames, within their capacity.
LEMMA ChannelsStep ==
    ASSUME ReplyType, Channels, Placed, [Next]_vars
    PROVE  Channels'
<1>0. /\ \A f \in Frames : Append(ctrl, f) \in Seq(Frames) /\ Len(Append(ctrl, f)) = Len(ctrl) + 1
      /\ \A f \in Frames : Append(replies, f) \in Seq(Frames)
      /\ \A f \in Frames \cup {"event", "close"} : 
            Append(wire, f) \in Seq(Frames \cup {"event", "close"})
      /\ Len(ctrl) \in Nat
      /\ <<>> \in Seq(Frames) /\ Len(<<>>) = 0
    BY DEF Channels
<1>1. CASE \E r \in Requests : ClientSend(r)
    BY <1>1, <1>0, SessionAssumption DEF ClientSend, Channels, Placed, Requests
<1>2. CASE ClientClose
    BY <1>2, <1>0, SessionAssumption DEF ClientClose, Channels, Placed, Requests
<1>3. CASE ClientGone
    BY <1>3, <1>0, SessionAssumption DEF ClientGone, Channels, Placed, Requests
<1>4. CASE FanOut
    BY <1>4, <1>0, SessionAssumption DEF FanOut, Channels, Placed, Requests
<1>5. CASE ReadRequest
    BY <1>5, <1>0, SessionAssumption
    DEF ReadRequest, HandleAuth, HandleSubscribe, HandleSubscribeBatch,
                HandleUnsubscribe, HandleTrack, HandleUntrack, HandlePing, HandlePublish,
                SubscribeItem, Answer, Silent, Channels, Placed, Requests
<1>6. CASE BatchItem
    BY <1>6, <1>0, SessionAssumption
    DEF BatchItem, SubscribeItem, Answer, Channels, Placed, Requests
<1>7. CASE SendCtrl
  <2>1. UNCHANGED <<inbound, wire, frame>>
    BY <1>7 DEF SendCtrl, AfterReply
  <2>2. \/ UNCHANGED <<ctrl, replies>>
        \/ /\ ctrl' = Append(ctrl, reply.frame) /\ replies' = Append(replies, reply.frame)
           /\ Len(ctrl) < CtrlCap /\ reply.frame \in Frames
    BY <1>7 DEF SendCtrl, Placed
  <2>3. ctrl' \in Seq(Frames) /\ replies' \in Seq(Frames)
    BY <1>0, <2>2, Zenon DEF Channels
  <2>4. Len(ctrl') <= CtrlCap
    <3>1. CASE ctrl' = ctrl
      BY <3>1 DEF Channels
    <3>2. CASE ctrl' = Append(ctrl, reply.frame) /\ Len(ctrl) < CtrlCap /\ reply.frame \in Frames
      <4>1. Len(ctrl') = Len(ctrl) + 1
        BY <1>0, <3>2, Zenon
      <4>2. QED
        BY <1>0, <3>2, <4>1, SessionAssumption
    <3>3. QED
      BY <2>2, <3>1, <3>2
  <2>5. QED
    BY <2>1, <2>3, <2>4, Zenon DEF Channels
<1>8. CASE ReadClose
    BY <1>8, <1>0, SessionAssumption DEF ReadClose, Channels, Placed, Requests
<1>9. CASE TakeCtrl
    BY <1>9, <1>0, SessionAssumption DEF TakeCtrl, Channels, Placed, Requests
<1>10. CASE TakeGoodbye
    BY <1>10, <1>0, SessionAssumption DEF TakeGoodbye, Channels, Placed, Requests
<1>11. CASE TakeEvent
    BY <1>11, <1>0, SessionAssumption DEF TakeEvent, Channels, Placed, Requests
<1>12. CASE SendFast
    BY <1>12, <1>0, SessionAssumption DEF SendFast, Channels, Placed, Requests
<1>13. CASE SendSlow
  <2>1. inbound' = inbound /\ replies' = replies /\ frame' = "none"
    BY <1>13 DEF SendSlow
  <2>2. wire' = Append(wire, frame) /\ frame \in Frames \cup {"event", "close"}
    BY <1>13 DEF SendSlow, Channels, Placed
  <2>3. ctrl' = ctrl \/ ctrl' = <<>>
    BY <1>13 DEF SendSlow, WriterReturns
  <2>4. wire' \in Seq(Frames \cup {"event", "close"}) /\ ctrl' \in Seq(Frames)
    BY <1>0, <2>2, <2>3, Zenon DEF Channels
  <2>5. Len(ctrl') <= CtrlCap
    BY <1>0, <2>3, SessionAssumption DEF Channels
  <2>6. QED
    BY <2>1, <2>4, <2>5, Zenon DEF Channels
<1>14. CASE SendFails
    BY <1>14, <1>0, SessionAssumption DEF SendFails, WriterReturns, Channels, Placed, Requests
<1>15. CASE WriterClose
  <2>1. UNCHANGED <<inbound, replies, frame>> /\ ctrl' = <<>>
    BY <1>15 DEF WriterClose, WriterReturns
  <2>2. wire' = wire \/ wire' = Append(wire, "close")
    BY <1>15 DEF WriterClose
  <2>3. wire' \in Seq(Frames \cup {"event", "close"})
    BY <1>0, <2>2, Zenon DEF Channels
  <2>4. Len(ctrl') <= CtrlCap
    BY <1>0, <2>1, SessionAssumption
  <2>5. QED
    BY <1>0, <2>1, <2>3, <2>4, Zenon DEF Channels
<1>16. CASE WriterEndedFirst
    BY <1>16, <1>0, SessionAssumption DEF WriterEndedFirst, Channels, Placed, Requests
<1>17. CASE ReaderEndedFirst
    BY <1>17, <1>0, SessionAssumption DEF ReaderEndedFirst, Channels, Placed, Requests
<1>18. CASE AwaitReader
    BY <1>18, <1>0, SessionAssumption DEF AwaitReader, Channels, Placed, Requests
<1>19. CASE AnswerClose
  <2>1. UNCHANGED <<inbound, ctrl, replies, frame>>
    BY <1>19 DEF AnswerClose
  <2>2. wire' = wire \/ wire' = Append(wire, "close")
    BY <1>19 DEF AnswerClose
  <2>3. wire' \in Seq(Frames \cup {"event", "close"})
    BY <1>0, <2>2, Zenon DEF Channels
  <2>4. QED
    BY <2>1, <2>3, Zenon DEF Channels
<1>20. CASE AwaitWriter
    BY <1>20, <1>0, SessionAssumption DEF AwaitWriter, Channels, Placed, Requests
<1>21. CASE CleanupPresence
    BY <1>21, <1>0, SessionAssumption DEF CleanupPresence, Channels, Placed, Requests
<1>22. CASE CleanupSubs
    BY <1>22, <1>0, SessionAssumption DEF CleanupSubs, Channels, Placed, Requests
<1>23. CASE CleanupConn
    BY <1>23, <1>0, SessionAssumption DEF CleanupConn, Channels, Placed, Requests
<1>24. CASE UNCHANGED vars
    BY <1>24, <1>0, SessionAssumption DEF vars, Channels, Placed, Requests
<1>25. QED
    BY <1>1, <1>2, <1>3, <1>4, <1>5, <1>6, <1>7, <1>8, <1>9, <1>10, <1>11, <1>12,
       <1>13, <1>14, <1>15, <1>16, <1>17, <1>18, <1>19, <1>20, <1>21, <1>22, <1>23, <1>24
    DEF Next, Client, Reader, Writer, Task

\* Every task is at one of its places, every counter in its range.
LEMMA PlacesStep ==
    ASSUME Places, Placed, Channels, [Next]_vars
    PROVE  Places' /\ Placed'
<1>0. ctrl # <<>> => Head(ctrl) \in Frames
    BY HeadTailProperties DEF Channels
<1>1. CASE \E r \in Requests : ClientSend(r)
    BY <1>1, <1>0, SessionAssumption DEF ClientSend, Places, Placed, Frames
<1>2. CASE ClientClose
    BY <1>2, <1>0, SessionAssumption DEF ClientClose, Places, Placed, Frames
<1>3. CASE ClientGone
    BY <1>3, <1>0, SessionAssumption DEF ClientGone, Places, Placed, Frames
<1>4. CASE FanOut
    BY <1>4, <1>0, SessionAssumption DEF FanOut, Places, Placed, Frames
<1>5. CASE ReadRequest
    BY <1>5, <1>0, SessionAssumption
    DEF ReadRequest, HandleAuth, HandleSubscribe, HandleSubscribeBatch,
                HandleUnsubscribe, HandleTrack, HandleUntrack, HandlePing, HandlePublish,
                SubscribeItem, Answer, Silent, Places, Placed, Frames
<1>6. CASE BatchItem
    BY <1>6, <1>0, SessionAssumption DEF BatchItem, SubscribeItem, Answer, Places, Placed, Frames
<1>7. CASE SendCtrl
    BY <1>7, <1>0, SessionAssumption DEF SendCtrl, AfterReply, NoReply, Places, Placed, Frames
<1>8. CASE ReadClose
    BY <1>8, <1>0, SessionAssumption DEF ReadClose, Places, Placed, Frames
<1>9. CASE TakeCtrl
    BY <1>9, <1>0, SessionAssumption DEF TakeCtrl, Places, Placed, Frames
<1>10. CASE TakeGoodbye
    BY <1>10, <1>0, SessionAssumption DEF TakeGoodbye, Places, Placed, Frames
<1>11. CASE TakeEvent
    BY <1>11, <1>0, SessionAssumption DEF TakeEvent, Places, Placed, Frames
<1>12. CASE SendFast
    BY <1>12, <1>0, SessionAssumption DEF SendFast, Places, Placed, Frames
<1>13. CASE SendSlow
    BY <1>13, <1>0, SessionAssumption DEF SendSlow, WriterReturns, Places, Placed, Frames
<1>14. CASE SendFails
    BY <1>14, <1>0, SessionAssumption DEF SendFails, WriterReturns, Places, Placed, Frames
<1>15. CASE WriterClose
    BY <1>15, <1>0, SessionAssumption DEF WriterClose, WriterReturns, Places, Placed, Frames
<1>16. CASE WriterEndedFirst
    BY <1>16, <1>0, SessionAssumption DEF WriterEndedFirst, Places, Placed, Frames
<1>17. CASE ReaderEndedFirst
    BY <1>17, <1>0, SessionAssumption DEF ReaderEndedFirst, Places, Placed, Frames
<1>18. CASE AwaitReader
    BY <1>18, <1>0, SessionAssumption DEF AwaitReader, Places, Placed, Frames
<1>19. CASE AnswerClose
    BY <1>19, <1>0, SessionAssumption DEF AnswerClose, Places, Placed, Frames
<1>20. CASE AwaitWriter
    BY <1>20, <1>0, SessionAssumption DEF AwaitWriter, Places, Placed, Frames
<1>21. CASE CleanupPresence
    BY <1>21, <1>0, SessionAssumption DEF CleanupPresence, Places, Placed, Frames
<1>22. CASE CleanupSubs
    BY <1>22, <1>0, SessionAssumption DEF CleanupSubs, Places, Placed, Frames
<1>23. CASE CleanupConn
    BY <1>23, <1>0, SessionAssumption DEF CleanupConn, Places, Placed, Frames
<1>24. CASE UNCHANGED vars
    BY <1>24, <1>0, SessionAssumption DEF vars, Places, Placed, Frames
<1>25. QED
    BY <1>1, <1>2, <1>3, <1>4, <1>5, <1>6, <1>7, <1>8, <1>9, <1>10, <1>11, <1>12,
       <1>13, <1>14, <1>15, <1>16, <1>17, <1>18, <1>19, <1>20, <1>21, <1>22, <1>23, <1>24
    DEF Next, Client, Reader, Writer, Task

\* Every step keeps the order in which the tasks end.
LEMMA StagesStep ==
    ASSUME TypeOK, Stages, [Next]_vars
    PROVE  Stages'
<1>0. task \in {"select", "awaitReader", "answer"} \cup PastReading
    BY DEF TypeOK, PastReading
<1>1. CASE \E r \in Requests : ClientSend(r)
    BY <1>1, <1>0 DEF ClientSend, Stages, PastReading
<1>2. CASE ClientClose
    BY <1>2, <1>0 DEF ClientClose, Stages, PastReading
<1>3. CASE ClientGone
    BY <1>3, <1>0 DEF ClientGone, Stages, PastReading
<1>4. CASE FanOut
    BY <1>4, <1>0 DEF FanOut, Stages, PastReading
<1>5. CASE ReadRequest
    BY <1>5, <1>0
    DEF ReadRequest, HandleAuth, HandleSubscribe, HandleSubscribeBatch,
                HandleUnsubscribe, HandleTrack, HandleUntrack, HandlePing, HandlePublish,
                SubscribeItem, Answer, Silent, Stages, PastReading
<1>6. CASE BatchItem
    BY <1>6, <1>0 DEF BatchItem, SubscribeItem, Answer, Stages, PastReading
<1>7. CASE SendCtrl
    BY <1>7, <1>0 DEF SendCtrl, AfterReply, NoReply, Stages, PastReading
<1>8. CASE ReadClose
    BY <1>8, <1>0 DEF ReadClose, Stages, PastReading
<1>9. CASE TakeCtrl
    BY <1>9, <1>0 DEF TakeCtrl, Stages, PastReading
<1>10. CASE TakeGoodbye
    BY <1>10, <1>0 DEF TakeGoodbye, Stages, PastReading
<1>11. CASE TakeEvent
    BY <1>11, <1>0 DEF TakeEvent, Stages, PastReading
<1>12. CASE SendFast
    BY <1>12, <1>0 DEF SendFast, Stages, PastReading
<1>13. CASE SendSlow
    BY <1>13, <1>0 DEF SendSlow, WriterReturns, Stages, PastReading
<1>14. CASE SendFails
    BY <1>14, <1>0 DEF SendFails, WriterReturns, Stages, PastReading
<1>15. CASE WriterClose
    BY <1>15, <1>0 DEF WriterClose, WriterReturns, Stages, PastReading
<1>16. CASE WriterEndedFirst
    BY <1>16, <1>0 DEF WriterEndedFirst, Stages, PastReading
<1>17. CASE ReaderEndedFirst
    BY <1>17, <1>0 DEF ReaderEndedFirst, Stages, PastReading
<1>18. CASE AwaitReader
    BY <1>18, <1>0 DEF AwaitReader, Stages, PastReading
<1>19. CASE AnswerClose
    BY <1>19, <1>0 DEF AnswerClose, Stages, PastReading
<1>20. CASE AwaitWriter
    BY <1>20, <1>0 DEF AwaitWriter, Stages, PastReading
<1>21. CASE CleanupPresence
    BY <1>21, <1>0 DEF CleanupPresence, Stages, PastReading
<1>22. CASE CleanupSubs
    BY <1>22, <1>0 DEF CleanupSubs, Stages, PastReading
<1>23. CASE CleanupConn
    BY <1>23, <1>0 DEF CleanupConn, Stages, PastReading
<1>24. CASE UNCHANGED vars
    BY <1>24, <1>0 DEF vars, Stages, PastReading
<1>25. QED
    BY <1>1, <1>2, <1>3, <1>4, <1>5, <1>6, <1>7, <1>8, <1>9, <1>10, <1>11, <1>12,
       <1>13, <1>14, <1>15, <1>16, <1>17, <1>18, <1>19, <1>20, <1>21, <1>22, <1>23, <1>24
    DEF Next, Client, Reader, Writer, Task

\* What the clean-up undid stays undone when the reader has ended.
LEMMA CleanedStep ==
    ASSUME TypeOK, Stages, Cleaned, [Next]_vars
    PROVE  Cleaned'
<1>0. task \in {"select", "awaitReader", "answer"} \cup PastReading
    BY DEF TypeOK, PastReading
<1>1. CASE \E r \in Requests : ClientSend(r)
    BY <1>1, <1>0 DEF ClientSend, Stages, Cleaned, PastReading
<1>2. CASE ClientClose
    BY <1>2, <1>0 DEF ClientClose, Stages, Cleaned, PastReading
<1>3. CASE ClientGone
    BY <1>3, <1>0 DEF ClientGone, Stages, Cleaned, PastReading
<1>4. CASE FanOut
    BY <1>4, <1>0 DEF FanOut, Stages, Cleaned, PastReading
<1>5. CASE ReadRequest
    BY <1>5, <1>0
    DEF ReadRequest, HandleAuth, HandleSubscribe, HandleSubscribeBatch,
                HandleUnsubscribe, HandleTrack, HandleUntrack, HandlePing, HandlePublish,
                SubscribeItem, Answer, Silent, Stages, Cleaned, PastReading
<1>6. CASE BatchItem
    BY <1>6, <1>0 DEF BatchItem, SubscribeItem, Answer, Stages, Cleaned, PastReading
<1>7. CASE SendCtrl
    BY <1>7, <1>0 DEF SendCtrl, AfterReply, NoReply, Stages, Cleaned, PastReading
<1>8. CASE ReadClose
    BY <1>8, <1>0 DEF ReadClose, Stages, Cleaned, PastReading
<1>9. CASE TakeCtrl
    BY <1>9, <1>0 DEF TakeCtrl, Stages, Cleaned, PastReading
<1>10. CASE TakeGoodbye
    BY <1>10, <1>0 DEF TakeGoodbye, Stages, Cleaned, PastReading
<1>11. CASE TakeEvent
    BY <1>11, <1>0 DEF TakeEvent, Stages, Cleaned, PastReading
<1>12. CASE SendFast
    BY <1>12, <1>0 DEF SendFast, Stages, Cleaned, PastReading
<1>13. CASE SendSlow
    BY <1>13, <1>0 DEF SendSlow, WriterReturns, Stages, Cleaned, PastReading
<1>14. CASE SendFails
    BY <1>14, <1>0 DEF SendFails, WriterReturns, Stages, Cleaned, PastReading
<1>15. CASE WriterClose
    BY <1>15, <1>0 DEF WriterClose, WriterReturns, Stages, Cleaned, PastReading
<1>16. CASE WriterEndedFirst
    BY <1>16, <1>0 DEF WriterEndedFirst, Stages, Cleaned, PastReading
<1>17. CASE ReaderEndedFirst
    BY <1>17, <1>0 DEF ReaderEndedFirst, Stages, Cleaned, PastReading
<1>18. CASE AwaitReader
    BY <1>18, <1>0 DEF AwaitReader, Stages, Cleaned, PastReading
<1>19. CASE AnswerClose
    BY <1>19, <1>0 DEF AnswerClose, Stages, Cleaned, PastReading
<1>20. CASE AwaitWriter
    BY <1>20, <1>0 DEF AwaitWriter, Stages, Cleaned, PastReading
<1>21. CASE CleanupPresence
    BY <1>21, <1>0 DEF CleanupPresence, Stages, Cleaned, PastReading
<1>22. CASE CleanupSubs
    BY <1>22, <1>0 DEF CleanupSubs, Stages, Cleaned, PastReading
<1>23. CASE CleanupConn
    BY <1>23, <1>0 DEF CleanupConn, Stages, Cleaned, PastReading
<1>24. CASE UNCHANGED vars
    BY <1>24, <1>0 DEF vars, Stages, Cleaned, PastReading
<1>25. QED
    BY <1>1, <1>2, <1>3, <1>4, <1>5, <1>6, <1>7, <1>8, <1>9, <1>10, <1>11, <1>12,
       <1>13, <1>14, <1>15, <1>16, <1>17, <1>18, <1>19, <1>20, <1>21, <1>22, <1>23, <1>24
    DEF Next, Client, Reader, Writer, Task

\* The wire holds a Close when one is appended, and not otherwise.
LEMMA ClosedAppend ==
    ASSUME wire \in Seq(Frames \cup {"event", "close"}), NEW f \in Frames \cup {"event", "close"},
           wire' = Append(wire, f)
    PROVE  Closed' <=> Closed \/ f = "close"
<1>1. /\ Len(wire) \in Nat /\ Len(wire') = Len(wire) + 1
      /\ DOMAIN wire = 1 .. Len(wire) /\ DOMAIN wire' = 1 .. (Len(wire) + 1)
      /\ \A i \in 1 .. Len(wire) : wire'[i] = wire[i]
      /\ wire'[Len(wire) + 1] = f
    BY AppendProperties
<1>2. \A i \in 1 .. (Len(wire) + 1) : i \in 1 .. Len(wire) \/ i = Len(wire) + 1
    BY <1>1
<1>3. Len(wire) + 1 \in 1 .. (Len(wire) + 1) /\ 1 .. Len(wire) \subseteq 1 .. (Len(wire) + 1)
    BY <1>1
<1>4. QED
    BY <1>1, <1>2, <1>3, Zenon DEF Closed

\* Every step keeps the rules of who may send Close.
LEMMA SinkStep ==
    ASSUME TypeOK, Placed, Stages, SinkRules, [Next]_vars
    PROVE  SinkRules'
<1>0. /\ writer \in {"select", "sending", "closing", "done"}
      /\ sink \in {"writer", "handed", "dropped"} /\ slowCount \in Nat /\ SlowLimit \in Nat
      /\ writer # "done" => slowCount <= SlowLimit
    BY SessionAssumption DEF TypeOK, Placed
<1>a. wire' = wire => (Closed' <=> Closed)
    BY DEF Closed
<1>b. writer = "sending" => /\ frame \in Frames \cup {"event"}
                            /\ wire' = Append(wire, frame) => (Closed' <=> Closed)
  <2>1. writer = "sending" => frame \in Frames \cup {"event"} /\ frame # "close"
    BY DEF TypeOK, Placed, Frames
  <2>2. QED
    BY <2>1, ClosedAppend DEF TypeOK
<1>c. task \in {"select", "awaitReader", "answer"} \cup PastReading
    BY DEF TypeOK, PastReading
<1>1. CASE \E r \in Requests : ClientSend(r)
    BY <1>1, <1>0, <1>a, <1>b, <1>c DEF ClientSend, SinkRules, Stages, PastReading
<1>2. CASE ClientClose
    BY <1>2, <1>0, <1>a, <1>b, <1>c DEF ClientClose, SinkRules, Stages, PastReading
<1>3. CASE ClientGone
    BY <1>3, <1>0, <1>a, <1>b, <1>c DEF ClientGone, SinkRules, Stages, PastReading
<1>4. CASE FanOut
    BY <1>4, <1>0, <1>a, <1>b, <1>c DEF FanOut, SinkRules, Stages, PastReading
<1>5. CASE ReadRequest
    BY <1>5, <1>0, <1>a, <1>b, <1>c
    DEF ReadRequest, HandleAuth, HandleSubscribe, HandleSubscribeBatch,
                HandleUnsubscribe, HandleTrack, HandleUntrack, HandlePing, HandlePublish,
                SubscribeItem, Answer, Silent, SinkRules, Stages, PastReading
<1>6. CASE BatchItem
    BY <1>6, <1>0, <1>a, <1>b, <1>c
    DEF BatchItem, SubscribeItem, Answer, SinkRules, Stages, PastReading
<1>7. CASE SendCtrl
    BY <1>7, <1>0, <1>a, <1>b, <1>c
    DEF SendCtrl, AfterReply, NoReply, SinkRules, Stages, PastReading
<1>8. CASE ReadClose
    BY <1>8, <1>0, <1>a, <1>b, <1>c DEF ReadClose, SinkRules, Stages, PastReading
<1>9. CASE TakeCtrl
    BY <1>9, <1>0, <1>a, <1>b, <1>c DEF TakeCtrl, SinkRules, Stages, PastReading
<1>10. CASE TakeGoodbye
    BY <1>10, <1>0, <1>a, <1>b, <1>c DEF TakeGoodbye, SinkRules, Stages, PastReading
<1>11. CASE TakeEvent
    BY <1>11, <1>0, <1>a, <1>b, <1>c DEF TakeEvent, SinkRules, Stages, PastReading
<1>12. CASE SendFast
    BY <1>12, <1>0, <1>a, <1>b, <1>c DEF SendFast, SinkRules, Stages, PastReading
<1>13. CASE SendSlow
    BY <1>13, <1>0, <1>a, <1>b, <1>c DEF SendSlow, WriterReturns, SinkRules, Stages, PastReading
<1>14. CASE SendFails
    BY <1>14, <1>0, <1>a, <1>b, <1>c DEF SendFails, WriterReturns, SinkRules, Stages, PastReading
<1>15. CASE WriterClose
    BY <1>15, <1>0, <1>a, <1>b, <1>c
    DEF WriterClose, WriterReturns, SinkRules, Stages, PastReading
<1>16. CASE WriterEndedFirst
    BY <1>16, <1>0, <1>a, <1>b, <1>c DEF WriterEndedFirst, SinkRules, Stages, PastReading
<1>17. CASE ReaderEndedFirst
    BY <1>17, <1>0, <1>a, <1>b, <1>c DEF ReaderEndedFirst, SinkRules, Stages, PastReading
<1>18. CASE AwaitReader
    BY <1>18, <1>0, <1>a, <1>b, <1>c DEF AwaitReader, SinkRules, Stages, PastReading
<1>19. CASE AnswerClose
    BY <1>19, <1>0, <1>a, <1>b, <1>c DEF AnswerClose, SinkRules, Stages, PastReading
<1>20. CASE AwaitWriter
    BY <1>20, <1>0, <1>a, <1>b, <1>c DEF AwaitWriter, SinkRules, Stages, PastReading
<1>21. CASE CleanupPresence
    BY <1>21, <1>0, <1>a, <1>b, <1>c DEF CleanupPresence, SinkRules, Stages, PastReading
<1>22. CASE CleanupSubs
    BY <1>22, <1>0, <1>a, <1>b, <1>c DEF CleanupSubs, SinkRules, Stages, PastReading
<1>23. CASE CleanupConn
    BY <1>23, <1>0, <1>a, <1>b, <1>c DEF CleanupConn, SinkRules, Stages, PastReading
<1>24. CASE UNCHANGED vars
    BY <1>24, <1>0, <1>a, <1>b, <1>c DEF vars, SinkRules, Stages, PastReading
<1>25. QED
    BY <1>1, <1>2, <1>3, <1>4, <1>5, <1>6, <1>7, <1>8, <1>9, <1>10, <1>11, <1>12,
       <1>13, <1>14, <1>15, <1>16, <1>17, <1>18, <1>19, <1>20, <1>21, <1>22, <1>23, <1>24
    DEF Next, Client, Reader, Writer, Task

-----------------------------------------------------------------------------
WireItems == Frames \cup {"event", "close"}

\* A frame that is no control frame leaves the spoken replies as they are ...
LEMMA SpokenOther ==
    ASSUME NEW w \in Seq(WireItems), NEW r \in Seq(Frames), NEW n \in 0 .. Len(r),
           NEW f \in WireItems, f \notin Frames, SpokenIn(w, r, n)
    PROVE  SpokenIn(Append(w, f), r, n)
<1>1. PICK place \in [1 .. n -> 1 .. Len(w)] :
           /\ \A i, j \in 1 .. n : i < j => place[i] < place[j]
           /\ \A i \in 1 .. n : w[place[i]] = r[i]
           /\ \A k \in 1 .. Len(w) : w[k] \in Frames => \E i \in 1 .. n : place[i] = k
    BY DEF SpokenIn
<1>2. PICK v : v = Append(w, f)
    OBVIOUS
<1>3. /\ Len(w) \in Nat /\ Len(v) = Len(w) + 1
      /\ \A k \in 1 .. Len(w) : v[k] = w[k]
      /\ v[Len(w) + 1] = f
    BY <1>2, AppendProperties
<1>4. place \in [1 .. n -> 1 .. Len(v)]
    BY <1>3
<1>5. \A i \in 1 .. n : v[place[i]] = r[i]
    BY <1>1, <1>3
<1>6. \A k \in 1 .. Len(v) : v[k] \in Frames => \E i \in 1 .. n : place[i] = k
  <2>1. \A k \in 1 .. Len(v) : v[k] \in Frames => k \in 1 .. Len(w) /\ w[k] \in Frames
    BY <1>3
  <2>2. QED
    BY <1>1, <2>1, Zenon
<1>7. SpokenIn(v, r, n)
    BY <1>1, <1>4, <1>5, <1>6, Zenon DEF SpokenIn
<1>8. QED
    BY <1>2, <1>7

\* ... and the next reply becomes one of them.
LEMMA SpokenNext ==
    ASSUME NEW w \in Seq(WireItems), NEW r \in Seq(Frames), NEW n \in Nat, n + 1 <= Len(r),
           SpokenIn(w, r, n)
    PROVE  SpokenIn(Append(w, r[n + 1]), r, n + 1)
<1>1. PICK place \in [1 .. n -> 1 .. Len(w)] :
           /\ \A i, j \in 1 .. n : i < j => place[i] < place[j]
           /\ \A i \in 1 .. n : w[place[i]] = r[i]
           /\ \A k \in 1 .. Len(w) : w[k] \in Frames => \E i \in 1 .. n : place[i] = k
    BY DEF SpokenIn
<1>2. PICK v, last : v = Append(w, r[n + 1]) /\ last = Len(w) + 1
    OBVIOUS
<1>3. /\ Len(w) \in Nat /\ last \in Nat /\ Len(v) = last /\ last = Len(w) + 1
      /\ \A k \in 1 .. Len(w) : v[k] = w[k]
      /\ v[last] = r[n + 1]
    <2>1. r[n + 1] \in WireItems
      BY DEF WireItems
    <2>2. QED
      BY <1>2, <2>1, AppendProperties
<1>4. PICK more : more = [i \in 1 .. (n + 1) |-> IF i = n + 1 THEN last ELSE place[i]]
    OBVIOUS
<1>5. /\ more \in [1 .. (n + 1) -> 1 .. Len(v)]
      /\ more[n + 1] = last
      /\ \A i \in 1 .. n : more[i] = place[i] /\ place[i] \in 1 .. Len(w)
    BY <1>3, <1>4
<1>6. \A i, j \in 1 .. (n + 1) : i < j => more[i] < more[j]
    BY <1>1, <1>3, <1>5
<1>7. \A i \in 1 .. (n + 1) : v[more[i]] = r[i]
    BY <1>1, <1>3, <1>5
<1>8. \A k \in 1 .. Len(v) : v[k] \in Frames => \E i \in 1 .. (n + 1) : more[i] = k
  <2>1. SUFFICES ASSUME NEW k \in 1 .. Len(v), v[k] \in Frames
                 PROVE  \E i \in 1 .. (n + 1) : more[i] = k
    OBVIOUS
  <2>2. CASE k = last
    BY <1>5, <2>2
  <2>3. CASE k \in 1 .. Len(w)
    <3>1. PICK i \in 1 .. n : place[i] = k
      BY <1>1, <1>3, <2>1, <2>3
    <3>2. QED
      BY <1>5, <3>1
  <2>4. QED
    BY <1>3, <2>2, <2>3
<1>9. SpokenIn(v, r, n + 1)
    BY <1>5, <1>6, <1>7, <1>8, Zenon DEF SpokenIn
<1>10. QED
    BY <1>2, <1>9

\* A reply queued after them does not matter.
LEMMA SpokenLonger ==
    ASSUME NEW w, NEW r \in Seq(Frames), NEW f \in Frames, NEW n \in 0 .. Len(r), SpokenIn(w, r, n)
    PROVE  SpokenIn(w, Append(r, f), n)
<1>1. \A i \in 1 .. n : Append(r, f)[i] = r[i]
    BY AppendProperties
<1>2. PICK q : q = Append(r, f)
    OBVIOUS
<1>3. \A i \in 1 .. n : q[i] = r[i]
    BY <1>1, <1>2
<1>4. SpokenIn(w, q, n)
  <2>1. PICK place \in [1 .. n -> 1 .. Len(w)] :
             /\ \A i, j \in 1 .. n : i < j => place[i] < place[j]
             /\ \A i \in 1 .. n : w[place[i]] = r[i]
             /\ \A k \in 1 .. Len(w) : w[k] \in Frames => \E i \in 1 .. n : place[i] = k
    BY Zenon DEF SpokenIn
  <2>2. \A i \in 1 .. n : w[place[i]] = q[i]
    BY <1>3, <2>1
  <2>3. QED
    BY <2>1, <2>2, Zenon DEF SpokenIn
<1>5. QED
    BY <1>2, <1>4

\* A step that leaves the replies, the channel, the writer's hand and the wire
\* alone, or ends the writer, keeps their order.
LEMMA InOrderStill ==
    ASSUME InOrder, \/ writer' = "done"
                    \/ writer # "done" /\ UNCHANGED <<replies, ctrl, frame, wire>>
    PROVE  InOrder'
<1>1. CASE writer' = "done"
    BY <1>1 DEF InOrder
<1>2. CASE writer # "done" /\ UNCHANGED <<replies, ctrl, frame, wire>>
    BY <1>2 DEF InOrder, Said, Held
<1>3. QED
    BY <1>1, <1>2

\* send_ctrl puts the reply at the end of the channel.
LEMMA InOrderSend ==
    ASSUME TypeOK, Placed, InOrder, SendCtrl
    PROVE  InOrder'
<1>1. CASE writer = "done"
    BY <1>1, InOrderStill DEF SendCtrl, AfterReply
<1>2. CASE writer # "done"
  <2>1. PICK f \in Frames : f = reply.frame
    BY DEF SendCtrl, Placed
  <2>2. /\ ctrl' = Append(ctrl, f) /\ replies' = Append(replies, f)
        /\ UNCHANGED <<writer, frame, wire>>
    BY <1>2, <2>1 DEF SendCtrl, AfterReply
  <2>3. ctrl \in Seq(Frames) /\ replies \in Seq(Frames)
    BY DEF TypeOK
  <2>4. /\ Len(ctrl) \in Nat /\ Len(replies) \in Nat
        /\ Len(ctrl') = Len(ctrl) + 1 /\ Len(replies') = Len(replies) + 1
        /\ \A i \in 1 .. Len(ctrl) : ctrl'[i] = ctrl[i]
        /\ ctrl'[Len(ctrl) + 1] = f
        /\ \A i \in 1 .. Len(replies) : replies'[i] = replies[i]
        /\ replies'[Len(replies) + 1] = f
    BY <2>2, <2>3, AppendProperties
  <2>5. Held' = Held /\ Held \in 0 .. 1 /\ (frame \in Frames => Held = 1)
    BY <2>2 DEF Held
  <2>6. Said' = Said /\ Said \in Nat /\ Len(replies) = Said + Held + Len(ctrl)
    BY <1>2, <2>4, <2>5 DEF Said, InOrder
  <2>7. frame \in Frames => frame = replies'[Said + 1]
    BY <1>2, <2>4, <2>5, <2>6 DEF InOrder
  <2>8. \A i \in 1 .. Len(ctrl') : ctrl'[i] = replies'[Said + Held + i]
    <3>1. SUFFICES ASSUME NEW i \in 1 .. (Len(ctrl) + 1)
                   PROVE  ctrl'[i] = replies'[Said + Held + i]
      BY <2>4
    <3>2. CASE i = Len(ctrl) + 1
      BY <2>4, <2>5, <2>6, <3>2
    <3>3. CASE i \in 1 .. Len(ctrl)
      <4>1. ctrl'[i] = ctrl[i] /\ ctrl[i] = replies[Said + Held + i]
        BY <1>2, <2>4, <3>3 DEF InOrder
      <4>2. Said + Held + i \in 1 .. Len(replies)
        BY <2>4, <2>5, <2>6, <3>3
      <4>3. QED
        BY <2>4, <4>1, <4>2
    <3>4. QED
      BY <2>4, <3>1, <3>2, <3>3
  <2>9. SpokenIn(wire, replies', Said)
    <3>1. SpokenIn(wire, replies, Said) /\ Said \in 0 .. Len(replies)
      BY <1>2, <2>4, <2>5, <2>6 DEF InOrder
    <3>2. QED
      BY <2>2, <2>3, <3>1, SpokenLonger
  <2>10. QED
    BY <2>2, <2>5, <2>6, <2>7, <2>8, <2>9 DEF InOrder
<1>3. QED
    BY <1>1, <1>2

\* The writer takes the first frame of the channel into its hand.
LEMMA InOrderTake ==
    ASSUME TypeOK, Placed, InOrder, TakeCtrl
    PROVE  InOrder'
<1>1. /\ frame' = Head(ctrl) /\ ctrl' = Tail(ctrl) /\ ctrl # <<>> /\ writer = "select"
      /\ UNCHANGED <<replies, wire>>
    BY DEF TakeCtrl
<1>2. ctrl \in Seq(Frames) /\ replies \in Seq(Frames)
    BY DEF TypeOK
<1>3. /\ Len(ctrl) \in Nat \ {0} /\ Len(replies) \in Nat
      /\ Head(ctrl) = ctrl[1] /\ Head(ctrl) \in Frames
      /\ Len(ctrl') = Len(ctrl) - 1
      /\ \A i \in 1 .. Len(ctrl') : ctrl'[i] = ctrl[i + 1]
    BY <1>1, <1>2, HeadTailProperties
<1>4. Held = 0 /\ Held' = 1
    BY <1>1, <1>3 DEF Held, Placed, Frames
<1>5. Said' = Said /\ Said \in Nat
    BY <1>1, <1>3, <1>4 DEF Said, InOrder
<1>6. frame' = replies[Said + 1]
    BY <1>1, <1>3, <1>4, <1>5 DEF InOrder
<1>7. \A i \in 1 .. Len(ctrl') : ctrl'[i] = replies[Said + 1 + i]
  <2>1. \A i \in 1 .. Len(ctrl) : ctrl[i] = replies[Said + i]
    BY <1>1, <1>4, <1>5 DEF InOrder
  <2>2. \A i \in 1 .. Len(ctrl') : i + 1 \in 1 .. Len(ctrl) /\ Said + (i + 1) = Said + 1 + i
    BY <1>3, <1>5
  <2>3. QED
    BY <1>3, <2>1, <2>2
<1>8. SpokenIn(wire, replies, Said)
    BY <1>1 DEF InOrder
<1>9. QED
    BY <1>1, <1>4, <1>5, <1>6, <1>7, <1>8 DEF InOrder

\* The frame in hand goes on the wire.
LEMMA InOrderWrite ==
    ASSUME TypeOK, Placed, InOrder, writer = "sending",
           wire' = Append(wire, frame), frame' = "none", UNCHANGED <<replies, ctrl>>
    PROVE  InOrder'
<1>1. /\ ctrl \in Seq(Frames) /\ replies \in Seq(Frames) /\ wire \in Seq(WireItems)
      /\ frame \in Frames \cup {"event"}
    BY DEF TypeOK, Placed, WireItems
<1>2. Len(ctrl) \in Nat /\ Len(replies) \in Nat
    BY <1>1
<1>3. Held' = 0
    BY DEF Held, Frames
<1>4. CASE frame \in Frames
  <2>1. Held = 1
    BY <1>4 DEF Held
  <2>2. /\ Said' = Said + 1 /\ Said \in Nat /\ Said + 1 <= Len(replies)
        /\ Said + Held = Said' + Held'
    BY <1>2, <1>3, <2>1 DEF Said, InOrder
  <2>3. frame = replies[Said + 1] /\ SpokenIn(wire, replies, Said)
    BY <1>4 DEF InOrder
  <2>4. SpokenIn(wire', replies, Said + 1)
    BY <1>1, <2>2, <2>3, SpokenNext
  <2>5. \A i \in 1 .. Len(ctrl) : ctrl[i] = replies[Said' + Held' + i]
    BY <2>2 DEF InOrder
  <2>6. frame' \notin Frames
    BY DEF Frames
  <2>7. QED
    BY <2>2, <2>4, <2>5, <2>6 DEF InOrder
<1>5. CASE frame = "event"
  <2>1. Held = 0 /\ frame \notin Frames /\ frame' \notin Frames
    BY <1>5 DEF Held, Frames
  <2>2. Said' = Said /\ Said \in Nat /\ Said \in 0 .. Len(replies)
    BY <1>2, <1>3, <2>1 DEF Said, InOrder
  <2>3. SpokenIn(wire', replies, Said)
    BY <1>1, <1>5, <2>1, <2>2, SpokenOther DEF InOrder, WireItems
  <2>4. \A i \in 1 .. Len(ctrl) : ctrl[i] = replies[Said' + Held' + i]
    BY <1>3, <2>1, <2>2 DEF InOrder
  <2>5. QED
    BY <2>1, <2>2, <2>3, <2>4 DEF InOrder
<1>6. QED
    BY <1>1, <1>4, <1>5

\* Every step keeps the order of the control frames.
LEMMA InOrderStep ==
    ASSUME TypeOK, Placed, Stages, InOrder, [Next]_vars
    PROVE  InOrder'
<1>1. CASE Client \/ UNCHANGED vars
  <2>1. UNCHANGED <<replies, ctrl, frame, wire, writer>>
    BY <1>1 DEF Client, ClientSend, ClientClose, ClientGone, FanOut, vars
  <2>2. QED
    BY <2>1, InOrderStill
<1>a. CASE Task
  <2>1. UNCHANGED <<replies, ctrl, frame, writer>> /\ (wire' = wire \/ task = "answer")
    BY <1>a
    DEF Task, WriterEndedFirst, ReaderEndedFirst, AwaitReader, AnswerClose, AwaitWriter,
        CleanupPresence, CleanupSubs, CleanupConn
  <2>2. QED
    BY <2>1, InOrderStill DEF Stages
<1>b. CASE ReadRequest \/ BatchItem \/ ReadClose \/ TakeGoodbye
  <2>1. UNCHANGED <<replies, ctrl, frame, wire>> /\ (writer' = writer \/ writer # "done")
    BY <1>b DEF ReadRequest, BatchItem, ReadClose, TakeGoodbye
  <2>2. QED
    BY <2>1, InOrderStill
<1>2. CASE SendCtrl
    BY <1>2, InOrderSend
<1>3. CASE TakeCtrl
    BY <1>3, InOrderTake
<1>4. CASE TakeEvent
  <2>1. /\ frame \notin Frames /\ frame' \notin Frames /\ writer # "done"
        /\ UNCHANGED <<replies, ctrl, wire>>
    BY <1>4 DEF TakeEvent, Placed, Frames
  <2>2. QED
    BY <2>1 DEF InOrder, Said, Held
<1>5. CASE SendFast
    BY <1>5, InOrderWrite DEF SendFast
<1>6. CASE SendSlow
    BY <1>6, InOrderWrite, InOrderStill DEF SendSlow, WriterReturns
<1>7. CASE SendFails \/ WriterClose
    BY <1>7, InOrderStill DEF SendFails, WriterClose, WriterReturns
<1>8. QED
    BY <1>1, <1>a, <1>b, <1>2, <1>3, <1>4, <1>5, <1>6, <1>7 DEF Next, Reader, Writer

\* Every step keeps Close last and alone.
LEMMA CloseStep ==
    ASSUME TypeOK, Placed, Stages, SinkRules, InOrder, CloseOvertakesNothing, [Next]_vars
    PROVE  CloseOvertakesNothing'
<1>0. wire \in Seq(WireItems) /\ replies \in Seq(Frames) /\ Len(replies) \in Nat
    BY DEF TypeOK, WireItems
<1>1. CASE ~Closed'
    BY <1>1 DEF CloseOvertakesNothing, Closed
<1>2. CASE Closed /\ UNCHANGED <<wire, replies, failed, slowCount>>
    BY <1>2 DEF CloseOvertakesNothing, Closed, ControlOnWire
<1>3. ASSUME wire' = Append(wire, "close"), ~Closed
      PROVE  /\ \A i, j \in DOMAIN wire' : wire'[i] = "close" /\ wire'[j] = "close" => i = j
             /\ wire'[Len(wire')] = "close"
  <2>1. /\ Len(wire) \in Nat /\ Len(wire') = Len(wire) + 1
        /\ DOMAIN wire = 1 .. Len(wire) /\ DOMAIN wire' = 1 .. Len(wire')
        /\ \A i \in 1 .. Len(wire) : wire'[i] = wire[i]
        /\ wire'[Len(wire) + 1] = "close"
    BY <1>0, <1>3, AppendProperties DEF WireItems
  <2>2. \A i \in DOMAIN wire' : wire'[i] = "close" => i = Len(wire) + 1
    BY <1>3, <2>1 DEF Closed
  <2>3. QED
    BY <2>1, <2>2
<1>4. CASE WriterClose /\ wire' = Append(wire, "close")
  <2>1. /\ ctrl = <<>> /\ ~Closed /\ Held = 0 /\ writer # "done"
        /\ replies' = replies
    BY <1>4 DEF WriterClose, SinkRules, Held, Placed, Frames
  <2>2. Said = Len(replies)
    BY <1>0, <2>1 DEF Said
  <2>3. "close" \in WireItems /\ "close" \notin Frames
    BY DEF WireItems, Frames
  <2>4. SpokenIn(wire', replies, Len(replies))
    BY <1>0, <1>4, <2>1, <2>2, <2>3, SpokenOther DEF InOrder
  <2>5. wire' \in Seq(WireItems)
    BY <1>0, <1>4, <2>3, AppendProperties
  <2>6. DOMAIN wire' = 1 .. Len(wire') /\ DOMAIN replies = 1 .. Len(replies)
    BY <1>0, <2>5
  <2>7. ControlOnWire(replies)'
    <3>1. PICK place \in [1 .. Len(replies) -> 1 .. Len(wire')] :
               /\ \A i, j \in 1 .. Len(replies) : i < j => place[i] < place[j]
               /\ \A i \in 1 .. Len(replies) : wire'[place[i]] = replies[i]
               /\ \A k \in 1 .. Len(wire') :
                     wire'[k] \in Frames => \E i \in 1 .. Len(replies) : place[i] = k
      BY <2>4, Zenon DEF SpokenIn
    <3>2. /\ place \in [DOMAIN replies' -> DOMAIN wire']
          /\ \A i, j \in DOMAIN replies' : i < j => place[i] < place[j]
          /\ \A i \in DOMAIN replies' : wire'[place[i]] = replies'[i]
          /\ \A k \in DOMAIN wire' : wire'[k] \in Frames => \E i \in DOMAIN replies' : place[i] = k
      BY <2>1, <2>6, <3>1
    <3>3. QED
      BY <3>2 DEF ControlOnWire
  <2>8. QED
    BY <1>3, <1>4, <2>1, <2>7 DEF CloseOvertakesNothing
<1>5. CASE AnswerClose /\ wire' = Append(wire, "close")
  <2>1. /\ ~Closed /\ failed' = failed /\ slowCount' = slowCount
        /\ failed \/ slowCount > SlowLimit
    <3>1. sink = "handed" /\ slowCount' = slowCount
      BY <1>5 DEF AnswerClose, Stages
    <3>2. failed' = failed
      <4>1. wire' # wire
        BY <1>0, <1>5, AppendProperties DEF WireItems
      <4>2. QED
        BY <1>5, <4>1 DEF AnswerClose
    <3>3. QED
      BY <3>1, <3>2 DEF SinkRules
  <2>2. ~(~failed' /\ slowCount' <= SlowLimit)
    <3>1. slowCount \in Nat /\ SlowLimit \in Nat
      BY SessionAssumption DEF TypeOK
    <3>2. QED
      BY <2>1, <3>1
  <2>3. QED
    BY <1>3, <1>5, <2>1, <2>2 DEF CloseOvertakesNothing
<1>6. \/ wire' = wire
      \/ wire' = Append(wire, frame) /\ writer = "sending"
      \/ (WriterClose \/ AnswerClose) /\ wire' = Append(wire, "close")
    BY DEF Next, Client, ClientSend, ClientClose, ClientGone, FanOut, Reader, ReadRequest, BatchItem,
           SendCtrl, AfterReply, ReadClose, Writer, TakeCtrl, TakeGoodbye, TakeEvent, SendFast,
           SendSlow, SendFails, WriterClose, Task, WriterEndedFirst, ReaderEndedFirst, AwaitReader,
           AnswerClose, AwaitWriter, CleanupPresence, CleanupSubs, CleanupConn, vars
<1>7. wire' = wire /\ Closed => UNCHANGED <<replies, failed, slowCount>>
  <2>1. Closed => writer = "done" /\ sink # "handed" /\ task # "answer"
    BY DEF SinkRules, Stages
  <2>2. writer = "done" /\ task # "answer" => UNCHANGED <<replies, failed, slowCount>>
    BY DEF Next, Client, ClientSend, ClientClose, ClientGone, FanOut, Reader, ReadRequest, BatchItem,
           SendCtrl, AfterReply, ReadClose, Writer, TakeCtrl, TakeGoodbye, TakeEvent, SendFast,
           SendSlow, SendFails, WriterClose, Task, WriterEndedFirst, ReaderEndedFirst, AwaitReader,
           AnswerClose, AwaitWriter, CleanupPresence, CleanupSubs, CleanupConn, vars
  <2>3. QED
    BY <2>1, <2>2
<1>8. CASE wire' = wire
    BY <1>1, <1>2, <1>7, <1>8 DEF Closed
<1>9. CASE wire' = Append(wire, frame) /\ writer = "sending"
  <2>1. frame \in Frames \cup {"event"} /\ frame # "close" /\ ~Closed
    BY <1>9 DEF TypeOK, Placed, SinkRules, Frames
  <2>2. ~Closed'
    BY <1>9, <2>1, ClosedAppend DEF TypeOK
  <2>3. QED
    BY <1>1, <2>2
<1>10. QED
    BY <1>4, <1>5, <1>6, <1>8, <1>9

-----------------------------------------------------------------------------
\* handle_websocket starts with everything in place.
LEMMA SessionStart == Init => SessionInv
<1>1. SUFFICES ASSUME Init PROVE SessionInv
    OBVIOUS
<1>2. Flags /\ ReplyType
    BY <1>1, Zenon DEF Init, Flags, ReplyType, NoReply
<1>3. Channels /\ Places
    BY <1>1, SessionAssumption DEF Init, Channels, Places
<1>4. Placed /\ Stages /\ Cleaned
    BY <1>1, SessionAssumption DEF Init, Placed, Stages, Cleaned, PastReading
<1>5. ~Closed
    BY <1>1 DEF Init, Closed
<1>6. SinkRules /\ CloseOvertakesNothing
    BY <1>1, <1>5 DEF Init, SinkRules, CloseOvertakesNothing
<1>7. InOrder
  <2>1. Held = 0 /\ Len(replies) = 0 /\ Len(ctrl) = 0 /\ Len(wire) = 0 /\ frame \notin Frames
    BY <1>1 DEF Init, Held, Frames
  <2>2. Said = 0
    BY <2>1 DEF Said
  <2>3. SpokenIn(wire, replies, 0)
    <3>1. [i \in 1 .. 0 |-> 1] \in [1 .. 0 -> 1 .. Len(wire)]
      BY <2>1
    <3>2. (\A i \in 1 .. 0 : FALSE) /\ (\A k \in 1 .. Len(wire) : FALSE)
      BY <2>1
    <3>3. QED
      BY <3>1, <3>2, Zenon DEF SpokenIn
  <2>4. QED
    BY <2>1, <2>2, <2>3 DEF InOrder
<1>8. QED
    BY <1>2, <1>3, <1>4, <1>6, <1>7, TypeParts DEF SessionInv

\* No step of any task breaks the invariant.
LEMMA SessionStep == SessionInv /\ [Next]_vars => SessionInv'
<1>1. SUFFICES ASSUME SessionInv, [Next]_vars PROVE SessionInv'
    OBVIOUS
<1>2. TypeOK /\ Placed /\ Stages /\ Cleaned /\ SinkRules /\ InOrder /\ CloseOvertakesNothing
    BY <1>1 DEF SessionInv
<1>3. Flags /\ ReplyType /\ Channels /\ Places
    BY <1>2, TypeParts
<1>4. Flags' /\ ReplyType' /\ Channels' /\ Places' /\ Placed'
    BY <1>1, <1>2, <1>3, FlagsStep, ReplyStep, ChannelsStep, PlacesStep
<1>5. TypeOK'
    BY <1>4 DEF TypeOK, Flags, ReplyType, Channels, Places
<1>6. Stages' /\ Cleaned' /\ SinkRules' /\ InOrder' /\ CloseOvertakesNothing'
    BY <1>1, <1>2, StagesStep, CleanedStep, SinkStep, InOrderStep, CloseStep
<1>7. QED
    BY <1>4, <1>5, <1>6 DEF SessionInv

\* The variables of a session keep their types, the control channel its bound.
THEOREM SessionTypes == Spec => []TypeOK
<1>1. SessionInv => TypeOK
    BY DEF SessionInv
<1>2. QED
    BY <1>1, SessionStart, SessionStep, PTL DEF Spec

\* cleanup in handle_websocket: whatever the order in which reader, writer and
\* client end, nothing of the connection stays registered after its task is done,
\* unless the wait for the reader was given up.
THEOREM CleanUpIsComplete == Spec => []NoLeakWithoutOrphan
<1>1. SessionInv => NoLeakWithoutOrphan
    BY DEF SessionInv, Cleaned, NoLeakWithoutOrphan, NoLeak
<1>2. QED
    BY <1>1, SessionStart, SessionStep, PTL DEF Spec

\* writer_loop and send_close: the writer's Close follows every control frame the
\* reader queued, and of the two tasks that can send one only one does.
THEOREM CloseComesLast == Spec => []CloseOvertakesNothing
<1>1. SessionInv => CloseOvertakesNothing
    BY DEF SessionInv
<1>2. QED
    BY <1>1, SessionStart, SessionStep, PTL DEF Spec
=============================================================================
