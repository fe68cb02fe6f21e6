--------------------------- MODULE DeliveryProofs ---------------------------
(***************************************************************************)
(* For any connections, topics, pool sizes, capacities and policies: every *)
(* match is accounted for and none is delivered twice, a single worker     *)
(* lets nothing be overtaken, and its pipeline is a lossy FIFO.            *)
(*                                                                         *)
(* The proofs look at the channels through Waiting and Backlog: an action  *)
(* shifts, extends or shortens one of these, and the invariant speaks of   *)
(* the routing order (nr) of what they hold.                               *)
(***************************************************************************)
EXTENDS Delivery, FiniteSetTheorems, TLAPS

Ev == [topic : Topics, seq : Nat \ {0}, nr : Nat \ {0}]
Msg == [event : Ev, targets : (SUBSET Conns) \ {{}}]

DeliveryTypes ==
    /\ bus \in Seq(Topics) /\ sequences \in [Topics -> Nat]
    /\ stats.routed \in Nat /\ stats.matches \in Nat /\ stats.lostMatches \in Nat
    /\ metrics \in [dispatched : Nat, overflow : Nat, disconnected : Nat, gone : Nat]
    /\ dispatch \in Seq(Msg) /\ held \in Msg \cup {NoMsg}
    /\ workers \in PoolSizes /\ turn \in 1 .. workers
    /\ workerQ \in [W -> Seq(Msg)] /\ job \in [W -> Msg \cup {NoMsg}]
    /\ queue \in [Conns -> Seq(Ev)] /\ received \in [Conns -> Seq(Ev)]
    /\ \A w \in W : w > workers => job[w] = NoMsg /\ workerQ[w] = <<>>

-----------------------------------------------------------------------------
\* The pool: every worker there can be has a number in W.
LEMMA PoolFacts ==
    /\ W \subseteq Nat /\ \A n \in PoolSizes : n \in Nat /\ n > 0 /\ 1 .. n \subseteq W
    /\ \A w \in W : w >= 1
<1> DEFINE top == CHOOSE n \in PoolSizes : \A m \in PoolSizes : m <= n
<1>1. top \in PoolSizes /\ \A m \in PoolSizes : m <= top
    BY DeliveryAssumption
<1>3. W = 1 .. top
    BY DEF W
<1> HIDE DEF top
<1>2. top \in Nat /\ \A m \in PoolSizes : m \in Nat /\ m > 0
    BY <1>1, DeliveryAssumption
<1>4. QED
    BY <1>1, <1>2, <1>3

LEMMA MessageFacts ==
    /\ NoMsg.event.nr = 0 /\ NoMsg.targets = {}
    /\ \A m \in Msg : /\ m # NoMsg /\ m.event \in Ev /\ m.targets \subseteq Conns /\ m.targets # {}
                      /\ m.event.nr \in Nat /\ m.event.nr > 0
<1>1. NoMsg.event.nr = 0 /\ NoMsg.targets = {}
    BY DEF NoMsg
<1>2. ASSUME NEW m \in Msg
      PROVE  m.event \in Ev /\ m.targets \subseteq Conns /\ m.targets # {}
    BY DEF Msg
<1>3. \A e \in Ev : e.nr \in Nat /\ e.nr > 0
    BY DEF Ev
<1>4. QED
    BY <1>1, <1>2, <1>3

\* What the two views hold.
LEMMA ViewFacts ==
    ASSUME DeliveryTypes
    PROVE  /\ Len(dispatch) \in Nat /\ DOMAIN Waiting = 0 .. Len(dispatch)
           /\ Waiting[0] = held /\ \A i \in 1 .. Len(dispatch) : Waiting[i] = dispatch[i]
           /\ \A i \in DOMAIN Waiting : Waiting[i] \in Msg \cup {NoMsg}
           /\ \A i \in DOMAIN Waiting : i # 0 => Waiting[i] \in Msg
           /\ \A w \in W : /\ Len(workerQ[w]) \in Nat /\ DOMAIN Backlog(w) = 0 .. Len(workerQ[w])
                           /\ Backlog(w)[0] = job[w]
                           /\ \A i \in 1 .. Len(workerQ[w]) : Backlog(w)[i] = workerQ[w][i]
                           /\ \A i \in DOMAIN Backlog(w) : Backlog(w)[i] \in Msg \cup {NoMsg}
                           /\ \A i \in DOMAIN Backlog(w) : i # 0 => Backlog(w)[i] \in Msg
<1>1. /\ Len(dispatch) \in Nat /\ DOMAIN Waiting = 0 .. Len(dispatch)
      /\ Waiting[0] = held /\ \A i \in 1 .. Len(dispatch) : Waiting[i] = dispatch[i]
    BY DEF DeliveryTypes, Waiting
<1>2. \A i \in 1 .. Len(dispatch) : dispatch[i] \in Msg
    BY DEF DeliveryTypes
<1>3. held \in Msg \cup {NoMsg}
    BY DEF DeliveryTypes
<1>4. ASSUME NEW w \in W
      PROVE  /\ Len(workerQ[w]) \in Nat /\ DOMAIN Backlog(w) = 0 .. Len(workerQ[w])
             /\ Backlog(w)[0] = job[w]
             /\ \A i \in 1 .. Len(workerQ[w]) : Backlog(w)[i] = workerQ[w][i]
             /\ \A i \in DOMAIN Backlog(w) : Backlog(w)[i] \in Msg \cup {NoMsg}
             /\ \A i \in DOMAIN Backlog(w) : i # 0 => Backlog(w)[i] \in Msg
    <2>1. workerQ[w] \in Seq(Msg) /\ job[w] \in Msg \cup {NoMsg}
        BY DEF DeliveryTypes
    <2>2. /\ Len(workerQ[w]) \in Nat /\ DOMAIN Backlog(w) = 0 .. Len(workerQ[w])
          /\ Backlog(w)[0] = job[w]
          /\ \A i \in 1 .. Len(workerQ[w]) : Backlog(w)[i] = workerQ[w][i]
        BY <2>1 DEF Backlog
    <2>3. \A i \in 1 .. Len(workerQ[w]) : workerQ[w][i] \in Msg
        BY <2>1
    <2>4. QED
        BY <2>1, <2>2, <2>3
<1>5. QED
    BY <1>1, <1>2, <1>3, <1>4

\* An action that leaves a channel and what is in hand leaves the view.
LEMMA ViewsUnchanged ==
    /\ UNCHANGED <<dispatch, held>> => Waiting' = Waiting
    /\ \A w : workerQ'[w] = workerQ[w] /\ job'[w] = job[w] => Backlog(w)' = Backlog(w)
    BY DEF Waiting, Backlog

-----------------------------------------------------------------------------
\* What the actions of the router, the dispatcher and the workers do to the
\* views.

\* The event that is routed, and its batch.
NewEvent(t) == [topic |-> t, seq |-> sequences[t] + 1, nr |-> stats.routed + 1]

NewBatch(t, targets) == [event |-> NewEvent(t), targets |-> targets]

Routed(t, targets) ==
    /\ NewEvent(t) \in Ev /\ Cardinality(targets) \in Nat
    /\ stats'.routed = stats.routed + 1 /\ sequences' = [sequences EXCEPT ![t] = @ + 1]
    /\ stats'.matches = stats.matches + Cardinality(targets)
    /\ \/ /\ dispatch' = dispatch
          /\ stats'.lostMatches = stats.lostMatches + Cardinality(targets)
       \/ /\ NewBatch(t, targets) \in Msg /\ dispatch' = Append(dispatch, NewBatch(t, targets))
          /\ stats'.lostMatches = stats.lostMatches
    /\ UNCHANGED <<workers, held, turn, workerQ, job, metrics, queue, received>>

LEMMA RouterShape ==
    ASSUME DeliveryTypes, Router
    PROVE  \E t \in Topics, targets \in SUBSET Conns : Routed(t, targets)
<1>1. PICK targets \in SUBSET Conns : RouteEvent(Head(bus), targets)
    BY DEF Router
<1>2. Head(bus) \in Topics
    BY DEF Router, NextEvent, DeliveryTypes
<1>3. PICK t \in Topics : t = Head(bus)
    BY <1>2
<1>4. /\ sequences' = [sequences EXCEPT ![t] = @ + 1]
      /\ sequences'[t] = sequences[t] + 1
      /\ UNCHANGED <<workers, held, turn, workerQ, job, metrics, queue, received>>
    BY <1>1, <1>3 DEF RouteEvent, NextSequence, DeliveryTypes, fanoutVars, connVars
<1>5. NewEvent(t) \in Ev
    <2>1. sequences[t] \in Nat /\ stats.routed \in Nat
        BY DEF DeliveryTypes
    <2>2. QED
        BY <2>1 DEF NewEvent, Ev
<1>a. Cardinality(targets) \in Nat
    BY DeliveryAssumption, FS_Subset, FS_CardinalityType
<1> DEFINE sent == targets # {} /\ Len(dispatch) < DispatchCap
<1>6. /\ dispatch' = IF sent THEN Append(dispatch, NewBatch(t, targets)) ELSE dispatch
      /\ Record(Cardinality(targets), sent)
    BY <1>1, <1>3, <1>4 DEF RouteEvent, NewEvent, NewBatch
<1>7. /\ stats'.routed = stats.routed + 1
      /\ stats'.matches = stats.matches + Cardinality(targets)
      /\ stats'.lostMatches = stats.lostMatches + (IF sent THEN 0 ELSE Cardinality(targets))
    BY <1>6 DEF Record
<1>8. CASE sent
    <2>1. NewBatch(t, targets) \in Msg
        BY <1>5, <1>8 DEF Msg, NewBatch
    <2>2. stats'.lostMatches = stats.lostMatches + 0
        BY <1>7, <1>8
    <2>3. stats'.lostMatches = stats.lostMatches
        BY <2>2 DEF DeliveryTypes
    <2>4. QED
        BY <1>4, <1>5, <1>6, <1>7, <1>8, <1>a, <2>1, <2>3 DEF Routed
<1>9. CASE ~sent
    BY <1>4, <1>5, <1>6, <1>7, <1>9, <1>a DEF Routed
<1>10. QED
    BY <1>8, <1>9

\* Taking the first message of a channel shifts it into the hand.
LEMMA ShiftFacts ==
    ASSUME NEW q \in Seq(Msg), q # <<>>
    PROVE  /\ Head(q) = q[1] /\ Head(q) \in Msg /\ Tail(q) \in Seq(Msg)
           /\ Len(q) \in Nat /\ Len(q) >= 1 /\ Len(Tail(q)) = Len(q) - 1
           /\ \A i \in 1 .. Len(q) - 1 : Tail(q)[i] = q[i + 1]
    OBVIOUS

LEMMA AppendFacts ==
    ASSUME NEW q \in Seq(Msg), NEW m \in Msg
    PROVE  /\ Append(q, m) \in Seq(Msg) /\ Len(q) \in Nat /\ Len(Append(q, m)) = Len(q) + 1
           /\ \A i \in 1 .. Len(q) : Append(q, m)[i] = q[i]
           /\ Append(q, m)[Len(q) + 1] = m
    OBVIOUS

LEMMA TypesInit == Init => DeliveryTypes
<1> SUFFICES ASSUME Init PROVE DeliveryTypes
    OBVIOUS
<1>1. workers \in PoolSizes /\ turn \in 1 .. workers
    BY PoolFacts DEF Init
<1>2. /\ stats.routed = 0 /\ stats.matches = 0 /\ stats.lostMatches = 0
      /\ metrics \in [dispatched : Nat, overflow : Nat, disconnected : Nat, gone : Nat]
    BY DEF Init
<1>3. QED
    BY <1>1, <1>2 DEF Init, DeliveryTypes

LEMMA TypesStep == DeliveryTypes /\ [Next]_vars => DeliveryTypes'
<1> SUFFICES ASSUME DeliveryTypes, [Next]_vars PROVE DeliveryTypes'
    OBVIOUS
<1>1. ASSUME NEW t \in Topics, Publish(t) PROVE DeliveryTypes'
    <2>1. bus' \in Seq(Topics)
        <3>0. bus \in Seq(Topics)
            BY DEF DeliveryTypes
        <3>1. CASE Len(bus) < BusCap
            BY <1>1, <3>0, <3>1 DEF Publish
        <3>2. CASE ~(Len(bus) < BusCap)
            <4>1. bus # <<>>
                BY <3>2, DeliveryAssumption
            <4>2. Tail(bus) \in Seq(Topics)
                BY <3>0, <4>1
            <4>3. QED
                BY <1>1, <3>2, <4>2 DEF Publish
        <3>3. QED
            BY <3>1, <3>2
    <2>2. QED
        BY <1>1, <2>1 DEF Publish, DeliveryTypes, routerVars, fanoutVars, connVars
<1>2. CASE Router
    <2>1. bus' \in Seq(Topics)
        BY <1>2 DEF Router, NextEvent, DeliveryTypes
    <2>2. PICK t \in Topics, targets \in SUBSET Conns : Routed(t, targets)
        BY <1>2, RouterShape
    <2>a. /\ dispatch \in Seq(Msg) /\ sequences \in [Topics -> Nat] /\ stats.routed \in Nat
          /\ stats.matches \in Nat /\ stats.lostMatches \in Nat
        BY DEF DeliveryTypes
    <2>4. dispatch' \in Seq(Msg)
        BY <2>2, <2>a, AppendFacts DEF Routed
    <2>5. sequences' \in [Topics -> Nat]
        BY <2>2, <2>a DEF Routed
    <2>6. stats'.routed \in Nat /\ stats'.matches \in Nat /\ stats'.lostMatches \in Nat
        <3>1. /\ stats'.routed = stats.routed + 1
              /\ stats'.matches = stats.matches + Cardinality(targets) /\ Cardinality(targets) \in Nat
              /\ \/ stats'.lostMatches = stats.lostMatches + Cardinality(targets)
                 \/ stats'.lostMatches = stats.lostMatches
            BY <2>2 DEF Routed
        <3>2. QED
            BY <2>a, <3>1
    <2>7. QED
        BY <2>1, <2>2, <2>4, <2>5, <2>6 DEF DeliveryTypes, Routed
<1>3. CASE DispatchRecv
    BY <1>3, ShiftFacts DEF DispatchRecv, DeliveryTypes, busVars, routerVars, connVars
<1>4. CASE DispatchSend
    <2>1. /\ held \in Msg /\ turn \in W /\ workers \in Nat /\ workers > 0 /\ turn <= workers
          /\ turn \in Nat
        <3>1. held \in Msg \cup {NoMsg} /\ workers \in PoolSizes /\ turn \in 1 .. workers
            BY DEF DeliveryTypes
        <3>2. QED
            BY <1>4, <3>1, PoolFacts DEF DispatchSend
    <2>2. workerQ' = [workerQ EXCEPT ![turn] = Append(@, held)]
        BY <1>4 DEF DispatchSend
    <2>3. workerQ' \in [W -> Seq(Msg)]
        <3>1. Append(workerQ[turn], held) \in Seq(Msg)
            BY <2>1, AppendFacts DEF DeliveryTypes
        <3>2. QED
            BY <2>1, <2>2, <3>1 DEF DeliveryTypes
    <2>4. turn' \in 1 .. workers
        BY <1>4, <2>1 DEF DispatchSend
    <2>5. \A w \in W : w > workers => job[w] = NoMsg /\ workerQ'[w] = <<>>
        BY <2>1, <2>2, PoolFacts DEF DeliveryTypes
    <2>6. QED
        BY <1>4, <2>3, <2>4, <2>5 DEF DispatchSend, DeliveryTypes, busVars, routerVars, connVars
<1>5. ASSUME NEW w \in W, WorkerRecv(w) PROVE DeliveryTypes'
    <2>1. /\ workerQ[w] \in Seq(Msg) /\ workerQ[w] # <<>>
          /\ workerQ' = [workerQ EXCEPT ![w] = Tail(@)] /\ job' = [job EXCEPT ![w] = Head(workerQ[w])]
        BY <1>5 DEF WorkerRecv, DeliveryTypes
    <2>2. Head(workerQ[w]) \in Msg /\ Tail(workerQ[w]) \in Seq(Msg)
        BY <2>1, ShiftFacts
    <2>3. workerQ' \in [W -> Seq(Msg)] /\ job' \in [W -> Msg \cup {NoMsg}]
        BY <2>1, <2>2 DEF DeliveryTypes
    <2>4. \A v \in W : v > workers => job'[v] = NoMsg /\ workerQ'[v] = <<>>
        BY <2>1 DEF DeliveryTypes
    <2>5. QED
        BY <1>5, <2>3, <2>4 DEF WorkerRecv, DeliveryTypes, busVars, routerVars, connVars
<1>6. ASSUME NEW w \in W, NEW c \in Conns, HandleDispatch(w, c) PROVE DeliveryTypes'
    <2>1. c \in job[w].targets /\ job[w] \in Msg
        BY <1>6, MessageFacts DEF HandleDispatch, DeliveryTypes
    <2>2. Without(job[w], c) \in Msg \cup {NoMsg}
        <3>1. CASE job[w].targets = {c}
            BY <3>1 DEF Without
        <3>2. CASE job[w].targets # {c}
            <4>1. job[w].targets \ {c} \in (SUBSET Conns) \ {{}}
                BY <2>1, <3>2, MessageFacts
            <4>2. QED
                BY <2>1, <3>2, <4>1 DEF Without, Msg
        <3>3. QED
            BY <3>1, <3>2
    <2>3. job' = [job EXCEPT ![w] = Without(job[w], c)] /\ workerQ' = workerQ
        BY <1>6 DEF HandleDispatch
    <2>4. job' \in [W -> Msg \cup {NoMsg}]
        BY <2>2, <2>3 DEF DeliveryTypes
    <2>5. \A v \in W : v > workers => job'[v] = NoMsg /\ workerQ'[v] = <<>>
        BY <2>1, <2>3, MessageFacts DEF DeliveryTypes
    <2>6. queue' = queue \/ queue' = [queue EXCEPT ![c] = Append(@, job[w].event)]
        BY <1>6 DEF HandleDispatch, Deliver
    <2>7. queue' \in [Conns -> Seq(Ev)]
        <3>1. Append(queue[c], job[w].event) \in Seq(Ev)
            <4>1. job[w].event \in Ev /\ queue[c] \in Seq(Ev)
                BY <2>1, MessageFacts DEF DeliveryTypes
            <4>2. QED
                BY <4>1
        <3>2. QED
            BY <2>6, <3>1 DEF DeliveryTypes
    <2>8. metrics' \in [dispatched : Nat, overflow : Nat, disconnected : Nat, gone : Nat]
        <3>1. SendResult(c) \in {"dispatched", "overflow", "disconnected", "gone"}
            BY DEF SendResult
        <3>2. metrics' = [metrics EXCEPT ![SendResult(c)] = @ + 1]
            BY <1>6 DEF HandleDispatch, Deliver, Count
        <3>3. metrics \in [dispatched : Nat, overflow : Nat, disconnected : Nat, gone : Nat]
            BY DEF DeliveryTypes
        <3>4. CASE SendResult(c) = "dispatched"
            BY <3>2, <3>3, <3>4
        <3>5. CASE SendResult(c) = "overflow"
            BY <3>2, <3>3, <3>5
        <3>6. CASE SendResult(c) = "disconnected"
            BY <3>2, <3>3, <3>6
        <3>7. CASE SendResult(c) = "gone"
            BY <3>2, <3>3, <3>7
        <3>8. QED
            BY <3>1, <3>4, <3>5, <3>6, <3>7
    <2>9. QED
        BY <1>6, <2>3, <2>4, <2>5, <2>7, <2>8
           DEF HandleDispatch, Deliver, DeliveryTypes, busVars, routerVars
<1>7. ASSUME NEW c \in Conns, Register(c) \/ Remove(c) PROVE DeliveryTypes'
    BY <1>7 DEF Register, Remove, DeliveryTypes, busVars, routerVars, fanoutVars
<1>8. ASSUME NEW c \in Conns, WriterEnd(c) PROVE DeliveryTypes'
    BY <1>8 DEF WriterEnd, DeliveryTypes, busVars, routerVars, fanoutVars
<1>9. ASSUME NEW c \in Conns, WriterSend(c) PROVE DeliveryTypes'
    <2>1. /\ queue[c] \in Seq(Ev) /\ queue[c] # <<>> /\ received[c] \in Seq(Ev)
          /\ received' = [received EXCEPT ![c] = Append(@, Head(queue[c]))]
          /\ queue' = [queue EXCEPT ![c] = Tail(@)]
        BY <1>9 DEF WriterSend, DeliveryTypes
    <2>2. Head(queue[c]) \in Ev /\ Tail(queue[c]) \in Seq(Ev)
        BY <2>1
    <2>3. Append(received[c], Head(queue[c])) \in Seq(Ev)
        BY <2>1, <2>2
    <2>4. queue' \in [Conns -> Seq(Ev)] /\ received' \in [Conns -> Seq(Ev)]
        BY <2>1, <2>2, <2>3 DEF DeliveryTypes
    <2>5. QED
        BY <1>9, <2>4 DEF WriterSend, DeliveryTypes, busVars, routerVars, fanoutVars
<1>10. CASE UNCHANGED vars
    BY <1>10 DEF vars, DeliveryTypes
<1>11. QED
    BY <1>1, <1>2, <1>3, <1>4, <1>5, <1>6, <1>7, <1>8, <1>9, <1>10
       DEF Next, Dispatcher, Worker, Session

-----------------------------------------------------------------------------
\* dispatch_loop takes a message: the line before the workers moves up.
LEMMA DispatchRecvShape ==
    ASSUME DeliveryTypes, DeliveryTypes', DispatchRecv
    PROVE  /\ Len(dispatch) \in Nat /\ Len(dispatch) >= 1 /\ Waiting[0] = NoMsg
           /\ DOMAIN Waiting = 0 .. Len(dispatch) /\ DOMAIN Waiting' = 0 .. Len(dispatch) - 1
           /\ \A i \in DOMAIN Waiting' : Waiting'[i] = Waiting[i + 1]
           /\ \A w : Backlog(w)' = Backlog(w)
<1>1. /\ dispatch \in Seq(Msg) /\ dispatch # <<>> /\ held = NoMsg /\ workerQ' = workerQ /\ job' = job
      /\ held' = Head(dispatch) /\ dispatch' = Tail(dispatch)
    BY DEF DispatchRecv, DeliveryTypes
<1>2. /\ Head(dispatch) = dispatch[1]
      /\ Len(dispatch) \in Nat /\ Len(dispatch) >= 1 /\ Len(dispatch') = Len(dispatch) - 1
      /\ \A i \in 1 .. Len(dispatch) - 1 : dispatch'[i] = dispatch[i + 1]
    BY <1>1, ShiftFacts
<1>3. /\ DOMAIN Waiting = 0 .. Len(dispatch) /\ Waiting[0] = held
      /\ \A i \in 1 .. Len(dispatch) : Waiting[i] = dispatch[i]
    BY ViewFacts
<1>4. Waiting' = [i \in 0 .. Len(dispatch') |-> IF i = 0 THEN held' ELSE dispatch'[i]]
    BY DEF Waiting
<1>5. ASSUME NEW i \in 0 .. Len(dispatch) - 1 PROVE Waiting'[i] = Waiting[i + 1]
    BY <1>1, <1>2, <1>3, <1>4
<1>6. \A w : Backlog(w)' = Backlog(w)
    BY <1>1, ViewsUnchanged
<1>7. QED
    BY <1>1, <1>2, <1>3, <1>4, <1>5, <1>6

\* ... and hands it to the worker whose turn it is.
LEMMA DispatchSendShape ==
    ASSUME DeliveryTypes, DispatchSend, NEW v \in W, v = turn
    PROVE  /\ held \in Msg /\ held = Waiting[0]
           /\ DOMAIN Waiting' = DOMAIN Waiting /\ Waiting'[0] = NoMsg
           /\ \A i \in DOMAIN Waiting : i # 0 => Waiting'[i] = Waiting[i]
           /\ Len(workerQ[v]) \in Nat /\ DOMAIN Backlog(v) = 0 .. Len(workerQ[v])
           /\ DOMAIN Backlog(v)' = 0 .. Len(workerQ[v]) + 1
           /\ \A i \in 0 .. Len(workerQ[v]) : Backlog(v)'[i] = Backlog(v)[i]
           /\ Backlog(v)'[Len(workerQ[v]) + 1] = held
           /\ \A w \in W : w # v => Backlog(w)' = Backlog(w)
<1>1. /\ held \in Msg /\ workerQ[v] \in Seq(Msg) /\ workerQ \in [W -> Seq(Msg)]
      /\ job' = job /\ held' = NoMsg /\ dispatch' = dispatch
      /\ workerQ' = [workerQ EXCEPT ![v] = Append(@, held)]
    BY DEF DispatchSend, DeliveryTypes
<1>2. /\ Len(workerQ[v]) \in Nat /\ workerQ'[v] = Append(workerQ[v], held)
      /\ Len(workerQ'[v]) = Len(workerQ[v]) + 1
      /\ \A i \in 1 .. Len(workerQ[v]) : workerQ'[v][i] = workerQ[v][i]
      /\ workerQ'[v][Len(workerQ[v]) + 1] = held
    BY <1>1, AppendFacts
<1>3. /\ DOMAIN Backlog(v) = 0 .. Len(workerQ[v]) /\ Backlog(v)[0] = job[v]
      /\ \A i \in 1 .. Len(workerQ[v]) : Backlog(v)[i] = workerQ[v][i]
    BY ViewFacts
<1>4. Backlog(v)' = [i \in 0 .. Len(workerQ'[v]) |-> IF i = 0 THEN job'[v] ELSE workerQ'[v][i]]
    BY DEF Backlog
<1>5. /\ DOMAIN Backlog(v)' = 0 .. Len(workerQ[v]) + 1
      /\ \A i \in 0 .. Len(workerQ[v]) : Backlog(v)'[i] = Backlog(v)[i]
      /\ Backlog(v)'[Len(workerQ[v]) + 1] = held
    BY <1>1, <1>2, <1>3, <1>4
<1>6. /\ Waiting' = [i \in 0 .. Len(dispatch) |-> IF i = 0 THEN NoMsg ELSE dispatch[i]]
      /\ Len(dispatch) \in Nat /\ DOMAIN Waiting = 0 .. Len(dispatch) /\ Waiting[0] = held
      /\ \A i \in 1 .. Len(dispatch) : Waiting[i] = dispatch[i]
    BY <1>1, ViewFacts DEF Waiting
<1>7. \A w \in W : w # v => Backlog(w)' = Backlog(w)
    BY <1>1, ViewsUnchanged
<1>8. QED
    BY <1>1, <1>2, <1>3, <1>5, <1>6, <1>7

\* run_worker takes a message: the line of the worker moves up.
LEMMA WorkerRecvShape ==
    ASSUME DeliveryTypes, NEW v \in W, WorkerRecv(v)
    PROVE  /\ Len(workerQ[v]) \in Nat /\ Len(workerQ[v]) >= 1 /\ Backlog(v)[0] = NoMsg
           /\ DOMAIN Backlog(v) = 0 .. Len(workerQ[v])
           /\ DOMAIN Backlog(v)' = 0 .. Len(workerQ[v]) - 1
           /\ \A i \in DOMAIN Backlog(v)' : Backlog(v)'[i] = Backlog(v)[i + 1]
           /\ Waiting' = Waiting
           /\ \A w \in W : w # v => Backlog(w)' = Backlog(w)
<1>1. /\ workerQ[v] \in Seq(Msg) /\ workerQ \in [W -> Seq(Msg)] /\ job \in [W -> Msg \cup {NoMsg}]
      /\ workerQ[v] # <<>> /\ job[v] = NoMsg /\ held' = held /\ dispatch' = dispatch
      /\ workerQ' = [workerQ EXCEPT ![v] = Tail(@)] /\ job' = [job EXCEPT ![v] = Head(workerQ[v])]
    BY DEF WorkerRecv, DeliveryTypes
<1>2. /\ Head(workerQ[v]) = workerQ[v][1] /\ workerQ'[v] = Tail(workerQ[v])
      /\ Len(workerQ[v]) \in Nat /\ Len(workerQ[v]) >= 1 /\ Len(workerQ'[v]) = Len(workerQ[v]) - 1
      /\ \A i \in 1 .. Len(workerQ[v]) - 1 : workerQ'[v][i] = workerQ[v][i + 1]
      /\ job'[v] = workerQ[v][1]
    BY <1>1, ShiftFacts
<1>3. /\ DOMAIN Backlog(v) = 0 .. Len(workerQ[v]) /\ Backlog(v)[0] = job[v]
      /\ \A i \in 1 .. Len(workerQ[v]) : Backlog(v)[i] = workerQ[v][i]
    BY ViewFacts
<1>4. Backlog(v)' = [i \in 0 .. Len(workerQ'[v]) |-> IF i = 0 THEN job'[v] ELSE workerQ'[v][i]]
    BY DEF Backlog
<1>5. ASSUME NEW i \in 0 .. Len(workerQ[v]) - 1 PROVE Backlog(v)'[i] = Backlog(v)[i + 1]
    BY <1>2, <1>3, <1>4
<1>6. Waiting' = Waiting /\ \A w \in W : w # v => Backlog(w)' = Backlog(w)
    BY <1>1, ViewsUnchanged
<1>7. QED
    BY <1>1, <1>2, <1>3, <1>4, <1>5, <1>6

\* handle_dispatch: the message in the worker's hand loses a target.
LEMMA HandleShape ==
    ASSUME DeliveryTypes, NEW v \in W, NEW c \in Conns, HandleDispatch(v, c)
    PROVE  /\ job[v] \in Msg /\ c \in job[v].targets /\ Backlog(v)[0] = job[v]
           /\ 0 \in DOMAIN Backlog(v) /\ DOMAIN Backlog(v)' = DOMAIN Backlog(v)
           /\ \A i \in DOMAIN Backlog(v) : i # 0 => Backlog(v)'[i] = Backlog(v)[i]
           /\ \/ Backlog(v)'[0] = NoMsg /\ job[v].targets = {c}
              \/ /\ Backlog(v)'[0] \in Msg /\ Backlog(v)'[0].event = job[v].event
                 /\ Backlog(v)'[0].targets = job[v].targets \ {c}
           /\ Waiting' = Waiting
           /\ \A w \in W : w # v => Backlog(w)' = Backlog(w)
<1>1. /\ job \in [W -> Msg \cup {NoMsg}] /\ c \in job[v].targets /\ workerQ' = workerQ
      /\ job' = [job EXCEPT ![v] = Without(job[v], c)] /\ held' = held /\ dispatch' = dispatch
    BY DEF HandleDispatch, Deliver, DeliveryTypes
<1>2. job[v] \in Msg
    BY <1>1, MessageFacts
<1>3. \/ Without(job[v], c) = NoMsg /\ job[v].targets = {c}
      \/ /\ Without(job[v], c) \in Msg /\ Without(job[v], c).event = job[v].event
         /\ Without(job[v], c).targets = job[v].targets \ {c}
    <2>1. CASE job[v].targets = {c}
        BY <2>1 DEF Without
    <2>2. CASE job[v].targets # {c}
        <3>1. job[v].targets \ {c} \in (SUBSET Conns) \ {{}}
            BY <1>1, <1>2, <2>2, MessageFacts
        <3>2. Without(job[v], c) = [event |-> job[v].event, targets |-> job[v].targets \ {c}]
            BY <1>2, <2>2 DEF Without, Msg
        <3>3. QED
            BY <1>2, <3>1, <3>2, MessageFacts DEF Msg
    <2>3. QED
        BY <2>1, <2>2
<1>4. /\ DOMAIN Backlog(v) = 0 .. Len(workerQ[v]) /\ Backlog(v)[0] = job[v]
      /\ Len(workerQ[v]) \in Nat /\ \A i \in 1 .. Len(workerQ[v]) : Backlog(v)[i] = workerQ[v][i]
    BY ViewFacts
<1>5. Backlog(v)' = [i \in 0 .. Len(workerQ[v]) |-> IF i = 0 THEN Without(job[v], c) ELSE workerQ[v][i]]
    BY <1>1 DEF Backlog
<1>6. Waiting' = Waiting /\ \A w \in W : w # v => Backlog(w)' = Backlog(w)
    BY <1>1, ViewsUnchanged
<1>7. QED
    BY <1>1, <1>2, <1>3, <1>4, <1>5, <1>6

\* try_send of the router: the line before the workers gets longer, or not.
LEMMA RoutedShape ==
    ASSUME DeliveryTypes, NEW t \in Topics, NEW targets \in SUBSET Conns, Routed(t, targets)
    PROVE  /\ Len(dispatch) \in Nat /\ DOMAIN Waiting = 0 .. Len(dispatch)
           /\ \A w : Backlog(w)' = Backlog(w)
           /\ \/ /\ Waiting' = Waiting
                 /\ stats'.lostMatches = stats.lostMatches + Cardinality(targets)
              \/ /\ NewBatch(t, targets) \in Msg /\ DOMAIN Waiting' = 0 .. Len(dispatch) + 1
                 /\ \A i \in 0 .. Len(dispatch) : Waiting'[i] = Waiting[i]
                 /\ Waiting'[Len(dispatch) + 1] = NewBatch(t, targets)
                 /\ stats'.lostMatches = stats.lostMatches
<1>1. /\ Len(dispatch) \in Nat /\ DOMAIN Waiting = 0 .. Len(dispatch) /\ Waiting[0] = held
      /\ \A i \in 1 .. Len(dispatch) : Waiting[i] = dispatch[i]
    BY ViewFacts
<1>2. held' = held /\ \A w : Backlog(w)' = Backlog(w)
    BY ViewsUnchanged DEF Routed
<1>3. CASE dispatch' = dispatch /\ stats'.lostMatches = stats.lostMatches + Cardinality(targets)
    BY <1>1, <1>2, <1>3, ViewsUnchanged
<1>4. CASE /\ NewBatch(t, targets) \in Msg /\ dispatch' = Append(dispatch, NewBatch(t, targets))
           /\ stats'.lostMatches = stats.lostMatches
    <2>1. dispatch \in Seq(Msg)
        BY DEF DeliveryTypes
    <2>2. /\ Len(dispatch') = Len(dispatch) + 1
          /\ \A i \in 1 .. Len(dispatch) : dispatch'[i] = dispatch[i]
          /\ dispatch'[Len(dispatch) + 1] = NewBatch(t, targets)
        BY <1>4, <2>1, AppendFacts
    <2>3. Waiting' = [i \in 0 .. Len(dispatch') |-> IF i = 0 THEN held' ELSE dispatch'[i]]
        BY DEF Waiting
    <2>4. QED
        BY <1>1, <1>2, <1>4, <2>2, <2>3
<1>5. QED
    BY <1>3, <1>4 DEF Routed

-----------------------------------------------------------------------------
\* The inductive invariant.

Nr(m) == m.event.nr

\* Each channel is in the order of routing, what the workers have was routed
\* before what waits for them, and no two of them have the same batch.
LineUp ==
    /\ \A i, j \in DOMAIN Waiting : i < j => Nr(Waiting[i]) < Nr(Waiting[j])
    /\ \A w \in W : \A i, j \in DOMAIN Backlog(w) : i < j => Nr(Backlog(w)[i]) < Nr(Backlog(w)[j])
    /\ \A w \in W : \A i \in DOMAIN Backlog(w), j \in DOMAIN Waiting :
          Waiting[j] # NoMsg => Nr(Backlog(w)[i]) < Nr(Waiting[j])
    /\ \A v, w \in W : v # w => \A i \in DOMAIN Backlog(v), j \in DOMAIN Backlog(w) :
          Backlog(v)[i] # NoMsg => Nr(Backlog(v)[i]) # Nr(Backlog(w)[j])

\* The messages that are underway, and what has reached a connection's queue.
Live == Carried \ {NoMsg}
Got(c) == {received[c][i] : i \in DOMAIN received[c]} \cup {queue[c][i] : i \in DOMAIN queue[c]}

\* With one worker the order is kept, with more no event is met again.
Precedes(x, y) == IF workers = 1 THEN x.nr < y.nr ELSE x.nr # y.nr

InLine(c) ==
    /\ \A i, j \in DOMAIN received[c] : i < j => Precedes(received[c][i], received[c][j])
    /\ \A i, j \in DOMAIN queue[c] : i < j => Precedes(queue[c][i], queue[c][j])
    /\ \A i \in DOMAIN received[c], j \in DOMAIN queue[c] : Precedes(received[c][i], queue[c][j])
    /\ \A e \in Got(c), m \in Live : c \in m.targets => Precedes(e, m.event)

\* Every event that is still somewhere carries the numbers the router gave it.
Known == (UNION {Got(c) : c \in Conns}) \cup {m.event : m \in Live}

Numbered ==
    /\ \A x \in Known : x.nr <= stats.routed /\ x.seq <= sequences[x.topic]
    /\ \A x, y \in Known : x.topic = y.topic /\ x.seq < y.seq => x.nr < y.nr

LineInv == DeliveryTypes /\ LineUp /\ (\A c \in Conns : InLine(c)) /\ Numbered

LEMMA LiveFacts ==
    ASSUME DeliveryTypes
    PROVE  /\ Live \subseteq Msg
           /\ \A m : m \in Live <=>
                 /\ m # NoMsg
                 /\ \/ \E i \in DOMAIN Waiting : m = Waiting[i]
                    \/ \E w \in W : \E i \in DOMAIN Backlog(w) : m = Backlog(w)[i]
<1>1. \A m : m \in Live <=>
         /\ m # NoMsg
         /\ \/ \E i \in DOMAIN Waiting : m = Waiting[i]
            \/ \E w \in W : \E i \in DOMAIN Backlog(w) : m = Backlog(w)[i]
    BY DEF Live, Carried
<1>2. QED
    BY <1>1, ViewFacts

\* The same for the next state.
LEMMA LiveNext ==
    \A m : m \in Live' <=>
       /\ m # NoMsg
       /\ \/ \E i \in DOMAIN Waiting' : m = Waiting'[i]
          \/ \E w \in W : \E i \in DOMAIN Backlog(w)' : m = Backlog(w)'[i]
<1>1. Live' = Carried' \ {NoMsg}
    BY DEF Live, NoMsg
<1>2. Carried' = {Waiting'[i] : i \in DOMAIN Waiting'}
                    \cup UNION {{Backlog(w)'[i] : i \in DOMAIN Backlog(w)'} : w \in W}
    BY DEF Carried, W
<1>3. QED
    BY <1>1, <1>2

\* Numbers of what the views hold.
LEMMA NrFacts ==
    ASSUME DeliveryTypes
    PROVE  /\ Nr(NoMsg) = 0 /\ \A m \in Msg : Nr(m) \in Nat /\ Nr(m) > 0 /\ m # NoMsg
           /\ \A i \in DOMAIN Waiting : i \in Nat /\ Nr(Waiting[i]) \in Nat
                 /\ (Waiting[i] # NoMsg => Nr(Waiting[i]) > 0) /\ (i # 0 => Waiting[i] # NoMsg)
           /\ \A w \in W : \A i \in DOMAIN Backlog(w) : i \in Nat /\ Nr(Backlog(w)[i]) \in Nat
                 /\ (Backlog(w)[i] # NoMsg => Nr(Backlog(w)[i]) > 0)
                 /\ (i # 0 => Backlog(w)[i] # NoMsg)
<1>1. Nr(NoMsg) = 0 /\ \A m \in Msg : Nr(m) \in Nat /\ Nr(m) > 0 /\ m # NoMsg
    BY MessageFacts DEF Nr
<1> HIDE DEF Nr
<1>2. QED
    BY <1>1, ViewFacts

-----------------------------------------------------------------------------
LEMMA LineUpRecv ==
    ASSUME DeliveryTypes, DeliveryTypes', LineUp, DispatchRecv
    PROVE  LineUp' /\ Live' = Live
<1> USE DEF LineUp
<1>1. /\ Len(dispatch) \in Nat /\ Len(dispatch) >= 1 /\ Waiting[0] = NoMsg
      /\ DOMAIN Waiting = 0 .. Len(dispatch) /\ DOMAIN Waiting' = 0 .. Len(dispatch) - 1
      /\ \A i \in DOMAIN Waiting' : Waiting'[i] = Waiting[i + 1]
      /\ \A w : Backlog(w)' = Backlog(w)
    BY DispatchRecvShape
<1>2. \A i \in DOMAIN Waiting' : i \in Nat /\ i + 1 \in DOMAIN Waiting
    BY <1>1
<1>3. \A i, j \in DOMAIN Waiting' : i < j => Nr(Waiting'[i]) < Nr(Waiting'[j])
    BY <1>1, <1>2
<1>4. \A w \in W : \A i \in DOMAIN Backlog(w), j \in DOMAIN Waiting' :
          Waiting'[j] # NoMsg => Nr(Backlog(w)[i]) < Nr(Waiting'[j])
    BY <1>1, <1>2
<1>5. LineUp'
    <2>1. /\ \A w \in W : \A i, j \in DOMAIN Backlog(w) : i < j => Nr(Backlog(w)[i]) < Nr(Backlog(w)[j])
          /\ \A v, w \in W : v # w => \A i \in DOMAIN Backlog(v), j \in DOMAIN Backlog(w) :
                Backlog(v)[i] # NoMsg => Nr(Backlog(v)[i]) # Nr(Backlog(w)[j])
        OBVIOUS
    <2>2. /\ \A w \in W : \A i, j \in DOMAIN Backlog(w)' : i < j => Nr(Backlog(w)'[i]) < Nr(Backlog(w)'[j])
          /\ \A v, w \in W : v # w => \A i \in DOMAIN Backlog(v)', j \in DOMAIN Backlog(w)' :
                Backlog(v)'[i] # NoMsg => Nr(Backlog(v)'[i]) # Nr(Backlog(w)'[j])
          /\ \A w \in W : \A i \in DOMAIN Backlog(w)', j \in DOMAIN Waiting' :
                Waiting'[j] # NoMsg => Nr(Backlog(w)'[i]) < Nr(Waiting'[j])
        <3> HIDE DEF LineUp
        <3>1. \A w : Backlog(w)' = Backlog(w)
            BY <1>1
        <3>2. QED
            BY <1>4, <2>1, <3>1
    <2>3. QED
        BY <1>3, <2>2 DEF Nr, NoMsg
<1>6. \A m : m # NoMsg =>
         ((\E i \in DOMAIN Waiting' : m = Waiting'[i]) <=> (\E i \in DOMAIN Waiting : m = Waiting[i]))
    <2>1. ASSUME NEW i \in DOMAIN Waiting, Waiting[i] # NoMsg
          PROVE  \E j \in DOMAIN Waiting' : Waiting[i] = Waiting'[j]
        <3>1. i - 1 \in DOMAIN Waiting' /\ Waiting'[i - 1] = Waiting[i]
            BY <1>1, <2>1
        <3>2. QED
            BY <3>1
    <2>2. ASSUME NEW i \in DOMAIN Waiting'
          PROVE  \E j \in DOMAIN Waiting : Waiting'[i] = Waiting[j]
        BY <1>1, <1>2
    <2>3. QED
        <3> HIDE DEF LineUp
        <3>1. QED
            BY <2>1, <2>2
<1>7. ASSUME NEW m PROVE m \in Live' <=> m \in Live
    <2> HIDE DEF LineUp
    <2>1. \A w : Backlog(w)' = Backlog(w)
        BY <1>1
    <2>2. (\E w \in W : \E i \in DOMAIN Backlog(w)' : m = Backlog(w)'[i])
             <=> \E w \in W : \E i \in DOMAIN Backlog(w) : m = Backlog(w)[i]
        BY <2>1
    <2>3. QED
        BY <1>6, <2>2, LiveFacts, LiveNext
<1>8. Live' = Live
    BY <1>7, LiveFacts
<1>9. QED
    BY <1>5, <1>8

LEMMA LineUpSend ==
    ASSUME DeliveryTypes, LineUp, DispatchSend
    PROVE  LineUp' /\ Live' = Live
<1> USE DEF LineUp
<1>0. turn \in W
    BY PoolFacts DEF DeliveryTypes
<1>1. PICK v \in W : v = turn
    BY <1>0
<1> DEFINE n == Len(workerQ[v])
<1>2. /\ held \in Msg /\ held = Waiting[0]
      /\ DOMAIN Waiting' = DOMAIN Waiting /\ Waiting'[0] = NoMsg
      /\ \A i \in DOMAIN Waiting : i # 0 => Waiting'[i] = Waiting[i]
      /\ n \in Nat /\ DOMAIN Backlog(v) = 0 .. n
      /\ DOMAIN Backlog(v)' = 0 .. n + 1
      /\ \A i \in 0 .. n : Backlog(v)'[i] = Backlog(v)[i]
      /\ Backlog(v)'[n + 1] = held
      /\ \A w \in W : w # v => Backlog(w)' = Backlog(w)
    BY <1>1, DispatchSendShape
<1> HIDE DEF n
<1>3. 0 \in DOMAIN Waiting /\ Waiting[0] # NoMsg
    BY <1>2, ViewFacts, MessageFacts
<1>4. \A w \in W : \A i \in DOMAIN Backlog(w) : Nr(Backlog(w)[i]) < Nr(held)
    BY <1>2, <1>3
<1>5. \A j \in DOMAIN Waiting : j # 0 => Nr(held) < Nr(Waiting[j])
    BY <1>2, <1>3, NrFacts
<1>6. \A i, j \in DOMAIN Waiting' : i < j => Nr(Waiting'[i]) < Nr(Waiting'[j])
    BY <1>2, NrFacts
<1>7. \A i \in DOMAIN Backlog(v)' : i \in DOMAIN Backlog(v) \/ i = n + 1
    BY <1>2
<1>8. \A i, j \in DOMAIN Backlog(v)' : i < j => Nr(Backlog(v)'[i]) < Nr(Backlog(v)'[j])
    BY <1>2, <1>4, <1>7
<1>9. ASSUME NEW w \in W, NEW i \in DOMAIN Backlog(w)', NEW j \in DOMAIN Waiting',
             Waiting'[j] # NoMsg
      PROVE  Nr(Backlog(w)'[i]) < Nr(Waiting'[j])
    BY <1>2, <1>5, <1>7, <1>9
<1>10. ASSUME NEW u \in W, NEW w \in W, u # w, NEW i \in DOMAIN Backlog(u)',
              NEW j \in DOMAIN Backlog(w)', Backlog(u)'[i] # NoMsg
       PROVE  Nr(Backlog(u)'[i]) # Nr(Backlog(w)'[j])
    <2>1. CASE u = v
        <3>1. Backlog(w)' = Backlog(w)
            BY <1>2, <1>10, <2>1
        <3>2. CASE i \in DOMAIN Backlog(v)
            BY <1>2, <1>10, <2>1, <3>1, <3>2
        <3>3. CASE i = n + 1
            BY <1>2, <1>4, <1>10, <2>1, <3>1, <3>3, NrFacts
        <3>4. QED
            BY <1>7, <1>10, <2>1, <3>2, <3>3
    <2>2. CASE u # v
        <3>1. Backlog(u)' = Backlog(u)
            BY <1>2, <2>2
        <3>2. CASE w # v
            BY <1>2, <1>10, <3>1, <3>2
        <3>3. CASE w = v /\ j \in DOMAIN Backlog(v)
            BY <1>2, <1>10, <3>1, <3>3
        <3>4. CASE w = v /\ j = n + 1
            BY <1>2, <1>4, <1>10, <3>1, <3>4, NrFacts
        <3>5. QED
            BY <1>7, <1>10, <3>2, <3>3, <3>4
    <2>3. QED
        BY <2>1, <2>2
<1>11. LineUp'
    <2>1. \A w \in W : \A i, j \in DOMAIN Backlog(w)' :
             i < j => Nr(Backlog(w)'[i]) < Nr(Backlog(w)'[j])
        BY <1>2, <1>8
    <2>2. QED
        BY <1>6, <1>9, <1>10, <2>1 DEF Nr, NoMsg
<1>12. ASSUME NEW m, m # NoMsg PROVE m \in Live' <=> m \in Live
    <2>1. (\E i \in DOMAIN Waiting : m = Waiting[i])
             <=> m = held \/ \E i \in DOMAIN Waiting' : m = Waiting'[i]
        BY <1>2, <1>3, <1>12
    <2>2. (\E i \in DOMAIN Backlog(v)' : m = Backlog(v)'[i])
             <=> m = held \/ \E i \in DOMAIN Backlog(v) : m = Backlog(v)[i]
        BY <1>2, <1>7
    <2>3. \A w \in W : w # v =>
             ((\E i \in DOMAIN Backlog(w)' : m = Backlog(w)'[i])
                <=> (\E i \in DOMAIN Backlog(w) : m = Backlog(w)[i]))
        BY <1>2
    <2>4. QED
        BY <1>12, <2>1, <2>2, <2>3, LiveFacts, LiveNext
<1>13. QED
    BY <1>11, <1>12, LiveFacts, LiveNext

LEMMA LineUpWorkerRecv ==
    ASSUME DeliveryTypes, LineUp, NEW v \in W, WorkerRecv(v)
    PROVE  LineUp' /\ Live' = Live
<1> USE DEF LineUp
<1> DEFINE n == Len(workerQ[v])
<1>1. /\ n \in Nat /\ n >= 1 /\ Backlog(v)[0] = NoMsg
      /\ DOMAIN Backlog(v) = 0 .. n /\ DOMAIN Backlog(v)' = 0 .. n - 1
      /\ \A i \in DOMAIN Backlog(v)' : Backlog(v)'[i] = Backlog(v)[i + 1]
      /\ Waiting' = Waiting
      /\ \A w \in W : w # v => Backlog(w)' = Backlog(w)
    BY WorkerRecvShape
<1> HIDE DEF n
<1>2. \A i \in DOMAIN Backlog(v)' : i \in Nat /\ i + 1 \in DOMAIN Backlog(v)
    BY <1>1
<1>3. ASSUME NEW w \in W, NEW i \in DOMAIN Backlog(w)'
      PROVE  \E k \in DOMAIN Backlog(w) : Backlog(w)'[i] = Backlog(w)[k]
    BY <1>1, <1>2
<1>4. ASSUME NEW w \in W, NEW i \in DOMAIN Backlog(w)', NEW j \in DOMAIN Backlog(w)', i < j
      PROVE  Nr(Backlog(w)'[i]) < Nr(Backlog(w)'[j])
    BY <1>1, <1>2, <1>4
<1>5. \A w \in W : \A i \in DOMAIN Backlog(w)', j \in DOMAIN Waiting :
          Waiting[j] # NoMsg => Nr(Backlog(w)'[i]) < Nr(Waiting[j])
    BY <1>3
<1>6. \A u, w \in W : u # w => \A i \in DOMAIN Backlog(u)', j \in DOMAIN Backlog(w)' :
          Backlog(u)'[i] # NoMsg => Nr(Backlog(u)'[i]) # Nr(Backlog(w)'[j])
    BY <1>3
<1>7. LineUp'
    BY <1>1, <1>4, <1>5, <1>6 DEF Nr, NoMsg
<1>8. ASSUME NEW m, m # NoMsg PROVE m \in Live' <=> m \in Live
    <2>1. ASSUME NEW i \in DOMAIN Backlog(v), Backlog(v)[i] # NoMsg
          PROVE  i - 1 \in DOMAIN Backlog(v)' /\ Backlog(v)'[i - 1] = Backlog(v)[i]
        BY <1>1, <2>1
    <2>2. \A w \in W : ((\E i \in DOMAIN Backlog(w)' : m = Backlog(w)'[i])
                <=> (\E i \in DOMAIN Backlog(w) : m = Backlog(w)[i]))
        BY <1>1, <1>3, <1>8, <2>1
    <2>3. QED
        BY <1>1, <1>8, <2>2, LiveFacts, LiveNext
<1>9. QED
    BY <1>7, <1>8, LiveFacts, LiveNext

\* The message in a worker's hand is the only one with its number, and the
\* first of the line when there is one worker.
LEMMA LineUpHandle ==
    ASSUME DeliveryTypes, LineUp, NEW v \in W, NEW c \in Conns, HandleDispatch(v, c)
    PROVE  /\ LineUp' /\ job[v] \in Live
           /\ \A m \in Live : m # job[v] =>
                 Nr(m) # Nr(job[v]) /\ (workers = 1 => Nr(job[v]) < Nr(m))
           /\ \A m : m \in Live' <=>
                 \/ m \in Live /\ m # job[v]
                 \/ m = Backlog(v)'[0] /\ m # NoMsg
<1>1. /\ job[v] \in Msg /\ c \in job[v].targets /\ Backlog(v)[0] = job[v]
      /\ 0 \in DOMAIN Backlog(v) /\ DOMAIN Backlog(v)' = DOMAIN Backlog(v)
      /\ \A i \in DOMAIN Backlog(v) : i # 0 => Backlog(v)'[i] = Backlog(v)[i]
      /\ \/ Backlog(v)'[0] = NoMsg
         \/ Backlog(v)'[0] \in Msg /\ Backlog(v)'[0].event = job[v].event
      /\ Waiting' = Waiting
      /\ \A w \in W : w # v => Backlog(w)' = Backlog(w)
    BY HandleShape
<1>2. \/ Backlog(v)'[0] = NoMsg
      \/ Backlog(v)'[0] # NoMsg /\ Nr(Backlog(v)'[0]) = Nr(Backlog(v)[0])
    BY <1>1, MessageFacts DEF Nr
<1>3. Backlog(v)[0] # NoMsg /\ Nr(Backlog(v)[0]) \in Nat /\ Nr(Backlog(v)[0]) > 0 /\ Nr(NoMsg) = 0
    BY <1>1, NrFacts
<1>4. ASSUME NEW w \in W, NEW i \in DOMAIN Backlog(w)'
      PROVE  /\ i \in DOMAIN Backlog(w)
             /\ \/ Backlog(w)'[i] = NoMsg /\ i = 0
                \/ /\ Backlog(w)[i] # NoMsg /\ Backlog(w)'[i] # NoMsg
                   /\ Nr(Backlog(w)'[i]) = Nr(Backlog(w)[i])
    <2>1. CASE w # v \/ i # 0
        BY <1>1, <2>1, NrFacts
    <2>2. CASE w = v /\ i = 0
        BY <1>1, <1>2, <1>3, <2>2
    <2>3. QED
        BY <2>1, <2>2
<1>5. LineUp'
    <2>1. ASSUME NEW w \in W, NEW i \in DOMAIN Backlog(w)', NEW j \in DOMAIN Backlog(w)', i < j
          PROVE  Nr(Backlog(w)'[i]) < Nr(Backlog(w)'[j])
        <3>1. i \in DOMAIN Backlog(w) /\ j \in DOMAIN Backlog(w) /\ i \in Nat /\ j \in Nat /\ j # 0
            BY <1>4, <2>1, NrFacts
        <3>2. Nr(Backlog(w)[i]) < Nr(Backlog(w)[j])
            BY <2>1, <3>1 DEF LineUp
        <3>3. Nr(Backlog(w)'[j]) = Nr(Backlog(w)[j]) /\ Backlog(w)[j] # NoMsg
            BY <1>4, <3>1
        <3>4. QED
            BY <1>3, <1>4, <3>1, <3>2, <3>3, NrFacts
    <2>2. ASSUME NEW w \in W, NEW i \in DOMAIN Backlog(w)', NEW j \in DOMAIN Waiting, Waiting[j] # NoMsg
          PROVE  Nr(Backlog(w)'[i]) < Nr(Waiting[j])
        <3>1. i \in DOMAIN Backlog(w)
            BY <1>4
        <3>2. Nr(Backlog(w)[i]) < Nr(Waiting[j]) /\ Nr(Waiting[j]) > 0
            BY <2>2, <3>1, NrFacts DEF LineUp
        <3>3. QED
            BY <1>3, <1>4, <3>2
    <2>3. ASSUME NEW u \in W, NEW w \in W, u # w, NEW i \in DOMAIN Backlog(u)',
                 NEW j \in DOMAIN Backlog(w)', Backlog(u)'[i] # NoMsg
          PROVE  Nr(Backlog(u)'[i]) # Nr(Backlog(w)'[j])
        <3>1. /\ i \in DOMAIN Backlog(u) /\ Backlog(u)[i] # NoMsg
              /\ Nr(Backlog(u)'[i]) = Nr(Backlog(u)[i]) /\ j \in DOMAIN Backlog(w)
            BY <1>4, <2>3
        <3>2. Nr(Backlog(u)[i]) # Nr(Backlog(w)[j])
            BY <2>3, <3>1 DEF LineUp
        <3>3. Nr(Backlog(u)[i]) > 0
            BY <3>1, NrFacts
        <3>4. QED
            BY <1>3, <1>4, <3>1, <3>2, <3>3
    <2>4. \A i, j \in DOMAIN Waiting : i < j => Nr(Waiting[i]) < Nr(Waiting[j])
        BY DEF LineUp
    <2>5. QED
        BY <1>1, <2>1, <2>2, <2>3, <2>4 DEF LineUp, Nr, NoMsg
<1>6. ASSUME NEW m, m # NoMsg, m # job[v],
             NEW w \in W, NEW i \in DOMAIN Backlog(w), m = Backlog(w)[i]
      PROVE  Nr(m) # Nr(job[v]) /\ (w = v => Nr(job[v]) < Nr(m))
    <2>1. CASE w = v
        <3>1. i # 0 /\ i \in Nat
            BY <1>1, <1>6, <2>1, NrFacts
        <3>2. Nr(Backlog(v)[0]) < Nr(Backlog(v)[i]) /\ Nr(Backlog(v)[i]) \in Nat
            BY <1>1, <1>6, <2>1, <3>1, NrFacts DEF LineUp
        <3>3. QED
            BY <1>1, <1>3, <1>6, <2>1, <3>2
    <2>2. CASE w # v
        BY <1>1, <1>3, <1>6, <2>2 DEF LineUp
    <2>3. QED
        BY <2>1, <2>2
<1>7. ASSUME NEW j \in DOMAIN Waiting, Waiting[j] # NoMsg
      PROVE  Nr(job[v]) < Nr(Waiting[j]) /\ Nr(Waiting[j]) # Nr(job[v])
    <2>1. Nr(Backlog(v)[0]) < Nr(Waiting[j]) /\ Nr(Waiting[j]) \in Nat
        BY <1>1, <1>7, NrFacts DEF LineUp
    <2>2. QED
        BY <1>1, <1>3, <2>1
<1>8. workers = 1 => v = 1 /\ \A w \in W : w # v => \A i \in DOMAIN Backlog(w) : Backlog(w)[i] = NoMsg
    <2>1. SUFFICES ASSUME workers = 1
                   PROVE  v = 1 /\ \A w \in W : w # v => \A i \in DOMAIN Backlog(w) : Backlog(w)[i] = NoMsg
        OBVIOUS
    <2>2. \A w \in W : w # 1 => job[w] = NoMsg /\ workerQ[w] = <<>>
        BY <2>1, PoolFacts DEF DeliveryTypes
    <2>3. v = 1
        BY <1>1, <2>2, MessageFacts
    <2>4. ASSUME NEW w \in W, w # 1, NEW i \in DOMAIN Backlog(w) PROVE Backlog(w)[i] = NoMsg
        <3>1. i = 0
            BY <2>2, <2>4, ViewFacts
        <3>2. QED
            BY <2>2, <2>4, <3>1, ViewFacts
    <2>5. QED
        BY <2>3, <2>4
<1>9. job[v] \in Live
    BY <1>1, <1>3, LiveFacts
<1>10. \A m \in Live : m # job[v] =>
          Nr(m) # Nr(job[v]) /\ (workers = 1 => Nr(job[v]) < Nr(m))
    BY <1>6, <1>7, <1>8, LiveFacts
<1>11. ASSUME NEW m
       PROVE  m \in Live' <=> \/ m \in Live /\ m # job[v]
                              \/ m = Backlog(v)'[0] /\ m # NoMsg
    <2>1. ASSUME NEW j \in DOMAIN Waiting, Waiting[j] # NoMsg PROVE Waiting[j] # job[v]
        BY <1>7, <2>1, <1>1, <1>3
    <2>2. ASSUME NEW w \in W, NEW i \in DOMAIN Backlog(w), Backlog(w)[i] # NoMsg, w # v \/ i # 0
          PROVE  Backlog(w)[i] # job[v]
        <3>1. CASE w # v
            BY <1>1, <1>3, <2>2, <3>1 DEF LineUp
        <3>2. CASE w = v
            <4>1. i # 0 /\ i \in Nat
                BY <2>2, <3>2, NrFacts
            <4>2. Nr(Backlog(v)[0]) < Nr(Backlog(v)[i]) /\ Nr(Backlog(v)[i]) \in Nat
                BY <1>1, <2>2, <3>2, <4>1, NrFacts DEF LineUp
            <4>3. QED
                BY <1>1, <1>3, <3>2, <4>2
        <3>3. QED
            BY <3>1, <3>2
    <2>3. ASSUME m # NoMsg, NEW w \in W, NEW i \in DOMAIN Backlog(w)', m = Backlog(w)'[i]
          PROVE  \/ m \in Live /\ m # job[v]
                 \/ m = Backlog(v)'[0]
        <3>1. CASE w = v /\ i = 0
            BY <2>3, <3>1
        <3>2. CASE w # v \/ i # 0
            <4>1. i \in DOMAIN Backlog(w) /\ Backlog(w)'[i] = Backlog(w)[i]
                BY <1>1, <2>3, <3>2
            <4>2. QED
                BY <2>2, <2>3, <3>2, <4>1, LiveFacts
        <3>3. QED
            BY <3>1, <3>2
    <2>4. ASSUME m \in Live, m # job[v] PROVE m \in Live'
        <3>1. CASE \E j \in DOMAIN Waiting : m = Waiting[j]
            BY <1>1, <2>4, <3>1, LiveFacts, LiveNext
        <3>2. ASSUME NEW w \in W, NEW i \in DOMAIN Backlog(w), m = Backlog(w)[i] PROVE m \in Live'
            <4>1. w # v \/ i # 0
                BY <1>1, <2>4, <3>2
            <4>2. i \in DOMAIN Backlog(w)' /\ Backlog(w)'[i] = m /\ m # NoMsg
                BY <1>1, <2>4, <3>2, <4>1, LiveFacts
            <4>3. QED
                BY <4>2, LiveNext
        <3>3. QED
            BY <2>4, <3>1, <3>2, LiveFacts
    <2>5. ASSUME m = Backlog(v)'[0], m # NoMsg PROVE m \in Live'
        BY <1>1, <2>5, LiveNext
    <2>6. ASSUME m \in Live'
          PROVE  \/ m \in Live /\ m # job[v]
                 \/ m = Backlog(v)'[0] /\ m # NoMsg
        BY <1>1, <2>1, <2>3, <2>6, LiveFacts, LiveNext
    <2>7. QED
        BY <2>4, <2>5, <2>6
<1>12. QED
    BY <1>5, <1>9, <1>10, <1>11

\* A routed batch goes to the end of the line, with the largest number.
LEMMA LineUpRouted ==
    ASSUME DeliveryTypes, LineUp, Numbered,
           NEW t \in Topics, NEW targets \in SUBSET Conns, Routed(t, targets)
    PROVE  /\ LineUp'
           /\ \/ /\ \A m : m \in Live' <=> m \in Live
                 /\ stats'.lostMatches = stats.lostMatches + Cardinality(targets)
              \/ /\ \A m : m \in Live' <=> m \in Live \/ m = NewBatch(t, targets)
                 /\ NewBatch(t, targets) \in Msg /\ stats'.lostMatches = stats.lostMatches
<1>1. /\ Len(dispatch) \in Nat /\ DOMAIN Waiting = 0 .. Len(dispatch)
      /\ \A w : Backlog(w)' = Backlog(w)
      /\ \/ /\ Waiting' = Waiting
            /\ stats'.lostMatches = stats.lostMatches + Cardinality(targets)
         \/ /\ NewBatch(t, targets) \in Msg /\ DOMAIN Waiting' = 0 .. Len(dispatch) + 1
            /\ \A i \in 0 .. Len(dispatch) : Waiting'[i] = Waiting[i]
            /\ Waiting'[Len(dispatch) + 1] = NewBatch(t, targets)
            /\ stats'.lostMatches = stats.lostMatches
    BY RoutedShape
<1>2. /\ \A w \in W : \A i, j \in DOMAIN Backlog(w)' : i < j => Nr(Backlog(w)'[i]) < Nr(Backlog(w)'[j])
      /\ \A v, w \in W : v # w => \A i \in DOMAIN Backlog(v)', j \in DOMAIN Backlog(w)' :
            Backlog(v)'[i] # NoMsg => Nr(Backlog(v)'[i]) # Nr(Backlog(w)'[j])
    <2>1. \A w : Backlog(w)' = Backlog(w)
        BY <1>1
    <2>2. QED
        BY <2>1 DEF LineUp
<1>3. CASE /\ Waiting' = Waiting
           /\ stats'.lostMatches = stats.lostMatches + Cardinality(targets)
    <2>1. /\ \A i, j \in DOMAIN Waiting' : i < j => Nr(Waiting'[i]) < Nr(Waiting'[j])
          /\ \A w \in W : \A i \in DOMAIN Backlog(w)', j \in DOMAIN Waiting' :
                Waiting'[j] # NoMsg => Nr(Backlog(w)'[i]) < Nr(Waiting'[j])
        BY <1>1, <1>3 DEF LineUp
    <2>2. LineUp'
        BY <1>2, <2>1 DEF LineUp, Nr, NoMsg
    <2>3. \A m : m \in Live' <=> m \in Live
        BY <1>1, <1>3, LiveFacts, LiveNext
    <2>4. QED
        BY <1>3, <2>2, <2>3
<1>4. CASE /\ NewBatch(t, targets) \in Msg /\ DOMAIN Waiting' = 0 .. Len(dispatch) + 1
           /\ \A i \in 0 .. Len(dispatch) : Waiting'[i] = Waiting[i]
           /\ Waiting'[Len(dispatch) + 1] = NewBatch(t, targets)
           /\ stats'.lostMatches = stats.lostMatches
    <2> DEFINE n == Len(dispatch) + 1
    <2>1. PICK b \in Msg : b = NewBatch(t, targets)
        BY <1>4
    <2>2. Nr(b) = stats.routed + 1 /\ stats.routed \in Nat /\ b # NoMsg
        BY <2>1, MessageFacts DEF Nr, NewBatch, NewEvent, DeliveryTypes
    <2>3. \A m \in Live : Nr(m) <= stats.routed
        BY DEF Numbered, Known, Nr
    <2>4. /\ \A i \in DOMAIN Waiting : Nr(Waiting[i]) < Nr(b)
          /\ \A w \in W : \A i \in DOMAIN Backlog(w) : Nr(Backlog(w)[i]) < Nr(b)
        BY <2>2, <2>3, LiveFacts, NrFacts
    <2>5. n \in Nat /\ \A i \in DOMAIN Waiting' : i \in Nat /\ (i \in DOMAIN Waiting \/ i = n)
        BY <1>1, <1>4
    <2>6. Waiting'[n] = b /\ \A i \in DOMAIN Waiting : Waiting'[i] = Waiting[i] /\ i < n
        BY <1>1, <1>4, <2>1
    <2> HIDE DEF n
    <2>7. \A i, j \in DOMAIN Waiting' : i < j => Nr(Waiting'[i]) < Nr(Waiting'[j])
        BY <2>4, <2>5, <2>6 DEF LineUp
    <2>8. \A w \in W : \A i \in DOMAIN Backlog(w)', j \in DOMAIN Waiting' :
             Waiting'[j] # NoMsg => Nr(Backlog(w)'[i]) < Nr(Waiting'[j])
        <3>1. \A w : Backlog(w)' = Backlog(w)
            BY <1>1
        <3>2. QED
            BY <2>4, <2>5, <2>6, <3>1 DEF LineUp
    <2>9. LineUp'
        BY <1>2, <2>7, <2>8 DEF LineUp, Nr, NoMsg
    <2>10. \A m : (\E i \in DOMAIN Waiting' : m = Waiting'[i])
                     <=> m = b \/ \E i \in DOMAIN Waiting : m = Waiting[i]
        <3>1. n \in DOMAIN Waiting' /\ DOMAIN Waiting \subseteq DOMAIN Waiting'
            BY <1>1, <1>4 DEF n
        <3>2. QED
            BY <2>5, <2>6, <3>1
    <2>11. ASSUME NEW m PROVE m \in Live' <=> m \in Live \/ m = b
        <3>1. \A w : Backlog(w)' = Backlog(w)
            BY <1>1
        <3>2. (\E w \in W : \E i \in DOMAIN Backlog(w)' : m = Backlog(w)'[i])
                 <=> \E w \in W : \E i \in DOMAIN Backlog(w) : m = Backlog(w)[i]
            BY <3>1
        <3>3. QED
            BY <2>2, <2>10, <3>2, LiveFacts, LiveNext
    <2>12. QED
        BY <1>4, <2>1, <2>9, <2>11
<1>5. QED
    BY <1>1, <1>3, <1>4

-----------------------------------------------------------------------------
\* What is known of the events that are still somewhere.
LEMMA KnownFacts ==
    ASSUME DeliveryTypes
    PROVE  /\ Known \subseteq Ev
           /\ \A x \in Ev : x.topic \in Topics /\ x.seq \in Nat /\ x.nr \in Nat /\ x.nr > 0
           /\ \A c \in Conns : Got(c) \subseteq Known
           /\ \A m \in Live : m.event \in Known /\ m.event \in Ev /\ m.targets \subseteq Conns
<1>1. \A c \in Conns : received[c] \in Seq(Ev) /\ queue[c] \in Seq(Ev)
    BY DEF DeliveryTypes
<1>2. \A c \in Conns : Got(c) \subseteq Ev
    BY <1>1 DEF Got
<1>3. \A m \in Live : m.event \in Ev /\ m.targets \subseteq Conns
    BY LiveFacts, MessageFacts
<1>4. \A x \in Ev : x.topic \in Topics /\ x.seq \in Nat /\ x.nr \in Nat /\ x.nr > 0
    BY DEF Ev
<1>5. QED
    BY <1>2, <1>3, <1>4 DEF Known

LEMMA KnownNext ==
    \A x : x \in Known' <=> (\E c \in Conns : x \in Got(c)') \/ \E m \in Live' : x = m.event
    BY DEF Known

\* Events that disappear take nothing from the numbering.
LEMMA NumberedShrinks ==
    ASSUME Numbered, Known' \subseteq Known, stats'.routed = stats.routed, sequences' = sequences
    PROVE  Numbered'
    BY DEF Numbered

\* A step that only moves messages from one channel to another.
LEMMA OnlyMoves ==
    ASSUME Numbered, \A c \in Conns : InLine(c), Live' = Live,
           UNCHANGED <<queue, received, workers, sequences>>, stats'.routed = stats.routed
    PROVE  Numbered' /\ \A c \in Conns : InLine(c)'
<1>1. \A c : Got(c)' = Got(c)
    BY DEF Got
<1>2. Known' \subseteq Known
    BY <1>1 DEF Known
<1>3. ASSUME NEW c \in Conns PROVE InLine(c)'
    <2>1. InLine(c)
        OBVIOUS
    <2>2. QED
        BY <1>1, <2>1 DEF InLine, Precedes
<1>4. QED
    BY <1>2, <1>3, NumberedShrinks

LEMMA EvAppend ==
    ASSUME NEW q \in Seq(Ev), NEW e \in Ev
    PROVE  /\ Len(q) \in Nat /\ DOMAIN q = 1 .. Len(q) /\ Append(q, e) \in Seq(Ev)
           /\ DOMAIN Append(q, e) = 1 .. Len(q) + 1
           /\ \A i \in 1 .. Len(q) : Append(q, e)[i] = q[i]
           /\ Append(q, e)[Len(q) + 1] = e
    OBVIOUS

LEMMA EvTail ==
    ASSUME NEW q \in Seq(Ev), q # <<>>
    PROVE  /\ Head(q) = q[1] /\ Head(q) \in Ev /\ Len(q) \in Nat /\ Len(q) >= 1
           /\ DOMAIN q = 1 .. Len(q) /\ DOMAIN Tail(q) = 1 .. Len(q) - 1
           /\ \A i \in 1 .. Len(q) - 1 : Tail(q)[i] = q[i + 1]
    OBVIOUS

\* The router's new event comes after everything there is.
LEMMA RoutedInLine ==
    ASSUME DeliveryTypes, LineUp, Numbered, \A c \in Conns : InLine(c),
           NEW t \in Topics, NEW targets \in SUBSET Conns, Routed(t, targets)
    PROVE  Numbered' /\ \A c \in Conns : InLine(c)'
<1>1. PICK e \in Ev : e = NewEvent(t)
    BY DEF Routed
<1>2. /\ e.topic = t /\ e.seq = sequences[t] + 1 /\ e.nr = stats.routed + 1
      /\ stats.routed \in Nat /\ sequences[t] \in Nat /\ sequences \in [Topics -> Nat]
    BY <1>1 DEF NewEvent, DeliveryTypes
<1>3. \A m \in Live' : m \in Live \/ m.event = e
    <2>1. \A m \in Live' : m \in Live \/ m = NewBatch(t, targets)
        BY LineUpRouted
    <2>2. NewBatch(t, targets).event = e
        BY <1>1 DEF NewBatch
    <2>3. QED
        BY <2>1, <2>2
<1>4. /\ stats'.routed = stats.routed + 1 /\ sequences' = [sequences EXCEPT ![t] = @ + 1]
      /\ queue' = queue /\ received' = received /\ workers' = workers
    BY DEF Routed
<1>5. \A c : Got(c)' = Got(c)
    BY <1>4 DEF Got
<1>6. \A x \in Known : /\ x.nr <= stats.routed /\ x.seq <= sequences[x.topic]
                       /\ x.nr \in Nat /\ x.seq \in Nat /\ x.topic \in Topics
    BY KnownFacts DEF Numbered
<1>7. Known' \subseteq Known \cup {e}
    BY <1>3, <1>5, KnownNext DEF Known
<1>8. Numbered'
    <2>1. \A x \in Topics : sequences[x] \in Nat /\ sequences'[x] >= sequences[x]
        BY <1>2, <1>4
    <2>2. sequences'[t] = sequences[t] + 1
        BY <1>2, <1>4
    <2>3. \A x \in Known \cup {e} : x.nr <= stats'.routed /\ x.seq <= sequences'[x.topic]
        BY <1>2, <1>4, <1>6, <2>1, <2>2
    <2>4. ASSUME NEW x \in Known \cup {e}, NEW y \in Known \cup {e}, x.topic = y.topic, x.seq < y.seq
          PROVE  x.nr < y.nr
        <3>1. CASE x \in Known /\ y \in Known
            BY <2>4, <3>1 DEF Numbered
        <3>2. CASE x \in Known /\ y = e
            BY <1>2, <1>6, <3>2
        <3>3. CASE x = e /\ y \in Known
            BY <1>2, <1>6, <2>4, <3>3
        <3>4. CASE x = e /\ y = e
            BY <1>2, <2>4, <3>4
        <3>5. QED
            BY <2>4, <3>1, <3>2, <3>3, <3>4
    <2>5. QED
        BY <1>7, <2>3, <2>4 DEF Numbered
<1>9. ASSUME NEW c \in Conns PROVE InLine(c)'
    <2>1. InLine(c)
        OBVIOUS
    <2>2. \A x, y : Precedes(x, y)' <=> Precedes(x, y)
        BY <1>4 DEF Precedes
    <2>3. \A x \in Got(c) : Precedes(x, e)
        BY <1>2, <1>6, KnownFacts DEF Precedes
    <2>4. \A x \in Got(c)', m \in Live' : c \in m.targets => Precedes(x, m.event)
        BY <1>3, <1>5, <2>1, <2>3 DEF InLine
    <2>5. /\ \A i, j \in DOMAIN received'[c] : i < j => Precedes(received'[c][i], received'[c][j])
          /\ \A i, j \in DOMAIN queue'[c] : i < j => Precedes(queue'[c][i], queue'[c][j])
          /\ \A i \in DOMAIN received'[c], j \in DOMAIN queue'[c] : Precedes(received'[c][i], queue'[c][j])
        BY <1>4, <2>1 DEF InLine
    <2>6. QED
        BY <1>4, <2>4, <2>5 DEF InLine, Precedes
<1>10. QED
    BY <1>8, <1>9

\* What a worker puts into a queue comes after all that was put there, and
\* before all that it will get for the connection.
LEMMA HandleInLine ==
    ASSUME DeliveryTypes, LineUp, Numbered, \A d \in Conns : InLine(d),
           NEW v \in W, NEW c \in Conns, HandleDispatch(v, c)
    PROVE  Numbered' /\ \A d \in Conns : InLine(d)'
<1>1. PICK m0 \in Msg : m0 = job[v]
    BY HandleShape
<1>2. PICK e \in Ev : e = m0.event
    BY MessageFacts
<1>3. /\ c \in m0.targets /\ m0 \in Live
      /\ \A m \in Live : m # m0 => Nr(m) # Nr(m0) /\ (workers = 1 => Nr(m0) < Nr(m))
    BY <1>1, HandleShape, LineUpHandle
<1>4. ASSUME NEW m \in Live'
      PROVE  \/ m \in Live /\ m # m0
             \/ m.event = e /\ m.targets = m0.targets \ {c}
    <2>1. \/ m \in Live /\ m # m0
          \/ m = Backlog(v)'[0] /\ m # NoMsg
        BY <1>1, LineUpHandle
    <2>2. CASE m = Backlog(v)'[0] /\ m # NoMsg
        BY <1>1, <1>2, <2>2, HandleShape
    <2>3. QED
        BY <2>1, <2>2
<1>5. /\ stats' = stats /\ sequences' = sequences /\ workers' = workers /\ received' = received
      /\ queue' = queue \/ queue' = [queue EXCEPT ![c] = Append(@, e)]
    BY <1>1, <1>2 DEF HandleDispatch, Deliver, routerVars
<1>6. queue \in [Conns -> Seq(Ev)] /\ received \in [Conns -> Seq(Ev)]
    BY DEF DeliveryTypes
<1>7. \A d \in Conns : d # c => queue'[d] = queue[d]
    BY <1>5, <1>6
<1>8. queue'[c] = queue[c] \/ queue'[c] = Append(queue[c], e)
    BY <1>5, <1>6
<1> DEFINE n == Len(queue[c]) + 1
<1>9. /\ DOMAIN queue[c] \subseteq DOMAIN queue'[c] /\ DOMAIN queue'[c] \subseteq DOMAIN queue[c] \cup {n}
      /\ \A i \in DOMAIN queue[c] : queue'[c][i] = queue[c][i] /\ i < n /\ i \in Nat
      /\ n \in Nat /\ (n \in DOMAIN queue'[c] => queue'[c][n] = e)
    <2>1. queue[c] \in Seq(Ev) /\ Len(queue[c]) \in Nat /\ DOMAIN queue[c] = 1 .. Len(queue[c])
        BY <1>6
    <2>2. CASE queue'[c] = queue[c]
        BY <2>1, <2>2
    <2>3. CASE queue'[c] = Append(queue[c], e)
        BY <2>1, <2>3, EvAppend
    <2>4. QED
        BY <1>8, <2>2, <2>3
<1> HIDE DEF n
<1>10. \A d \in Conns : Got(d)' \subseteq IF d = c THEN Got(d) \cup {e} ELSE Got(d)
    BY <1>5, <1>7, <1>9 DEF Got
<1>11. Numbered'
    <2>1. e \in Known /\ \A m \in Live' : m.event \in Known
        BY <1>2, <1>3, <1>4, KnownFacts
    <2>2. Known' \subseteq Known
        BY <1>10, <2>1, KnownNext, KnownFacts
    <2>3. QED
        BY <1>5, <2>2, NumberedShrinks
<1>12. \A x, y : Precedes(x, y)' <=> Precedes(x, y)
    BY <1>5 DEF Precedes
<1>13. \A x \in Got(c) : Precedes(x, e)
    BY <1>2, <1>3 DEF InLine
<1>14. \A m \in Live : m # m0 => Precedes(e, m.event)
    BY <1>2, <1>3 DEF Precedes, Nr
<1>15. ASSUME NEW d \in Conns, NEW x \in Got(d)', NEW m \in Live', d \in m.targets
       PROVE  Precedes(x, m.event)
    <2>1. CASE x \in Got(d)
        BY <1>2, <1>3, <1>4, <1>15, <2>1 DEF InLine
    <2>2. CASE x = e /\ d = c
        BY <1>4, <1>14, <1>15, <2>2
    <2>3. QED
        BY <1>10, <1>15, <2>1, <2>2
<1>16. ASSUME NEW d \in Conns PROVE InLine(d)'
    <2>1. InLine(d)
        OBVIOUS
    <2>2. \A i, j \in DOMAIN queue'[d] : i < j => Precedes(queue'[d][i], queue'[d][j])
        <3>1. CASE d # c
            BY <1>7, <2>1, <3>1 DEF InLine
        <3>2. CASE d = c
            <4>1. ASSUME NEW i \in DOMAIN queue'[c], NEW j \in DOMAIN queue'[c], i < j
                  PROVE  Precedes(queue'[c][i], queue'[c][j])
                <5>1. i \in DOMAIN queue[c]
                    BY <1>9, <4>1
                <5>2. CASE j \in DOMAIN queue[c]
                    BY <1>9, <2>1, <3>2, <4>1, <5>1, <5>2 DEF InLine
                <5>3. CASE j = n
                    BY <1>9, <1>13, <5>1, <5>3 DEF Got
                <5>4. QED
                    BY <1>9, <5>2, <5>3
            <4>2. QED
                BY <3>2, <4>1
        <3>3. QED
            BY <3>1, <3>2
    <2>3. \A i \in DOMAIN received[d], j \in DOMAIN queue'[d] : Precedes(received[d][i], queue'[d][j])
        <3>1. CASE d # c
            BY <1>7, <2>1, <3>1 DEF InLine
        <3>2. CASE d = c
            BY <1>9, <1>13, <2>1, <3>2 DEF InLine, Got
        <3>3. QED
            BY <3>1, <3>2
    <2>4. \A i, j \in DOMAIN received[d] : i < j => Precedes(received[d][i], received[d][j])
        BY <2>1 DEF InLine
    <2>5. \A x \in Got(d)', m \in Live' : d \in m.targets => Precedes(x, m.event)
        BY <1>15
    <2>6. QED
        BY <1>5, <2>2, <2>3, <2>4, <2>5 DEF InLine, Precedes
<1>17. QED
    BY <1>11, <1>16

\* writer_loop moves the head of a queue to the client, or drops the queue.
LEMMA WriterInLine ==
    ASSUME DeliveryTypes, Numbered, \A d \in Conns : InLine(d), Live' = Live,
           NEW c \in Conns, WriterSend(c) \/ WriterEnd(c)
    PROVE  Numbered' /\ \A d \in Conns : InLine(d)'
<1>1. stats' = stats /\ sequences' = sequences /\ workers' = workers
    BY DEF WriterSend, WriterEnd, routerVars, fanoutVars
<1>2. queue \in [Conns -> Seq(Ev)] /\ received \in [Conns -> Seq(Ev)]
    BY DEF DeliveryTypes
<1>3. \A d \in Conns : d # c => queue'[d] = queue[d] /\ received'[d] = received[d]
    BY <1>2 DEF WriterSend, WriterEnd
<1>4. \A x, y : Precedes(x, y)' <=> Precedes(x, y)
    BY <1>1 DEF Precedes
<1> DEFINE n == Len(received[c]) + 1
<1>5. /\ \A i \in DOMAIN queue'[c] :
            \E k \in DOMAIN queue[c] : 1 < k /\ k = i + 1 /\ i \in Nat /\ queue'[c][i] = queue[c][k]
      /\ DOMAIN received'[c] \subseteq DOMAIN received[c] \cup {n}
      /\ \A i \in DOMAIN received[c] : received'[c][i] = received[c][i] /\ i < n /\ i \in Nat
      /\ n \in Nat
      /\ n \in DOMAIN received'[c] => 1 \in DOMAIN queue[c] /\ received'[c][n] = queue[c][1]
    <2>1. CASE WriterSend(c)
        <3>1. /\ queue[c] \in Seq(Ev) /\ queue[c] # <<>> /\ received[c] \in Seq(Ev)
              /\ received'[c] = Append(received[c], Head(queue[c])) /\ queue'[c] = Tail(queue[c])
            BY <1>2, <2>1 DEF WriterSend
        <3>2. /\ Head(queue[c]) = queue[c][1] /\ 1 \in DOMAIN queue[c]
              /\ \A i \in DOMAIN queue'[c] : /\ i + 1 \in DOMAIN queue[c] /\ i \in Nat /\ 1 < i + 1
                                            /\ queue'[c][i] = queue[c][i + 1]
            BY <3>1, EvTail
        <3>3. QED
            BY <3>1, <3>2, EvTail, EvAppend
    <2>2. CASE WriterEnd(c)
        <3>1. queue'[c] = <<>> /\ received'[c] = received[c] /\ received[c] \in Seq(Ev)
            BY <1>2, <2>2 DEF WriterEnd
        <3>2. QED
            BY <3>1
    <2>3. QED
        BY <2>1, <2>2
<1> HIDE DEF n
<1>6. \A d \in Conns : Got(d)' \subseteq Got(d)
    BY <1>3, <1>5 DEF Got
<1>7. Numbered'
    <2>1. Known' \subseteq Known
        BY <1>6 DEF Known
    <2>2. QED
        BY <1>1, <2>1, NumberedShrinks
<1>8. ASSUME NEW d \in Conns PROVE InLine(d)'
    <2>1. InLine(d)
        OBVIOUS
    <2>2. \A x \in Got(d)', m \in Live' : d \in m.targets => Precedes(x, m.event)
        BY <1>6, <2>1 DEF InLine
    <2>3. CASE d # c
        BY <1>1, <1>3, <2>1, <2>2, <2>3 DEF InLine, Precedes
    <2>4. CASE d = c
        <3>1. \A i, j \in DOMAIN queue'[c] : i < j => Precedes(queue'[c][i], queue'[c][j])
            BY <1>5, <2>1, <2>4 DEF InLine
        <3>2. ASSUME NEW i \in DOMAIN received'[c], NEW j \in DOMAIN received'[c], i < j
              PROVE  Precedes(received'[c][i], received'[c][j])
            <4>1. i \in DOMAIN received[c]
                BY <1>5, <3>2
            <4>2. QED
                BY <1>5, <2>1, <2>4, <3>2, <4>1 DEF InLine
        <3>3. ASSUME NEW i \in DOMAIN received'[c], NEW j \in DOMAIN queue'[c]
              PROVE  Precedes(received'[c][i], queue'[c][j])
            <4>1. PICK k \in DOMAIN queue[c] : 1 < k /\ k = j + 1 /\ j \in Nat /\ queue'[c][j] = queue[c][k]
                BY <1>5
            <4>2. CASE i \in DOMAIN received[c]
                BY <1>5, <2>1, <2>4, <4>1, <4>2 DEF InLine
            <4>3. CASE i = n
                BY <1>5, <2>1, <2>4, <4>1, <4>3 DEF InLine
            <4>4. QED
                BY <1>5, <4>2, <4>3
        <3>4. QED
            BY <1>1, <2>2, <2>4, <3>1, <3>2, <3>3 DEF InLine, Precedes
    <2>5. QED
        BY <2>3, <2>4
<1>9. QED
    BY <1>7, <1>8

-----------------------------------------------------------------------------
\* The steps that leave the queues, the numbering and the counters alone.
Quiet ==
    \/ \E t \in Topics : Publish(t)
    \/ Dispatcher
    \/ \E w \in W : WorkerRecv(w)
    \/ \E c \in Conns : Register(c) \/ Remove(c)
    \/ UNCHANGED vars

Writer(c) == WriterSend(c) \/ WriterEnd(c)

\* A step leaves the messages alone.
LEMMA SameMessages ==
    ASSUME DeliveryTypes, LineUp, UNCHANGED <<dispatch, held, workerQ, job>>
    PROVE  LineUp' /\ Live' = Live
<1>1. Waiting' = Waiting /\ \A w : Backlog(w)' = Backlog(w)
    BY ViewsUnchanged
<1>2. LineUp'
    <2>1. Waiting' = Waiting /\ \A w : Backlog(w)' = Backlog(w)
        BY <1>1
    <2>2. /\ \A i, j \in DOMAIN Waiting' : i < j => Nr(Waiting'[i]) < Nr(Waiting'[j])
          /\ \A w \in W : \A i \in DOMAIN Backlog(w)', j \in DOMAIN Waiting' :
                Waiting'[j] # NoMsg => Nr(Backlog(w)'[i]) < Nr(Waiting'[j])
        BY <2>1 DEF LineUp
    <2>3. /\ \A w \in W : \A i, j \in DOMAIN Backlog(w)' : i < j => Nr(Backlog(w)'[i]) < Nr(Backlog(w)'[j])
          /\ \A v, w \in W : v # w => \A i \in DOMAIN Backlog(v)', j \in DOMAIN Backlog(w)' :
                Backlog(v)'[i] # NoMsg => Nr(Backlog(v)'[i]) # Nr(Backlog(w)'[j])
        BY <2>1 DEF LineUp
    <2>4. QED
        BY <2>2, <2>3 DEF LineUp, Nr, NoMsg
<1>3. Carried' = Carried
    BY <1>1 DEF Carried, W
<1>4. QED
    BY <1>2, <1>3 DEF Live, NoMsg

LEMMA QuietSteps ==
    ASSUME DeliveryTypes, DeliveryTypes', LineUp, Quiet
    PROVE  /\ LineUp' /\ Live' = Live
           /\ UNCHANGED <<queue, received, workers, sequences, stats, metrics>>
<1>1. ASSUME NEW t \in Topics, Publish(t)
      PROVE  /\ LineUp' /\ Live' = Live
             /\ UNCHANGED <<queue, received, workers, sequences, stats, metrics>>
    BY <1>1, SameMessages DEF Publish, routerVars, fanoutVars, connVars
<1>2. CASE DispatchRecv
    BY <1>2, LineUpRecv DEF DispatchRecv, routerVars, connVars
<1>3. CASE DispatchSend
    BY <1>3, LineUpSend DEF DispatchSend, routerVars, connVars
<1>4. ASSUME NEW w \in W, WorkerRecv(w)
      PROVE  /\ LineUp' /\ Live' = Live
             /\ UNCHANGED <<queue, received, workers, sequences, stats, metrics>>
    BY <1>4, LineUpWorkerRecv DEF WorkerRecv, routerVars, connVars
<1>5. ASSUME NEW c \in Conns, Register(c) \/ Remove(c)
      PROVE  /\ LineUp' /\ Live' = Live
             /\ UNCHANGED <<queue, received, workers, sequences, stats, metrics>>
    BY <1>5, SameMessages DEF Register, Remove, routerVars, fanoutVars
<1>6. CASE UNCHANGED vars
    BY <1>6, SameMessages DEF vars
<1>7. QED
    BY <1>1, <1>2, <1>3, <1>4, <1>5, <1>6 DEF Quiet, Dispatcher

LEMMA WriterSteps ==
    ASSUME DeliveryTypes, LineUp, NEW c \in Conns, Writer(c)
    PROVE  /\ LineUp' /\ Live' = Live
           /\ UNCHANGED <<workers, sequences, stats, metrics>>
    BY SameMessages DEF Writer, WriterSend, WriterEnd, routerVars, fanoutVars

\* Every step is one of four kinds.
LEMMA Steps ==
    ASSUME [Next]_vars
    PROVE  \/ Quiet
           \/ Router
           \/ \E w \in W, c \in Conns : HandleDispatch(w, c)
           \/ \E c \in Conns : Writer(c)
    BY DEF Next, Quiet, Worker, Session, Writer

LEMMA LineInvInit == Init => LineInv
<1> SUFFICES ASSUME Init PROVE LineInv
    OBVIOUS
<1>1. DeliveryTypes
    BY TypesInit
<1>2. /\ DOMAIN Waiting = 0 .. 0 /\ Waiting[0] = NoMsg
      /\ \A w \in W : DOMAIN Backlog(w) = 0 .. 0 /\ Backlog(w)[0] = NoMsg
    <2>1. held = NoMsg /\ dispatch = <<>> /\ \A w \in W : workerQ[w] = <<>> /\ job[w] = NoMsg
        BY DEF Init
    <2>2. QED
        BY <1>1, <2>1, ViewFacts
<1>3. \A i, j \in 0 .. 0 : i = 0 /\ j = 0 /\ ~(i < j)
    OBVIOUS
<1>4. LineUp
    BY <1>2, <1>3 DEF LineUp
<1>5. Live = {}
    BY <1>1, <1>2, <1>3, LiveFacts
<1>6. \A c \in Conns : received[c] = <<>> /\ queue[c] = <<>>
    BY DEF Init
<1>7. \A c \in Conns : Got(c) = {}
    BY <1>6 DEF Got
<1>8. \A c \in Conns : InLine(c)
    BY <1>5, <1>6, <1>7 DEF InLine
<1>9. Known = {}
    BY <1>5, <1>7 DEF Known
<1>10. QED
    BY <1>1, <1>4, <1>8, <1>9 DEF LineInv, Numbered

LEMMA LineInvStep == LineInv /\ [Next]_vars => LineInv'
<1> SUFFICES ASSUME LineInv, [Next]_vars PROVE LineInv'
    OBVIOUS
<1>1. DeliveryTypes /\ LineUp /\ Numbered /\ (\A c \in Conns : InLine(c)) /\ DeliveryTypes'
    BY TypesStep DEF LineInv
<1>2. CASE Quiet
    <2>1. /\ LineUp' /\ Live' = Live /\ stats' = stats
          /\ UNCHANGED <<queue, received, workers, sequences>>
        BY <1>1, <1>2, QuietSteps
    <2>2. QED
        BY <1>1, <2>1, OnlyMoves DEF LineInv
<1>3. CASE Router
    <2>1. PICK t \in Topics, targets \in SUBSET Conns : Routed(t, targets)
        BY <1>1, <1>3, RouterShape
    <2>2. LineUp'
        BY <1>1, <2>1, LineUpRouted
    <2>3. QED
        BY <1>1, <2>1, <2>2, RoutedInLine DEF LineInv
<1>4. ASSUME NEW w \in W, NEW c \in Conns, HandleDispatch(w, c) PROVE LineInv'
    <2>1. LineUp'
        BY <1>1, <1>4, LineUpHandle
    <2>2. QED
        BY <1>1, <1>4, <2>1, HandleInLine DEF LineInv
<1>5. ASSUME NEW c \in Conns, Writer(c) PROVE LineInv'
    <2>1. LineUp' /\ Live' = Live
        BY <1>1, <1>5, WriterSteps
    <2>2. QED
        BY <1>1, <1>5, <2>1, WriterInLine DEF LineInv, Writer
<1>6. QED
    BY <1>2, <1>3, <1>4, <1>5, Steps

-----------------------------------------------------------------------------
\* Event x for c is at position i of place p.
InReceived(x, c, p, i) ==
    p = <<"received", 0>> /\ i \in DOMAIN received[c] /\ x = received[c][i] /\ x \in Got(c)
InQueue(x, c, p, i) ==
    p = <<"queue", 0>> /\ i \in DOMAIN queue[c] /\ x = queue[c][i] /\ x \in Got(c)
InWaiting(x, c, p, i) ==
    /\ p = <<"dispatcher", 0>> /\ i \in DOMAIN Waiting /\ Waiting[i] \in Live
    /\ c \in Waiting[i].targets /\ x = Waiting[i].event
InBacklog(x, c, p, i) ==
    /\ p = <<"worker", p[2]>> /\ p[2] \in W /\ i \in DOMAIN Backlog(p[2])
    /\ Backlog(p[2])[i] \in Live /\ c \in Backlog(p[2])[i].targets
    /\ x = Backlog(p[2])[i].event

IsAt(x, c, p, i) ==
    InReceived(x, c, p, i) \/ InQueue(x, c, p, i) \/ InWaiting(x, c, p, i) \/ InBacklog(x, c, p, i)

LEMMA PlaceFacts ==
    ASSUME DeliveryTypes, NEW c \in Conns, NEW p \in Places, NEW i \in DOMAIN At(c, p)
    PROVE  At(c, p)[i] \in Known /\ IsAt(At(c, p)[i], c, p, i)
<1>1. /\ \A j \in DOMAIN received[c] : received[c][j] \in Got(c)
      /\ \A j \in DOMAIN queue[c] : queue[c][j] \in Got(c)
    BY DEF Got
<1>2. CASE p = <<"received", 0>>
    <2>1. At(c, p) = received[c]
        BY <1>2 DEF At
    <2>2. QED
        BY <1>1, <1>2, <2>1, KnownFacts DEF IsAt, InReceived
<1>3. CASE p = <<"queue", 0>>
    <2>1. At(c, p) = queue[c]
        BY <1>3 DEF At
    <2>2. QED
        BY <1>1, <1>3, <2>1, KnownFacts DEF IsAt, InQueue
<1>4. CASE p = <<"dispatcher", 0>>
    <2>1. At(c, p) = EventsFor(c, Waiting)
        BY <1>4 DEF At
    <2>2. i \in DOMAIN Waiting /\ c \in Waiting[i].targets /\ At(c, p)[i] = Waiting[i].event
        BY <2>1 DEF EventsFor
    <2>3. Waiting[i] \in Live
        BY <2>2, LiveFacts, MessageFacts
    <2>4. QED
        BY <1>4, <2>2, <2>3, KnownFacts DEF IsAt, InWaiting
<1>5. CASE p \in {"worker"} \X W
    <2>1. p = <<"worker", p[2]>> /\ p[2] \in W /\ p[1] = "worker"
        BY <1>5
    <2>2. At(c, p) = EventsFor(c, Backlog(p[2]))
        BY <2>1 DEF At
    <2>3. /\ i \in DOMAIN Backlog(p[2]) /\ c \in Backlog(p[2])[i].targets
          /\ At(c, p)[i] = Backlog(p[2])[i].event
        BY <2>2 DEF EventsFor
    <2>4. Backlog(p[2])[i] \in Live
        BY <2>1, <2>3, LiveFacts, MessageFacts
    <2>5. QED
        BY <2>1, <2>3, <2>4, KnownFacts DEF IsAt, InBacklog
<1>6. QED
    BY <1>2, <1>3, <1>4, <1>5 DEF Places

\* An event is not in two different kinds of places.
LEMMA PlacesApart ==
    ASSUME LineInv, NEW c \in Conns, NEW x \in Known, NEW p, NEW q, NEW i, NEW j
    PROVE  /\ ~(InReceived(x, c, p, i) /\ (InQueue(x, c, q, j) \/ InWaiting(x, c, q, j) \/ InBacklog(x, c, q, j)))
           /\ ~(InQueue(x, c, p, i) /\ (InWaiting(x, c, q, j) \/ InBacklog(x, c, q, j)))
           /\ ~(InWaiting(x, c, p, i) /\ InBacklog(x, c, q, j))
<1>1. DeliveryTypes /\ LineUp /\ InLine(c)
    BY DEF LineInv
<1>2. x.nr \in Nat /\ ~Precedes(x, x)
    BY <1>1, KnownFacts DEF Precedes
<1>3. ~(x \in Got(c) /\ (InWaiting(x, c, q, j) \/ InBacklog(x, c, q, j)))
    BY <1>1, <1>2 DEF InLine, InWaiting, InBacklog
<1>4. ~(InReceived(x, c, p, i) /\ InQueue(x, c, q, j))
    BY <1>1, <1>2 DEF InLine, InReceived, InQueue
<1>5. ASSUME InWaiting(x, c, p, i), InBacklog(x, c, q, j) PROVE FALSE
    <2>1. /\ i \in DOMAIN Waiting /\ Waiting[i] # NoMsg /\ x = Waiting[i].event
          /\ q[2] \in W /\ j \in DOMAIN Backlog(q[2]) /\ x = Backlog(q[2])[j].event
        BY <1>1, <1>5, LiveFacts DEF InWaiting, InBacklog
    <2>2. Nr(Backlog(q[2])[j]) < Nr(Waiting[i])
        BY <1>1, <2>1 DEF LineUp
    <2>3. x.nr < x.nr
        BY <2>1, <2>2 DEF Nr
    <2>4. QED
        BY <1>2, <2>3
<1>6. QED
    BY <1>3, <1>4, <1>5 DEF InReceived, InQueue

LEMMA LineInvNowhereTwice == LineInv => NowhereTwice
<1> SUFFICES ASSUME LineInv, NEW c \in Conns, NEW p \in Places, NEW q \in Places,
                    NEW i \in DOMAIN At(c, p), NEW j \in DOMAIN At(c, q),
                    At(c, p)[i] = At(c, q)[j]
             PROVE  p = q /\ i = j
    BY DEF NowhereTwice
<1>1. DeliveryTypes /\ LineUp /\ InLine(c)
    BY DEF LineInv
<1>2. PICK x \in Known : IsAt(x, c, p, i) /\ IsAt(x, c, q, j)
    <2>1. IsAt(At(c, p)[i], c, p, i) /\ At(c, p)[i] \in Known
        BY <1>1, PlaceFacts
    <2>2. IsAt(At(c, q)[j], c, q, j)
        BY <1>1, PlaceFacts
    <2>3. QED
        BY <2>1, <2>2
<1>3. x.nr \in Nat /\ ~Precedes(x, x)
    BY <1>1, KnownFacts DEF Precedes
<1>4. CASE InReceived(x, c, p, i) /\ InReceived(x, c, q, j)
    <2>1. ~(i < j) /\ ~(j < i)
        BY <1>1, <1>3, <1>4 DEF InLine, InReceived
    <2>2. received[c] \in Seq(Ev) /\ i \in DOMAIN received[c] /\ j \in DOMAIN received[c] /\ p = q
        BY <1>1, <1>4 DEF InReceived, DeliveryTypes
    <2>3. QED
        BY <2>1, <2>2
<1>5. CASE InQueue(x, c, p, i) /\ InQueue(x, c, q, j)
    <2>1. ~(i < j) /\ ~(j < i)
        BY <1>1, <1>3, <1>5 DEF InLine, InQueue
    <2>2. queue[c] \in Seq(Ev) /\ i \in DOMAIN queue[c] /\ j \in DOMAIN queue[c] /\ p = q
        BY <1>1, <1>5 DEF InQueue, DeliveryTypes
    <2>3. QED
        BY <2>1, <2>2
<1>6. CASE InWaiting(x, c, p, i) /\ InWaiting(x, c, q, j)
    <2>1. /\ i \in DOMAIN Waiting /\ j \in DOMAIN Waiting /\ p = q
          /\ Nr(Waiting[i]) = x.nr /\ Nr(Waiting[j]) = x.nr
        BY <1>6 DEF InWaiting, Nr
    <2>2. ~(i < j) /\ ~(j < i)
        BY <1>1, <1>3, <2>1 DEF LineUp
    <2>3. i \in Nat /\ j \in Nat
        BY <1>1, <2>1, NrFacts
    <2>4. QED
        BY <2>1, <2>2, <2>3
<1>7. CASE InBacklog(x, c, p, i) /\ InBacklog(x, c, q, j)
    <2>1. PICK v \in W : /\ p = <<"worker", v>> /\ i \in DOMAIN Backlog(v)
                         /\ Backlog(v)[i] # NoMsg /\ Nr(Backlog(v)[i]) = x.nr
        BY <1>1, <1>7, LiveFacts DEF InBacklog, Nr
    <2>2. PICK w \in W : /\ q = <<"worker", w>> /\ j \in DOMAIN Backlog(w)
                         /\ Nr(Backlog(w)[j]) = x.nr
        BY <1>7 DEF InBacklog, Nr
    <2>3. v = w
        BY <1>1, <2>1, <2>2 DEF LineUp
    <2>4. ~(i < j) /\ ~(j < i)
        BY <1>1, <1>3, <2>1, <2>2, <2>3 DEF LineUp
    <2>5. i \in Nat /\ j \in Nat
        BY <1>1, <2>1, <2>2, NrFacts
    <2>6. QED
        BY <2>1, <2>2, <2>3, <2>4, <2>5
<1>8. QED
    BY <1>2, <1>4, <1>5, <1>6, <1>7, PlacesApart DEF IsAt

-----------------------------------------------------------------------------
\* The matches in flight, by the messages that carry them.
LEMMA PendingFacts ==
    /\ \A x : x \in Pending <=> \E m \in Live : x \in m.targets \X {m.event}
    /\ \A x : x \in Pending' <=> \E m \in Live' : x \in m.targets \X {m.event}
<1>1. \A x : x \in Pending <=> \E m \in Carried : x \in m.targets \X {m.event}
    BY DEF Pending
<1>2. \A x : x \in Pending' <=> \E m \in Carried' : x \in m.targets \X {m.event}
    BY DEF Pending
<1>3. \A x : x \notin NoMsg.targets \X {NoMsg.event}
    BY MessageFacts
<1>4. Live = Carried \ {NoMsg} /\ Live' = Carried' \ {NoMsg}
    BY DEF Live, NoMsg
<1>5. QED
    BY <1>1, <1>2, <1>3, <1>4

AccountInv == IsFiniteSet(Pending) /\ NoneVanishes

LEMMA AccountInit == Init => AccountInv
<1> SUFFICES ASSUME Init PROVE AccountInv
    OBVIOUS
<1>1. DeliveryTypes /\ Live = {}
    <2>1. DeliveryTypes
        BY TypesInit
    <2>2. held = NoMsg /\ dispatch = <<>> /\ \A w \in W : workerQ[w] = <<>> /\ job[w] = NoMsg
        BY DEF Init
    <2>3. /\ \A i \in DOMAIN Waiting : Waiting[i] = NoMsg
          /\ \A w \in W : \A i \in DOMAIN Backlog(w) : Backlog(w)[i] = NoMsg
        BY <2>1, <2>2, ViewFacts
    <2>4. QED
        BY <2>1, <2>3, LiveFacts
<1>2. Pending = {}
    BY <1>1, PendingFacts
<1>3. /\ stats.matches = 0 /\ stats.lostMatches = 0 /\ metrics.dispatched = 0
      /\ metrics.overflow = 0 /\ metrics.disconnected = 0 /\ metrics.gone = 0
    BY DEF Init
<1>4. QED
    BY <1>2, <1>3, FS_EmptySet DEF AccountInv, NoneVanishes, InFlight

\* The outcome counters add up to one more.
LEMMA OneMore ==
    ASSUME DeliveryTypes, NEW v \in W, NEW c \in Conns, HandleDispatch(v, c)
    PROVE  metrics'.dispatched + metrics'.overflow + metrics'.disconnected + metrics'.gone
              = metrics.dispatched + metrics.overflow + metrics.disconnected + metrics.gone + 1
<1>1. SendResult(c) \in {"dispatched", "overflow", "disconnected", "gone"}
    BY DEF SendResult
<1>2. metrics' = [metrics EXCEPT ![SendResult(c)] = @ + 1]
    BY DEF HandleDispatch, Deliver, Count
<1>3. metrics \in [dispatched : Nat, overflow : Nat, disconnected : Nat, gone : Nat]
    BY DEF DeliveryTypes
<1>4. CASE SendResult(c) = "dispatched"
    BY <1>2, <1>3, <1>4
<1>5. CASE SendResult(c) = "overflow"
    BY <1>2, <1>3, <1>5
<1>6. CASE SendResult(c) = "disconnected"
    BY <1>2, <1>3, <1>6
<1>7. CASE SendResult(c) = "gone"
    BY <1>2, <1>3, <1>7
<1>8. QED
    BY <1>1, <1>4, <1>5, <1>6, <1>7

LEMMA AccountStep == LineInv /\ AccountInv /\ [Next]_vars => AccountInv'
<1> SUFFICES ASSUME LineInv, AccountInv, [Next]_vars PROVE AccountInv'
    OBVIOUS
<1>1. DeliveryTypes /\ LineUp /\ Numbered /\ (\A c \in Conns : InLine(c)) /\ DeliveryTypes'
    BY TypesStep DEF LineInv
<1>2. /\ IsFiniteSet(Pending) /\ Cardinality(Pending) \in Nat
      /\ stats.matches = Cardinality(Pending) + stats.lostMatches + metrics.dispatched
            + metrics.overflow + metrics.disconnected + metrics.gone
    BY FS_CardinalityType DEF AccountInv, NoneVanishes, InFlight
<1>3. /\ stats.matches \in Nat /\ stats.lostMatches \in Nat
      /\ metrics.dispatched \in Nat /\ metrics.overflow \in Nat
      /\ metrics.disconnected \in Nat /\ metrics.gone \in Nat
      /\ metrics'.dispatched \in Nat /\ metrics'.overflow \in Nat
      /\ metrics'.disconnected \in Nat /\ metrics'.gone \in Nat
    BY <1>1 DEF DeliveryTypes
<1>4. ASSUME Live' = Live, stats' = stats, metrics' = metrics PROVE AccountInv'
    <2>1. Pending' = Pending
        BY <1>4, PendingFacts
    <2>2. QED
        BY <1>2, <1>4, <2>1 DEF AccountInv, NoneVanishes, InFlight
<1>5. CASE Quiet
    BY <1>1, <1>4, <1>5, QuietSteps
<1>6. ASSUME NEW c \in Conns, Writer(c) PROVE AccountInv'
    BY <1>1, <1>4, <1>6, WriterSteps
<1>7. CASE Router
    <2>1. PICK t \in Topics, targets \in SUBSET Conns : Routed(t, targets)
        BY <1>1, <1>7, RouterShape
    <2>2. /\ stats'.matches = stats.matches + Cardinality(targets) /\ Cardinality(targets) \in Nat
          /\ metrics' = metrics
        BY <2>1 DEF Routed
    <2>3. CASE /\ \A m : m \in Live' <=> m \in Live
               /\ stats'.lostMatches = stats.lostMatches + Cardinality(targets)
        <3>1. Pending' = Pending
            BY <2>3, PendingFacts
        <3>2. QED
            BY <1>2, <1>3, <2>2, <2>3, <3>1 DEF AccountInv, NoneVanishes, InFlight
    <2>4. CASE /\ \A m : m \in Live' <=> m \in Live \/ m = NewBatch(t, targets)
               /\ NewBatch(t, targets) \in Msg /\ stats'.lostMatches = stats.lostMatches
        <3>1. PICK e \in Ev : e = NewEvent(t) /\ e.nr = stats.routed + 1
            BY <2>1 DEF Routed, NewEvent
        <3>2. NewBatch(t, targets).event = e /\ NewBatch(t, targets).targets = targets
            BY <3>1 DEF NewBatch
        <3> DEFINE new == targets \X {e}
        <3>3. Pending' = Pending \cup new
            BY <2>4, <3>2, PendingFacts
        <3>4. \A m \in Live : m.event # e
            <4>1. stats.routed \in Nat
                BY <1>1 DEF DeliveryTypes
            <4>2. \A m \in Live : m.event.nr <= stats.routed
                BY <1>1, KnownFacts DEF Numbered
            <4>3. QED
                BY <3>1, <4>1, <4>2
        <3>5. Pending \cap new = {}
            BY <3>4, PendingFacts
        <3>6. IsFiniteSet(new) /\ Cardinality(new) = Cardinality(targets) * 1
            <4>1. IsFiniteSet(targets)
                BY DeliveryAssumption, FS_Subset
            <4>2. IsFiniteSet({e}) /\ Cardinality({e}) = 1
                BY FS_Singleton
            <4>3. QED
                BY <4>1, <4>2, FS_Product
        <3> HIDE DEF new
        <3>7. /\ IsFiniteSet(Pending')
              /\ Cardinality(Pending') = Cardinality(Pending) + Cardinality(new) - Cardinality({})
            <4>1. /\ IsFiniteSet(Pending \cup new)
                  /\ Cardinality(Pending \cup new)
                        = Cardinality(Pending) + Cardinality(new) - Cardinality(Pending \cap new)
                BY <1>2, <3>6, FS_Union
            <4>2. QED
                BY <3>3, <3>5, <4>1
        <3>8. Cardinality(Pending') = Cardinality(Pending) + Cardinality(targets)
            BY <1>2, <2>2, <3>6, <3>7, FS_EmptySet
        <3>9. QED
            BY <1>2, <1>3, <2>2, <2>4, <3>7, <3>8 DEF AccountInv, NoneVanishes, InFlight
    <2>5. QED
        BY <1>1, <2>1, <2>3, <2>4, LineUpRouted
<1>8. ASSUME NEW v \in W, NEW c \in Conns, HandleDispatch(v, c) PROVE AccountInv'
    <2>1. PICK m0 \in Live : m0 = job[v] /\ c \in m0.targets
        BY <1>1, <1>8, LineUpHandle, HandleShape
    <2>2. PICK e : e = m0.event
        OBVIOUS
    <2>3. \A m \in Live : m # m0 => m.event # e
        BY <1>1, <1>8, <2>1, <2>2, LineUpHandle DEF Nr
    <2>4. PICK rest : rest = Backlog(v)'[0]
        OBVIOUS
    <2>5. \/ rest = NoMsg /\ m0.targets = {c}
          \/ rest # NoMsg /\ rest.event = e /\ rest.targets = m0.targets \ {c}
        BY <1>1, <1>8, <2>1, <2>2, <2>4, HandleShape, MessageFacts
    <2>6. \A m : m \in Live' <=> (m \in Live /\ m # m0) \/ (m = rest /\ m # NoMsg)
        BY <1>1, <1>8, <2>1, <2>4, LineUpHandle
    <2>7. \A x : x \in Pending' <=> x \in Pending /\ x # <<c, e>>
        <3>1. \A m \in Live : m # m0 => <<c, e>> \notin m.targets \X {m.event}
            BY <2>3
        <3>2. \A x : x \in m0.targets \X {m0.event} /\ x # <<c, e>>
                       <=> rest # NoMsg /\ x \in rest.targets \X {rest.event}
            BY <2>2, <2>5
        <3>3. QED
            BY <2>1, <2>6, <3>1, <3>2, PendingFacts
    <2>8. <<c, e>> \in Pending
        BY <2>1, <2>2, PendingFacts
    <2>9. Pending' = Pending \ {<<c, e>>}
        BY <2>7
    <2>10. IsFiniteSet(Pending') /\ Cardinality(Pending') = Cardinality(Pending) - 1
        BY <1>2, <2>8, <2>9, FS_RemoveElement
    <2>11. stats' = stats
        BY <1>8 DEF HandleDispatch, Deliver, routerVars
    <2>12. metrics'.dispatched + metrics'.overflow + metrics'.disconnected + metrics'.gone
              = metrics.dispatched + metrics.overflow + metrics.disconnected + metrics.gone + 1
        BY <1>1, <1>8, OneMore
    <2>13. stats'.matches = Cardinality(Pending') + stats'.lostMatches + metrics'.dispatched
              + metrics'.overflow + metrics'.disconnected + metrics'.gone
        <3>1. PICK n \in Nat, l \in Nat, a \in Nat, b \in Nat, d \in Nat, g \in Nat :
                 /\ n = Cardinality(Pending) /\ l = stats.lostMatches /\ a = metrics.dispatched
                 /\ b = metrics.overflow /\ d = metrics.disconnected /\ g = metrics.gone
            BY <1>2, <1>3
        <3>2. PICK a1 \in Nat, b1 \in Nat, d1 \in Nat, g1 \in Nat :
                 /\ a1 = metrics'.dispatched /\ b1 = metrics'.overflow
                 /\ d1 = metrics'.disconnected /\ g1 = metrics'.gone
            BY <1>3
        <3>3. a1 + b1 + d1 + g1 = a + b + d + g + 1
            BY <2>12, <3>1, <3>2
        <3>4. n + l + a + b + d + g = (n - 1) + l + a1 + b1 + d1 + g1
            BY <3>3
        <3>5. QED
            BY <1>2, <2>10, <2>11, <3>1, <3>2, <3>4
    <2>14. QED
        BY <2>10, <2>13 DEF AccountInv, NoneVanishes, InFlight
<1>9. QED
    BY <1>5, <1>6, <1>7, <1>8, Steps

-----------------------------------------------------------------------------
\* However batches travel over dispatcher and workers (run_worker,
\* handle_dispatch), each match that DispatchStats counted is in flight, was
\* lost with a refused batch or is in exactly one outcome counter, and no
\* client gets an event twice; for any pool size, capacities and policies.
THEOREM EveryMatchIsOnce == Spec => []EveryMatchOnce
<1>1. LineInv /\ AccountInv => EveryMatchOnce
    BY LineInvNowhereTwice DEF EveryMatchOnce, AccountInv
<1>2. QED
    BY <1>1, LineInvInit, LineInvStep, AccountInit, AccountStep, PTL DEF Spec

-----------------------------------------------------------------------------
\* The refinement of LossyFifo.

\* A set of matches, by the messages that carry them, seen from one connection.
Carries(L, P) == \A z : z \in P <=> \E m \in L : z \in m.targets \X {m.event}

LEMMA MatchesOf ==
    ASSUME NEW P, NEW L, Carries(L, P), NEW c, NEW x
    PROVE  (\E y \in P : y[1] = c /\ x = y[2]) <=> \E m \in L : c \in m.targets /\ x = m.event
<1>1. ASSUME NEW m \in L, c \in m.targets, x = m.event
      PROVE  \E y \in P : y[1] = c /\ x = y[2]
    <2>1. <<c, x>> \in P /\ <<c, x>>[1] = c /\ <<c, x>>[2] = x
        BY <1>1 DEF Carries
    <2>2. QED
        BY <2>1
<1>2. ASSUME NEW y \in P, y[1] = c, x = y[2]
      PROVE  \E m \in L : c \in m.targets /\ x = m.event
    <2>1. PICK m \in L : y \in m.targets \X {m.event}
        BY <1>2 DEF Carries
    <2>2. QED
        BY <1>2, <2>1
<1>3. QED
    BY <1>1, <1>2

\* What is underway to c, by the messages that carry it.
LEMMA PathFacts ==
    /\ \A c, x : x \in Path(c) <=> \/ \E i \in DOMAIN queue[c] : x = queue[c][i]
                                   \/ \E m \in Live : c \in m.targets /\ x = m.event
    /\ \A c, x : x \in Path(c)' <=> \/ \E i \in DOMAIN queue'[c] : x = queue'[c][i]
                                    \/ \E m \in Live' : c \in m.targets /\ x = m.event
<1>1. \A c, x : x \in Path(c) <=> \/ \E i \in DOMAIN queue[c] : x = queue[c][i]
                                  \/ \E y \in Pending : y[1] = c /\ x = y[2]
    BY DEF Path
<1>2. \A c, x : x \in Path(c)' <=> \/ \E i \in DOMAIN queue'[c] : x = queue'[c][i]
                                   \/ \E y \in Pending' : y[1] = c /\ x = y[2]
    BY DEF Path
<1>4. /\ \A c, x : (\E y \in Pending : y[1] = c /\ x = y[2]) <=> \E m \in Live : c \in m.targets /\ x = m.event
      /\ \A c, x : (\E y \in Pending' : y[1] = c /\ x = y[2]) <=> \E m \in Live' : c \in m.targets /\ x = m.event
    <2>1. ASSUME NEW c, NEW x
          PROVE  (\E y \in Pending : y[1] = c /\ x = y[2]) <=> \E m \in Live : c \in m.targets /\ x = m.event
        <3>1. PICK P, L : P = Pending /\ L = Live
            OBVIOUS
        <3>2. Carries(L, P)
            BY <3>1, PendingFacts DEF Carries
        <3>3. (\E y \in P : y[1] = c /\ x = y[2]) <=> \E m \in L : c \in m.targets /\ x = m.event
            BY <3>2, MatchesOf
        <3>4. QED
            BY <3>1, <3>3
    <2>2. ASSUME NEW c, NEW x
          PROVE  (\E y \in Pending' : y[1] = c /\ x = y[2]) <=> \E m \in Live' : c \in m.targets /\ x = m.event
        <3>1. PICK P, L : P = Pending' /\ L = Live'
            OBVIOUS
        <3>2. Carries(L, P)
            BY <3>1, PendingFacts DEF Carries
        <3>3. (\E y \in P : y[1] = c /\ x = y[2]) <=> \E m \in L : c \in m.targets /\ x = m.event
            BY <3>2, MatchesOf
        <3>4. QED
            BY <3>1, <3>3
    <2>3. QED
        BY <2>1, <2>2
<1>5. QED
    BY <1>1, <1>2, <1>4

\* The lossy FIFO's variables.
Pipe == [c \in Conns |-> IF workers = 1 THEN Path(c) ELSE {}]
Out == [c \in Conns |-> IF workers = 1 THEN received[c] ELSE <<>>]

LEMMA FifoQuiet ==
    ASSUME DeliveryTypes, DeliveryTypes', LineUp, Quiet
    PROVE  UNCHANGED <<stats.routed, sequences, Pipe, Out>>
<1>1. Live' = Live /\ UNCHANGED <<queue, received, workers, sequences, stats>>
    BY QuietSteps
<1>2. \A c : Path(c)' = Path(c)
    <2>1. Pending' = Pending
        BY <1>1, PendingFacts
    <2>2. QED
        BY <1>1, <2>1 DEF Path
<1>3. Pipe' = Pipe /\ Out' = Out
    BY <1>1, <1>2 DEF Pipe, Out
<1>4. QED
    BY <1>1, <1>3

LEMMA FifoRouted ==
    ASSUME DeliveryTypes, LineUp, Numbered,
           NEW t \in Topics, NEW targets \in SUBSET Conns, Routed(t, targets)
    PROVE  \E to \in SUBSET Conns :
              /\ stats'.routed = stats.routed + 1
              /\ sequences' = [sequences EXCEPT ![t] = @ + 1]
              /\ Pipe' = [c \in Conns |-> IF c \in to THEN Pipe[c] \cup {NewEvent(t)} ELSE Pipe[c]]
              /\ Out' = Out
<1>1. /\ stats'.routed = stats.routed + 1 /\ sequences' = [sequences EXCEPT ![t] = @ + 1]
      /\ queue' = queue /\ received' = received /\ workers' = workers
    BY DEF Routed
<1>2. PICK e : e = NewEvent(t)
    OBVIOUS
<1>3. PICK to \in SUBSET Conns : \A m : m \in Live' <=> m \in Live
                                       \/ (to # {} /\ m = [event |-> e, targets |-> to])
    <2>1. CASE \A m : m \in Live' <=> m \in Live
        <3>1. {} \in SUBSET Conns
            OBVIOUS
        <3>2. \A m : m \in Live' <=> m \in Live \/ ({} # {} /\ m = [event |-> e, targets |-> {}])
            BY <2>1
        <3>3. WITNESS {} \in SUBSET Conns
        <3>4. QED
            BY <3>2
    <2>2. CASE /\ \A m : m \in Live' <=> m \in Live \/ m = NewBatch(t, targets)
               /\ NewBatch(t, targets) \in Msg
        <3>1. NewBatch(t, targets) = [event |-> e, targets |-> targets] /\ NewBatch(t, targets).targets = targets
            BY <1>2 DEF NewBatch
        <3>2. targets # {}
            BY <2>2, <3>1, MessageFacts
        <3>3. \A m : m \in Live' <=> m \in Live \/ (targets # {} /\ m = [event |-> e, targets |-> targets])
            BY <2>2, <3>1, <3>2
        <3>4. WITNESS targets \in SUBSET Conns
        <3>5. QED
            BY <3>3
    <2>3. QED
        BY <2>1, <2>2, LineUpRouted
<1>4. \A c, x : x \in Path(c)' <=> x \in Path(c) \/ (c \in to /\ x = e)
    <2>1. PICK b : b = [event |-> e, targets |-> to]
        OBVIOUS
    <2>2. b.event = e /\ b.targets = to
        BY <2>1
    <2>3. \A m : m \in Live' <=> m \in Live \/ (to # {} /\ m = b)
        BY <1>3, <2>1
    <2>4. \A c, x : (\E m \in Live' : c \in m.targets /\ x = m.event)
                      <=> (\E m \in Live : c \in m.targets /\ x = m.event) \/ (c \in to /\ x = e)
        BY <2>2, <2>3
    <2>5. ASSUME NEW c, NEW x PROVE x \in Path(c)' <=> x \in Path(c) \/ (c \in to /\ x = e)
        <3>1. x \in Path(c) <=> \/ \E i \in DOMAIN queue[c] : x = queue[c][i]
                               \/ \E m \in Live : c \in m.targets /\ x = m.event
            BY PathFacts
        <3>2. x \in Path(c)' <=> \/ \E i \in DOMAIN queue'[c] : x = queue'[c][i]
                                \/ \E m \in Live' : c \in m.targets /\ x = m.event
            BY PathFacts
        <3>3. QED
            BY <1>1, <2>4, <3>1, <3>2
    <2>6. QED
        BY <2>5
<1>5. \A c : Path(c)' = IF c \in to THEN Path(c) \cup {e} ELSE Path(c)
    BY <1>4
<1>6. Out' = Out
    BY <1>1 DEF Out
<1>7. CASE workers = 1
    <2>1. Pipe' = [c \in Conns |-> IF c \in to THEN Pipe[c] \cup {e} ELSE Pipe[c]]
        BY <1>1, <1>5, <1>7 DEF Pipe
    <2>2. QED
        BY <1>1, <1>2, <1>6, <2>1
<1>8. CASE workers # 1
    <2>1. Pipe' = [c \in Conns |-> IF c \in {} THEN Pipe[c] \cup {e} ELSE Pipe[c]]
        BY <1>1, <1>8 DEF Pipe
    <2>2. {} \in SUBSET Conns
        OBVIOUS
    <2>3. QED
        BY <1>1, <1>2, <1>6, <2>1, <2>2
<1>9. QED
    BY <1>7, <1>8

LEMMA FifoHandle ==
    ASSUME DeliveryTypes, LineUp, NEW v \in W, NEW c \in Conns, HandleDispatch(v, c)
    PROVE  /\ \E kept \in SUBSET Pipe[c] : Pipe' = [Pipe EXCEPT ![c] = kept]
           /\ UNCHANGED <<stats.routed, sequences, Out>>
<1>1. PICK m0 \in Live : m0 = job[v] /\ c \in m0.targets
    BY LineUpHandle, HandleShape
<1>2. PICK rest : rest = Backlog(v)'[0]
    OBVIOUS
<1>3. \/ rest = NoMsg /\ m0.targets = {c}
      \/ rest # NoMsg /\ rest.event = m0.event /\ rest.targets = m0.targets \ {c}
    BY <1>1, <1>2, HandleShape, MessageFacts
<1>4. \A m : m \in Live' <=> (m \in Live /\ m # m0) \/ (m = rest /\ m # NoMsg)
    BY <1>1, <1>2, LineUpHandle
<1>5. /\ stats' = stats /\ sequences' = sequences /\ workers' = workers /\ received' = received
      /\ queue' = queue \/ queue' = [queue EXCEPT ![c] = Append(@, m0.event)]
    BY <1>1 DEF HandleDispatch, Deliver, routerVars
<1>6. queue \in [Conns -> Seq(Ev)] /\ m0.event \in Ev
    BY KnownFacts DEF DeliveryTypes
<1>7. /\ \A d \in Conns : d # c => queue'[d] = queue[d]
      /\ \A i \in DOMAIN queue'[c] : queue'[c][i] = m0.event
                                     \/ (i \in DOMAIN queue[c] /\ queue'[c][i] = queue[c][i])
    <2>1. CASE queue' = queue
        BY <2>1
    <2>2. CASE queue' = [queue EXCEPT ![c] = Append(@, m0.event)]
        <3>1. queue'[c] = Append(queue[c], m0.event) /\ queue[c] \in Seq(Ev)
            BY <1>6, <2>2
        <3>2. \A i \in DOMAIN queue'[c] : queue'[c][i] = m0.event
                                         \/ (i \in DOMAIN queue[c] /\ queue'[c][i] = queue[c][i])
            <4>1. /\ DOMAIN queue'[c] = 1 .. Len(queue[c]) + 1 /\ Len(queue[c]) \in Nat
                  /\ DOMAIN queue[c] = 1 .. Len(queue[c]) /\ queue'[c][Len(queue[c]) + 1] = m0.event
                  /\ \A i \in 1 .. Len(queue[c]) : queue'[c][i] = queue[c][i]
                BY <1>6, <3>1, EvAppend
            <4>2. \A i \in DOMAIN queue'[c] : i = Len(queue[c]) + 1 \/ i \in 1 .. Len(queue[c])
                BY <4>1
            <4>3. QED
                BY <4>1, <4>2
        <3>3. QED
            BY <1>6, <2>2, <3>2
    <2>3. QED
        BY <1>5, <2>1, <2>2
<1>8. \A d \in Conns : \A x : d # c => (x \in Path(d)' <=> x \in Path(d))
    BY <1>1, <1>3, <1>4, <1>7, PathFacts
<1>9. \A x : x \in Path(c)' => x \in Path(c)
    BY <1>1, <1>3, <1>4, <1>7, PathFacts
<1>10. (\A d \in Conns : d # c => Path(d)' = Path(d)) /\ Path(c)' \subseteq Path(c)
    BY <1>8, <1>9
<1>11. Pipe' = [Pipe EXCEPT ![c] = Pipe'[c]] /\ Pipe'[c] \subseteq Pipe[c] /\ Out' = Out
    BY <1>5, <1>10 DEF Pipe, Out
<1>12. QED
    BY <1>5, <1>11

LEMMA FifoEnd ==
    ASSUME DeliveryTypes, LineUp, NEW c \in Conns, WriterEnd(c)
    PROVE  /\ \E kept \in SUBSET Pipe[c] : Pipe' = [Pipe EXCEPT ![c] = kept]
           /\ UNCHANGED <<stats.routed, sequences, Out>>
<1>1. Live' = Live /\ UNCHANGED <<workers, sequences, stats>>
    BY WriterSteps DEF Writer
<1>2. queue' = [queue EXCEPT ![c] = <<>>] /\ received' = received /\ queue \in [Conns -> Seq(Ev)]
    BY DEF WriterEnd, DeliveryTypes
<1>3. queue'[c] = <<>> /\ \A d \in Conns : d # c => queue'[d] = queue[d]
    BY <1>2
<1>4. DOMAIN queue'[c] = {}
    BY <1>3
<1>5. (\A d \in Conns : \A x : d # c => (x \in Path(d)' <=> x \in Path(d))) /\ \A x : x \in Path(c)' => x \in Path(c)
    BY <1>1, <1>3, <1>4, PathFacts
<1>6. (\A d \in Conns : d # c => Path(d)' = Path(d)) /\ Path(c)' \subseteq Path(c)
    BY <1>5
<1>7. Pipe' = [Pipe EXCEPT ![c] = Pipe'[c]] /\ Pipe'[c] \subseteq Pipe[c] /\ Out' = Out
    BY <1>1, <1>2, <1>6 DEF Pipe, Out
<1>8. QED
    BY <1>1, <1>7

\* The head of a queue is the oldest event on the way to its connection.
LEMMA FifoSend ==
    ASSUME DeliveryTypes, LineUp, NEW c \in Conns, InLine(c), WriterSend(c), workers = 1
    PROVE  /\ UNCHANGED <<stats.routed, sequences>>
           /\ \E e \in Pipe[c] :
                 /\ \A other \in Pipe[c] : e.nr <= other.nr
                 /\ Out' = [Out EXCEPT ![c] = Append(@, e)]
                 /\ Pipe' = [Pipe EXCEPT ![c] = @ \ {e}]
<1>1. Live' = Live /\ UNCHANGED <<workers, sequences, stats>>
    BY WriterSteps DEF Writer
<1>2. /\ queue \in [Conns -> Seq(Ev)] /\ received \in [Conns -> Seq(Ev)] /\ queue[c] # <<>>
      /\ queue' = [queue EXCEPT ![c] = Tail(@)]
      /\ received' = [received EXCEPT ![c] = Append(@, Head(queue[c]))]
    BY DEF WriterSend, DeliveryTypes
<1>3. PICK e \in Ev : e = Head(queue[c])
    BY <1>2, EvTail
<1>4. PICK n \in Nat : n = Len(queue[c])
    BY <1>2
<1>5. /\ e = queue[c][1] /\ n >= 1 /\ DOMAIN queue[c] = 1 .. n /\ DOMAIN queue'[c] = 1 .. n - 1
      /\ \A i \in 1 .. n - 1 : queue'[c][i] = queue[c][i + 1]
    <2>1. queue[c] \in Seq(Ev) /\ queue'[c] = Tail(queue[c])
        BY <1>2
    <2>2. QED
        BY <1>2, <1>3, <1>4, <2>1, EvTail
<1>6. e.nr \in Nat
    BY KnownFacts
<1>7. \A i \in 1 .. n : i # 1 => e.nr < queue[c][i].nr
    <2>1. \A i, j \in DOMAIN queue[c] : i < j => Precedes(queue[c][i], queue[c][j])
        BY DEF InLine
    <2>2. 1 \in DOMAIN queue[c] /\ \A i \in 1 .. n : i \in DOMAIN queue[c] /\ (i # 1 => 1 < i)
        BY <1>5
    <2>3. \A i \in 1 .. n : i # 1 => Precedes(e, queue[c][i])
        BY <1>5, <2>1, <2>2
    <2>4. QED
        BY <2>3, workers = 1 DEF Precedes
<1>8. \A m \in Live : c \in m.targets => e.nr < m.event.nr
    <2>1. e \in Got(c)
        BY <1>5 DEF Got
    <2>2. QED
        BY <2>1, workers = 1 DEF InLine, Precedes
<1>9. \A x \in Path(c) : x = e \/ e.nr < x.nr
    BY <1>5, <1>7, <1>8, PathFacts
<1>10. \A x \in Path(c) : x.nr \in Nat
    <2>1. queue[c] \in Seq(Ev)
        BY <1>2
    <2>2. \A i \in DOMAIN queue[c] : queue[c][i] \in Ev
        BY <2>1
    <2>3. QED
        BY <2>2, KnownFacts, PathFacts
<1>11. e \in Path(c)
    BY <1>5, PathFacts
<1>12. ASSUME NEW x PROVE x \in Path(c)' <=> x \in Path(c) /\ x # e
    <2>1. (\E i \in DOMAIN queue'[c] : x = queue'[c][i]) <=> (\E i \in DOMAIN queue[c] : x = queue[c][i]) /\ x # e
        <3>1. ASSUME NEW i \in DOMAIN queue'[c], x = queue'[c][i]
              PROVE  (\E k \in DOMAIN queue[c] : x = queue[c][k]) /\ x # e
            <4>1. i + 1 \in 1 .. n /\ i + 1 # 1 /\ x = queue[c][i + 1]
                BY <1>5, <3>1
            <4>2. QED
                BY <1>5, <1>6, <1>7, <4>1
        <3>2. ASSUME NEW i \in DOMAIN queue[c], x = queue[c][i], x # e
              PROVE  \E k \in DOMAIN queue'[c] : x = queue'[c][k]
            <4>1. i - 1 \in 1 .. n - 1 /\ (i - 1) + 1 = i
                BY <1>5, <3>2
            <4>2. queue'[c][i - 1] = x
                BY <1>5, <3>2, <4>1
            <4>3. QED
                BY <1>5, <4>1, <4>2
        <3>3. QED
            BY <3>1, <3>2
    <2>2. \A m \in Live : c \in m.targets => m.event # e
        BY <1>6, <1>8
    <2>3. QED
        BY <1>1, <2>1, <2>2, PathFacts
<1>13. Path(c)' = Path(c) \ {e}
    BY <1>12
<1>14. \A d \in Conns : d # c => Path(d)' = Path(d)
    <2>1. \A d \in Conns : d # c => queue'[d] = queue[d]
        BY <1>2
    <2>2. \A d \in Conns : \A x : d # c => (x \in Path(d)' <=> x \in Path(d))
        BY <1>1, <2>1, PathFacts
    <2>3. QED
        BY <2>2
<1>15. Pipe' = [Pipe EXCEPT ![c] = @ \ {e}] /\ Pipe[c] = Path(c)
    BY <1>1, <1>13, <1>14, workers = 1 DEF Pipe
<1>16. Out' = [Out EXCEPT ![c] = Append(@, e)]
    BY <1>1, <1>2, <1>3, workers = 1 DEF Out
<1>17. \A x \in Path(c) : e.nr <= x.nr
    BY <1>6, <1>9, <1>10
<1>18. QED
    BY <1>1, <1>11, <1>15, <1>16, <1>17

\* With more workers the writer's step is none of the lossy FIFO's.
LEMMA FifoNone ==
    ASSUME DeliveryTypes, LineUp, NEW c \in Conns, WriterSend(c), workers # 1
    PROVE  UNCHANGED <<stats.routed, sequences, Pipe, Out>>
<1>1. UNCHANGED <<workers, sequences, stats>>
    BY WriterSteps DEF Writer
<1>2. Pipe' = Pipe /\ Out' = Out
    BY <1>1, workers # 1 DEF Pipe, Out
<1>3. QED
    BY <1>1, <1>2

LEMMA FifoInit == Init => Fifo!Init
<1> SUFFICES ASSUME Init PROVE Fifo!Init
    OBVIOUS
<1>1. Live = {} /\ stats.routed = 0 /\ sequences = [t \in Topics |-> 0]
    <2>1. LineInv /\ DeliveryTypes
        BY LineInvInit, TypesInit
    <2>2. held = NoMsg /\ dispatch = <<>> /\ \A w \in W : workerQ[w] = <<>> /\ job[w] = NoMsg
        BY DEF Init
    <2>3. /\ \A i \in DOMAIN Waiting : Waiting[i] = NoMsg
          /\ \A w \in W : \A i \in DOMAIN Backlog(w) : Backlog(w)[i] = NoMsg
        BY <2>1, <2>2, ViewFacts
    <2>4. Live = {}
        BY <2>1, <2>3, LiveFacts
    <2>5. QED
        BY <2>4 DEF Init
<1>2. \A c \in Conns : queue[c] = <<>> /\ received[c] = <<>>
    BY DEF Init
<1>3. \A c \in Conns : Path(c) = {}
    <2>1. \A c \in Conns : \A x : x \notin Path(c)
        BY <1>1, <1>2, PathFacts
    <2>2. QED
        BY <2>1
<1>4. Pipe = [c \in Conns |-> {}] /\ Out = [c \in Conns |-> <<>>]
    BY <1>2, <1>3 DEF Pipe, Out
<1>5. QED
    BY <1>1, <1>4 DEF Fifo!Init, Pipe, Out

LEMMA FifoStep == LineInv /\ [Next]_vars => [Fifo!Next]_(Fifo!fifoVars)
<1> SUFFICES ASSUME LineInv, [Next]_vars PROVE [Fifo!Next]_(Fifo!fifoVars)
    OBVIOUS
<1>1. DeliveryTypes /\ LineUp /\ Numbered /\ (\A c \in Conns : InLine(c)) /\ DeliveryTypes'
    BY TypesStep DEF LineInv
<1>2. ASSUME UNCHANGED <<stats.routed, sequences, Pipe, Out>> PROVE [Fifo!Next]_(Fifo!fifoVars)
    BY <1>2 DEF Fifo!fifoVars, Pipe, Out
<1>3. ASSUME NEW c \in Conns, \E kept \in SUBSET Pipe[c] : Pipe' = [Pipe EXCEPT ![c] = kept],
             UNCHANGED <<stats.routed, sequences, Out>>
      PROVE  [Fifo!Next]_(Fifo!fifoVars)
    <2>1. Fifo!Lose(c)
        BY <1>3 DEF Fifo!Lose, Pipe, Out
    <2>2. QED
        BY <2>1 DEF Fifo!Next
<1>4. CASE Quiet
    BY <1>1, <1>2, <1>4, FifoQuiet
<1>5. CASE Router
    <2>1. PICK t \in Topics, targets \in SUBSET Conns : Routed(t, targets)
        BY <1>1, <1>5, RouterShape
    <2>2. PICK to \in SUBSET Conns :
              /\ stats'.routed = stats.routed + 1
              /\ sequences' = [sequences EXCEPT ![t] = @ + 1]
              /\ Pipe' = [c \in Conns |-> IF c \in to THEN Pipe[c] \cup {NewEvent(t)} ELSE Pipe[c]]
              /\ Out' = Out
        BY <1>1, <2>1, FifoRouted
    <2>3. Fifo!Route(t, to)
        BY <2>2 DEF Fifo!Route, Pipe, Out, NewEvent
    <2>4. QED
        BY <2>3 DEF Fifo!Next
<1>6. ASSUME NEW v \in W, NEW c \in Conns, HandleDispatch(v, c) PROVE [Fifo!Next]_(Fifo!fifoVars)
    BY <1>1, <1>3, <1>6, FifoHandle
<1>7. ASSUME NEW c \in Conns, WriterEnd(c) PROVE [Fifo!Next]_(Fifo!fifoVars)
    BY <1>1, <1>3, <1>7, FifoEnd
<1>8. ASSUME NEW c \in Conns, WriterSend(c) PROVE [Fifo!Next]_(Fifo!fifoVars)
    <2>1. CASE workers = 1
        <3>1. /\ UNCHANGED <<stats.routed, sequences>>
              /\ \E e \in Pipe[c] :
                    /\ \A other \in Pipe[c] : e.nr <= other.nr
                    /\ Out' = [Out EXCEPT ![c] = Append(@, e)]
                    /\ Pipe' = [Pipe EXCEPT ![c] = @ \ {e}]
            BY <1>1, <1>8, <2>1, FifoSend
        <3>2. Fifo!Deliver(c)
            BY <3>1 DEF Fifo!Deliver, Pipe, Out
        <3>3. QED
            BY <3>2 DEF Fifo!Next
    <2>2. CASE workers # 1
        BY <1>1, <1>2, <1>8, <2>2, FifoNone
    <2>3. QED
        BY <2>1, <2>2
<1>9. QED
    BY <1>4, <1>5, <1>6, <1>7, <1>8, Steps DEF Writer

\* With a single worker, router, channels, worker and writer together implement
\* the lossy FIFO: what is dropped is dropped, but nothing is reordered or
\* delivered again.
THEOREM PipelineIsFifo == Spec => ImplementsFifo
    BY LineInvInit, LineInvStep, FifoInit, FifoStep, PTL DEF Spec, ImplementsFifo, Fifo!Spec
=============================================================================
