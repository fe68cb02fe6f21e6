------------------------------ MODULE Presence ------------------------------
(***************************************************************************)
(* Presence: who is on which topic.  Every node keeps a PresenceTracker    *)
(* (a map of maps, each call a few guarded accesses) and, when the shared  *)
(* store is configured, mirrors it into one Redis hash per topic with      *)
(* commands that other nodes interleave with.  A connection's reader       *)
(* handles TRACK and UNTRACK one at a time; the connection task cleans up  *)
(* when the socket ends.  Every change of a local set is followed by the   *)
(* publication of a snapshot taken under the map's guard.                  *)
(*                                                                         *)
(* Frames that authorize_publish_topic or the metadata bound refuses       *)
(* change nothing and are left out.  SCAN is one page (COUNT 100).  Time   *)
(* is the age of a Redis key since its last EXPIRE.                        *)
(***************************************************************************)
EXTENDS Naturals

CONSTANTS Conns,    \* connections (one use each)
          Nodes,    \* gateway processes
          Topics,
          Placements, \* the ways the connections may be spread over the nodes
          Id,       \* per placement: the ConnectionIds, which count from 1 on every node
          Ttl,      \* PRESENCE_TTL_SECS, in ticks
          MaxFaults \* bound: failed commands, refused snapshots and crashes

ASSUME PresenceAssumption == /\ Placements \subseteq [Conns -> Nodes]
                             /\ Id \in [Placements -> [Conns -> Nat]]
                             /\ Ttl \in Nat \ {0} /\ MaxFaults \in Nat /\ Topics # {}
                             /\ \A p \in Placements, c, d \in Conns :
                                   p[c] = p[d] /\ Id[p][c] = Id[p][d] => c = d

VARIABLES nodeOf,   \* per connection: the node that accepted it
          shared,   \* AppState.presence_shared is Some
          at,       \* per connection: the next step of its task
          topic,    \* per connection: the topic of the step
          closing,  \* connections whose socket has ended
          todo,     \* per connection: topics remove_connection has still to do
          removed,  \* per connection: untrack's local `removed`
          out,      \* per connection: snapshots taken and not yet published
          keys,     \* per node: topics of the outer map
          members,  \* per node and topic: the inner map
          hash,     \* Redis: connections listed under a topic's key
          age,      \* Redis: ticks since the key's last EXPIRE, or NoTtl
          \* History.
          joined,   \* per connection: topics tracked and not left
          told,     \* per node and topic: the set was published since it changed, and
                    \* "now" last, or "then" before an older snapshot; or "no"
          unsent,   \* per node and topic: the bus refused a snapshot
          kept,     \* per topic: may linger in Redis (HDEL or SCAN failed, node crashed)
          faults    \* number of failures so far

config == <<nodeOf, shared>>
local == <<keys, members, joined>>
redis == <<hash, age, kept>>
bus == <<told, unsent>>
task == <<at, topic, closing, todo, removed, out>>
vars == <<config, task, local, redis, bus, faults>>

\* The age of a key that does not exist, or that nobody set to expire.
NoTtl == Ttl

Idle == {"off", "idle", "gone"}
Quiet == \A c \in Conns : at[c] \in Idle
Up(c) == at[c] \notin {"off", "gone"}
Alive(n) == {c \in Conns : nodeOf[c] = n /\ Up(c)}

Init ==
    /\ nodeOf \in Placements /\ shared \in BOOLEAN
    /\ at = [c \in Conns |-> "off"]
    /\ topic = [c \in Conns |-> CHOOSE t \in Topics : TRUE]
    /\ closing = {}
    /\ todo = [c \in Conns |-> {}]
    /\ removed = [c \in Conns |-> FALSE]
    /\ out = [c \in Conns |-> {}]
    /\ keys = [n \in Nodes |-> {}]
    /\ members = [n \in Nodes |-> [t \in Topics |-> {}]]
    /\ hash = [t \in Topics |-> {}]
    /\ age = [t \in Topics |-> NoTtl]
    /\ joined = [c \in Conns |-> {}]
    /\ told = [n \in Nodes |-> [t \in Topics |-> "now"]]
    /\ unsent = [n \in Nodes |-> [t \in Topics |-> FALSE]]
    /\ kept = [t \in Topics |-> {}]
    /\ faults = 0

Goto(c, l) == at' = [at EXCEPT ![c] = l]

Fault == faults < MaxFaults /\ faults' = faults + 1

-----------------------------------------------------------------------------
\* The client and its socket.
Connect(c) ==
    /\ at[c] = "off"
    /\ Goto(c, "idle")
    /\ UNCHANGED <<config, topic, closing, todo, removed, out, local, redis, bus, faults>>

\* handle_track: the shared store first, then the local set.
Track(c, t) ==
    /\ at[c] = "idle"
    /\ Goto(c, IF shared THEN "hset" ELSE "join")
    /\ topic' = [topic EXCEPT ![c] = t]
    /\ UNCHANGED <<config, closing, todo, removed, out, local, redis, bus, faults>>

\* handle_untrack.
Untrack(c, t) ==
    /\ at[c] = "idle"
    /\ Goto(c, IF shared THEN "hdel" ELSE "leave")
    /\ topic' = [topic EXCEPT ![c] = t]
    /\ UNCHANGED <<config, closing, todo, removed, out, local, redis, bus, faults>>

\* Faulty variant: the end of the socket does not clean up the shared store.
CloseLocally(c) ==
    /\ at[c] = "idle"
    /\ Goto(c, "collect")
    /\ closing' = closing \cup {c}
    /\ UNCHANGED <<config, topic, todo, removed, out, local, redis, bus, faults>>

\* handle_websocket, once the reader and the writer are done.
Close(c) ==
    /\ at[c] = "idle"
    /\ Goto(c, IF shared THEN "scan" ELSE "collect")
    /\ closing' = closing \cup {c}
    /\ UNCHANGED <<config, topic, todo, removed, out, local, redis, bus, faults>>

-----------------------------------------------------------------------------
\* The shared store: one action per Redis command.  A command may fail; the
\* failure is logged and dropped.
SharedStep(c) == UNCHANGED <<config, closing, removed, out, local, bus>>

\* The ConnectionId is the field of the hash: connections of different nodes
\* that carry the same one overwrite and delete each other's member.
SameField(c, d) == Id[nodeOf][c] = Id[nodeOf][d]

\* Redis deletes an empty hash, and its TTL with it.
RemoveFrom(t, s) == /\ hash' = [hash EXCEPT ![t] = @ \ s]
                    /\ age' = [age EXCEPT ![t] = IF hash[t] \subseteq s THEN NoTtl ELSE @]

\* Faulty variant: HSET without EXPIRE.
HSetNoExpire(c) == LET t == topic[c] IN
    /\ at[c] = "hset"
    /\ Goto(c, "join")
    /\ hash' = [hash EXCEPT ![t] = {d \in @ : ~SameField(c, d)} \cup {c}]
    /\ UNCHANGED <<topic, todo, age, kept, faults>> /\ SharedStep(c)

\* SharedPresence::track: HSET and EXPIRE in one transaction.
HSet(c) == LET t == topic[c] IN
    /\ at[c] = "hset"
    /\ Goto(c, "join")
    /\ \/ /\ hash' = [hash EXCEPT ![t] = {d \in @ : ~SameField(c, d)} \cup {c}]
          /\ age' = [age EXCEPT ![t] = 0]
          /\ UNCHANGED faults
       \/ Fault /\ UNCHANGED <<hash, age>>
    /\ UNCHANGED <<topic, todo, kept>> /\ SharedStep(c)

\* Where untrack and remove_connection go on after a key.
AfterKey(c) == IF c \in closing THEN "eachKey" ELSE "leave"

\* HDEL.  untrack returns on an error, remove_connection goes on.
HDel(c) == LET t == topic[c] IN
    /\ at[c] = "hdel"
    /\ \/ /\ RemoveFrom(t, {d \in Conns : SameField(c, d)})
          /\ kept' = [kept EXCEPT ![t] = @ \ {c}]
          /\ Goto(c, "hlen")
          /\ UNCHANGED faults
       \/ /\ Fault
          /\ kept' = [kept EXCEPT ![t] = @ \cup {c}]
          /\ Goto(c, IF c \in closing THEN "hlen" ELSE "leave")
          /\ UNCHANGED <<hash, age>>
    /\ UNCHANGED <<topic, todo>> /\ SharedStep(c)

\* HLEN: only an answer of 0 leads to DEL.
HLen(c) ==
    /\ at[c] = "hlen"
    /\ \/ /\ Goto(c, IF hash[topic[c]] = {} THEN "del" ELSE AfterKey(c))
          /\ UNCHANGED faults
       \/ Fault /\ Goto(c, AfterKey(c))
    /\ UNCHANGED <<topic, todo, redis>> /\ SharedStep(c)

\* DEL removes the key with whatever it holds by now.
Del(c) ==
    /\ at[c] = "del"
    /\ \/ RemoveFrom(topic[c], Conns) /\ UNCHANGED faults
       \/ Fault /\ UNCHANGED <<hash, age>>
    /\ Goto(c, AfterKey(c))
    /\ UNCHANGED <<topic, todo, kept>> /\ SharedStep(c)

\* SharedPresence::remove_connection: SCAN, then HDEL, HLEN and DEL per key.
Scan(c) ==
    /\ at[c] = "scan"
    /\ \/ /\ todo' = [todo EXCEPT ![c] = {t \in Topics : hash[t] # {}}]
          /\ Goto(c, "eachKey")
          /\ UNCHANGED <<kept, faults>>
       \/ /\ Fault
          /\ kept' = [t \in Topics |-> kept[t] \cup {c}]
          /\ Goto(c, "collect")
          /\ UNCHANGED todo
    /\ UNCHANGED <<topic, hash, age>> /\ SharedStep(c)

EachKey(c) ==
    /\ at[c] = "eachKey"
    /\ \/ \E t \in todo[c] : /\ topic' = [topic EXCEPT ![c] = t]
                             /\ todo' = [todo EXCEPT ![c] = @ \ {t}]
                             /\ Goto(c, "hdel")
       \/ todo[c] = {} /\ Goto(c, "collect") /\ UNCHANGED <<topic, todo>>
    /\ UNCHANGED <<redis, faults>> /\ SharedStep(c)

\* A second passes: a key whose TTL has run out disappears.
Tick ==
    /\ \E t \in Topics : age[t] # NoTtl
    /\ LET expires == {t \in Topics : age[t] = Ttl - 1}
       IN /\ age' = [t \in Topics |-> IF age[t] = NoTtl THEN NoTtl ELSE age[t] + 1]
          /\ hash' = [t \in Topics |-> IF t \in expires THEN {} ELSE hash[t]]
    /\ UNCHANGED <<config, task, local, kept, bus, faults>>

-----------------------------------------------------------------------------
\* The local tracker of the connection's node.  untrack holds a shared guard
\* of the outer map from the removal to the end of the iteration; track's
\* entry() needs the exclusive one.
Guarded(n, t) == \E d \in Conns : nodeOf[d] = n /\ at[d] = "iterate" /\ topic[d] = t

\* PresenceTracker::track: insert and snapshot under one guard.
Join(c) == LET n == nodeOf[c] t == topic[c] IN
    /\ at[c] = "join" /\ ~Guarded(n, t)
    /\ keys' = [keys EXCEPT ![n] = @ \cup {t}]
    /\ members' = [members EXCEPT ![n][t] = @ \cup {c}]
    /\ joined' = [joined EXCEPT ![c] = @ \cup {t}]
    /\ out' = [out EXCEPT ![c] = {<<t, members'[n][t]>>}]
    /\ told' = [told EXCEPT ![n][t] = "no"]
    /\ Goto(c, "publish")
    /\ UNCHANGED <<config, topic, closing, todo, removed, redis, unsent, faults>>

\* Where untrack's caller goes on: remove_connection to the next topic.
AfterTopic(c) == IF c \in closing THEN "eachTopic" ELSE "publish"

\* PresenceTracker::untrack, up to the removal.
Leave(c) == LET n == nodeOf[c] t == topic[c] IN
    /\ at[c] = "leave"
    /\ IF t \in keys[n]
       THEN /\ removed' = [removed EXCEPT ![c] = c \in members[n][t]]
            /\ members' = [members EXCEPT ![n][t] = @ \ {c}]
            /\ told' = [told EXCEPT ![n][t] = IF c \in members[n][t] THEN "no" ELSE @]
            /\ joined' = [joined EXCEPT ![c] = @ \ {t}]
            /\ Goto(c, "iterate")
       ELSE /\ Goto(c, AfterTopic(c))
            /\ UNCHANGED <<removed, members, told, joined>>
    /\ UNCHANGED <<config, topic, closing, todo, out, keys, redis, unsent, faults>>

\* Faulty variant: no snapshot is published for a topic that emptied.
IterateSilentWhenEmpty(c) == LET n == nodeOf[c] t == topic[c] IN
    /\ at[c] = "iterate"
    /\ out' = IF removed[c] /\ members[n][t] # {}
              THEN [out EXCEPT ![c] = @ \cup {<<t, members[n][t]>>}] ELSE out
    /\ removed' = [removed EXCEPT ![c] = FALSE]
    /\ Goto(c, IF members[n][t] = {} THEN "prune" ELSE AfterTopic(c))
    /\ UNCHANGED <<config, topic, closing, todo, local, redis, bus, faults>>

\* The snapshot of what remains; the guard is dropped.
Iterate(c) == LET n == nodeOf[c] t == topic[c] IN
    /\ at[c] = "iterate"
    /\ out' = IF removed[c] THEN [out EXCEPT ![c] = @ \cup {<<t, members[n][t]>>}] ELSE out
    /\ removed' = [removed EXCEPT ![c] = FALSE]
    /\ Goto(c, IF members[n][t] = {} THEN "prune" ELSE AfterTopic(c))
    /\ UNCHANGED <<config, topic, closing, todo, local, redis, bus, faults>>

\* Faulty variant: the topic is pruned on the strength of the earlier snapshot.
RemoveBlindly(n, t) == /\ keys' = [keys EXCEPT ![n] = @ \ {t}]
                       /\ members' = [members EXCEPT ![n][t] = {}]

\* remove_if: an empty topic is pruned if it is still empty.
RemoveIf(n, t) ==
    IF members[n][t] = {}
    THEN keys' = [keys EXCEPT ![n] = @ \ {t}] /\ UNCHANGED members
    ELSE UNCHANGED <<keys, members>>

Prune(c) == LET n == nodeOf[c] t == topic[c] IN
    /\ at[c] = "prune" /\ ~Guarded(n, t)
    /\ RemoveIf(n, t)
    /\ Goto(c, AfterTopic(c))
    /\ UNCHANGED <<config, topic, closing, todo, removed, out, joined, redis, bus, faults>>

\* PresenceTracker::remove_connection: the topic keys are collected first.
Collect(c) ==
    /\ at[c] = "collect"
    /\ todo' = [todo EXCEPT ![c] = keys[nodeOf[c]]]
    /\ Goto(c, "eachTopic")
    /\ UNCHANGED <<config, topic, closing, removed, out, local, redis, bus, faults>>

EachTopic(c) ==
    /\ at[c] = "eachTopic"
    /\ \/ \E t \in todo[c] : /\ topic' = [topic EXCEPT ![c] = t]
                             /\ todo' = [todo EXCEPT ![c] = @ \ {t}]
                             /\ Goto(c, "leave")
       \/ todo[c] = {} /\ Goto(c, "publish") /\ UNCHANGED <<topic, todo>>
    /\ UNCHANGED <<config, closing, removed, out, local, redis, bus, faults>>

\* publish_presence and publish_presence_snapshot; the bus may refuse.
Publish(c) == LET n == nodeOf[c] IN
    /\ at[c] = "publish"
    /\ \/ \E s \in out[c] :
            /\ out' = [out EXCEPT ![c] = @ \ {s}]
            /\ \/ /\ told' = [told EXCEPT ![n][s[1]] = IF s[2] = members[n][s[1]] THEN "now"
                                                     ELSE IF @ = "no" THEN "no" ELSE "then"]
                  /\ UNCHANGED <<unsent, faults>>
               \/ /\ Fault
                  /\ unsent' = [unsent EXCEPT ![n][s[1]] = TRUE]
                  /\ UNCHANGED told
            /\ UNCHANGED at
       \/ /\ out[c] = {}
          /\ Goto(c, IF c \in closing THEN "gone" ELSE "idle")
          /\ UNCHANGED <<out, bus, faults>>
    /\ UNCHANGED <<config, topic, closing, todo, removed, local, redis>>

\* A node dies with its connections and its tracker; Redis does not notice.
Crash(n) ==
    /\ Alive(n) # {} /\ Fault
    /\ at' = [c \in Conns |-> IF c \in Alive(n) THEN "gone" ELSE at[c]]
    /\ todo' = [c \in Conns |-> IF c \in Alive(n) THEN {} ELSE todo[c]]
    /\ out' = [c \in Conns |-> IF c \in Alive(n) THEN {} ELSE out[c]]
    /\ removed' = [c \in Conns |-> removed[c] /\ c \notin Alive(n)]
    /\ joined' = [c \in Conns |-> IF c \in Alive(n) THEN {} ELSE joined[c]]
    /\ closing' = closing \ Alive(n)
    /\ keys' = [keys EXCEPT ![n] = {}]
    /\ members' = [members EXCEPT ![n] = [t \in Topics |-> {}]]
    /\ told' = [told EXCEPT ![n] = [t \in Topics |-> "now"]]
    /\ kept' = [t \in Topics |-> kept[t] \cup Alive(n)]
    /\ UNCHANGED <<config, topic, hash, age, unsent>>

-----------------------------------------------------------------------------
ClientStep(c) == Connect(c) \/ Close(c) \/ \E t \in Topics : Track(c, t) \/ Untrack(c, t)

TaskStep(c) == \/ HSet(c) \/ HDel(c) \/ HLen(c) \/ Del(c) \/ Scan(c) \/ EachKey(c)
               \/ Join(c) \/ Leave(c) \/ Iterate(c) \/ Prune(c) \/ Collect(c) \/ EachTopic(c)
               \/ Publish(c)

Next == \/ \E c \in Conns : ClientStep(c) \/ TaskStep(c)
        \/ \E n \in Nodes : Crash(n)
        \/ Tick

\* The tasks run and time passes; clients and crashes are not owed.
Fairness == WF_vars(Tick) /\ \A c \in Conns : WF_vars(TaskStep(c))

Spec == Init /\ [][Next]_vars /\ Fairness

-----------------------------------------------------------------------------
\* SharedPresence::members, when Redis answers.
SharedMembers(t) == hash[t]

\* PresenceTracker::members.
LocalMembers(n, t) == IF t \in keys[n] THEN members[n][t] ELSE {}

\* GET /v1/presence on node n.
PresenceQuery(n, t) == IF shared THEN SharedMembers(t) ELSE LocalMembers(n, t)

On(t) == {c \in Conns : t \in joined[c]}

TypeOK ==
    /\ nodeOf \in [Conns -> Nodes] /\ shared \in BOOLEAN
    /\ at \in [Conns -> Idle \cup {"hset", "join", "hdel", "hlen", "del", "scan", "eachKey", "leave",
                                   "iterate", "prune", "collect", "eachTopic", "publish"}]
    /\ topic \in [Conns -> Topics] /\ closing \subseteq Conns
    /\ todo \in [Conns -> SUBSET Topics] /\ removed \in [Conns -> BOOLEAN]
    /\ \A c \in Conns : out[c] \subseteq Topics \X SUBSET Conns
    /\ keys \in [Nodes -> SUBSET Topics]
    /\ members \in [Nodes -> [Topics -> SUBSET Conns]]
    /\ hash \in [Topics -> SUBSET Conns] /\ age \in [Topics -> 0 .. Ttl]
    /\ joined \in [Conns -> SUBSET Topics]
    /\ told \in [Nodes -> [Topics -> {"no", "then", "now"}]]
    /\ faults \in 0 .. MaxFaults /\ unsent \in [Nodes -> [Topics -> BOOLEAN]]
    /\ kept \in [Topics -> SUBSET Conns]

\* A completed TRACK is listed until its own connection leaves, however the
\* untracks of others empty and prune the topic meanwhile; and a topic that
\* emptied leaves no key behind (untrack, "Empty topics are pruned").
LocalSetExact == \A n \in Nodes, t \in Topics :
    /\ members[n][t] = {c \in On(t) : nodeOf[c] = n}
    /\ Quiet => (t \in keys[n] <=> members[n][t] # {})

\* When the tasks are at rest the current set of a node has been published
\* since it last changed, unless the bus refused a snapshot: subscribers are
\* told about every change, if not always last (handle_track, untrack).
FinalSetPublished == Quiet => \A n \in Nodes, t \in Topics : told[n][t] # "no" \/ unsent[n][t]

\* GET /v1/presence lists nobody who has left, on any node: whatever prunes,
\* overwrites and expiries happen meanwhile, only a failed HDEL or SCAN or the
\* crash of a node leaves a ghost, and only in the shared store.
NoGhosts ==
    Quiet => \A n \in Nodes, t \in Topics : \A c \in PresenceQuery(n, t) :
                 t \in joined[c] \/ (shared /\ c \in kept[t])

\* Once nobody tracks a topic any more its shared set empties, whatever
\* commands failed and whichever node crashed: the key carries a TTL.
QuietTopicEmpties == \A t \in Topics :
    <>[](\A c \in Conns : ~(at[c] = "hset" /\ topic[c] = t)) => <>[](hash[t] = {})

\* presence_shared.rs:24: "a member that joined on node A is listed by node
\* B": when no command has failed, the shared set lists every tracked member.
JoinedIsListed == (Quiet /\ shared /\ faults = 0) => \A t \in Topics : On(t) \subseteq hash[t]

\* What the code does not promise (README, deviations).
LastIsCurrent == Quiet => \A n \in Nodes, t \in Topics : told[n][t] = "now" \/ unsent[n][t]
GhostsGoAway == \A c \in Conns, t \in Topics : (at[c] = "gone") ~> (c \notin hash[t])
====
