--------------------------- MODULE PresenceProofs ---------------------------
(***************************************************************************)
(* Presence for any number of connections, nodes and topics, and any       *)
(* faults: a node's tracker lists exactly the connections that track       *)
(* (LocalSetIsExact), every change of it is published unless the bus       *)
(* refuses (FinalSetIsPublished), and a query lists nobody who has left    *)
(* but the named leftovers (QueryListsNoGhosts).                           *)
(***************************************************************************)
EXTENDS Presence, TLAPS

Steps == Idle \cup {"hset", "join", "hdel", "hlen", "del", "scan", "eachKey", "leave", "iterate",
                    "prune", "collect", "eachTopic", "publish"}

\* What the steps of the proofs need of the state.
TaskTypes ==
    /\ nodeOf \in [Conns -> Nodes] /\ at \in [Conns -> Steps] /\ topic \in [Conns -> Topics]
    /\ closing \subseteq Conns /\ todo \in [Conns -> SUBSET Topics]
    /\ DOMAIN removed = Conns

LocalTypes ==
    /\ out \in [Conns -> SUBSET (Topics \X SUBSET Conns)]
    /\ keys \in [Nodes -> SUBSET Topics] /\ members \in [Nodes -> [Topics -> SUBSET Conns]]
    /\ joined \in [Conns -> SUBSET Topics]
    /\ told \in [Nodes -> [Topics -> {"no", "then", "now"}]]
    /\ unsent \in [Nodes -> [Topics -> BOOLEAN]]

RedisTypes ==
    /\ hash \in [Topics -> SUBSET Conns]
    /\ kept \in [Topics -> SUBSET Conns]

-----------------------------------------------------------------------------
\* The inner maps hold exactly the connections that have joined.
Exact == \A n \in Nodes, t \in Topics, c \in Conns :
    c \in members[n][t] <=> t \in joined[c] /\ nodeOf[c] = n

\* Connection d is about to prune topic t of node n.
Prunes(d, n, t) == nodeOf[d] = n /\ topic[d] = t /\ at[d] \in {"iterate", "prune"}

\* A topic with members has a key, and one without is about to be pruned.
Keyed == \A n \in Nodes, t \in Topics :
    /\ members[n][t] # {} => t \in keys[n]
    /\ t \in keys[n] /\ members[n][t] = {} => \E d \in Conns : Prunes(d, n, t)

\* The steps of a connection's task once its socket has ended.
Ending == {"scan", "eachKey", "hdel", "hlen", "del", "collect", "eachTopic", "leave", "iterate",
           "prune", "publish", "gone"}

\* remove_connection: what is joined is still on the list of topics to leave.
LeavingOf(c) ==
    /\ c \in closing => at[c] \in Ending
    /\ at[c] \in {"scan", "eachKey", "collect", "eachTopic"} => c \in closing
    /\ at[c] \in {"off", "gone"} => joined[c] = {}
    /\ c \in closing /\ at[c] \in {"eachTopic", "iterate", "prune"} => joined[c] \subseteq todo[c]
    /\ c \in closing /\ at[c] = "leave" => joined[c] \subseteq todo[c] \cup {topic[c]}
    /\ c \in closing /\ at[c] = "publish" => joined[c] = {}

Leaving == \A c \in Conns : LeavingOf(c)

-----------------------------------------------------------------------------
\* Snapshots are held only on the way from the local set to the bus.
OutAtRestOf(c) == at[c] \notin {"eachTopic", "leave", "iterate", "prune", "publish"} => out[c] = {}

OutAtRest == \A c \in Conns : OutAtRestOf(c)

\* Connection d of node n holds the current set of topic t, or is about to take it.
CarriedBy(d, n, t) ==
    /\ nodeOf[d] = n
    /\ <<t, members[n][t]>> \in out[d] \/ (at[d] = "iterate" /\ topic[d] = t /\ removed[d])

Carried(n, t) == \E d \in Conns : CarriedBy(d, n, t)

\* A change that nobody was told of is on its way, or was refused by the bus.
Pending == \A n \in Nodes, t \in Topics : told[n][t] = "no" => unsent[n][t] \/ Carried(n, t)

-----------------------------------------------------------------------------
\* A connection in the hash has joined, is about to, or is known to linger; one
\* that leaves takes itself out before it leaves the local set.
AccountedOf(c, t) == shared /\ c \in hash[t] /\ c \notin kept[t] =>
    /\ t \in joined[c] \/ (at[c] = "join" /\ topic[c] = t)
    /\ c \notin closing => ~(topic[c] = t /\ at[c] \in {"hlen", "del", "leave"})
    /\ c \in closing => \/ at[c] = "scan"
                        \/ at[c] \in {"eachKey", "hlen", "del"} /\ t \in todo[c]
                        \/ at[c] = "hdel" /\ (t \in todo[c] \/ t = topic[c])

Accounted == \A c \in Conns, t \in Topics : AccountedOf(c, t)

PresenceInv ==
    /\ TaskTypes /\ LocalTypes /\ RedisTypes
    /\ Exact /\ Keyed /\ Leaving
    /\ OutAtRest /\ Pending
    /\ Accounted

-----------------------------------------------------------------------------
\* The groups of variables are their members everywhere below.
USE DEF config, local, redis, bus, task

\* untrack finds the topic: what it does to the tracker ...
Removes(c) ==
    /\ \A n \in Nodes, t \in Topics :
          members'[n][t] = IF n = nodeOf[c] /\ t = topic[c] THEN members[n][t] \ {c}
                           ELSE members[n][t]
    /\ \A d \in Conns : joined'[d] = IF d = c THEN joined[d] \ {topic[c]} ELSE joined[d]
    /\ \A n \in Nodes, t \in Topics :
          told'[n][t] = IF n = nodeOf[c] /\ t = topic[c] /\ c \in members[n][t] THEN "no"
                        ELSE told[n][t]
    /\ at' = [at EXCEPT ![c] = "iterate"]

\* That is what untrack does, under the guard of the outer map.
LEMMA LeaveFound ==
    ASSUME TaskTypes, LocalTypes, NEW c \in Conns, Leave(c), topic[c] \in keys[nodeOf[c]]
    PROVE  /\ at[c] = "leave"
           /\ Removes(c)
           /\ members' \in [Nodes -> [Topics -> SUBSET Conns]]
           /\ joined' \in [Conns -> SUBSET Topics]
           /\ told' \in [Nodes -> [Topics -> {"no", "then", "now"}]]
           /\ UNCHANGED <<nodeOf, shared, topic, closing, todo, out, keys, hash, age, kept,
                          unsent, faults>>
<1>1. /\ at[c] = "leave"
      /\ members' = [members EXCEPT ![nodeOf[c]][topic[c]] = @ \ {c}]
      /\ joined' = [joined EXCEPT ![c] = @ \ {topic[c]}]
      /\ told' = [told EXCEPT ![nodeOf[c]][topic[c]] =
                      IF c \in members[nodeOf[c]][topic[c]] THEN "no" ELSE @]
      /\ at' = [at EXCEPT ![c] = "iterate"]
      /\ UNCHANGED <<nodeOf, shared, topic, closing, todo, out, keys, hash, age, kept, unsent,
                     faults>>
    BY Zenon DEF Leave, Goto
<1>2. nodeOf[c] \in Nodes /\ topic[c] \in Topics
    BY DEF TaskTypes
<1>3. /\ members' \in [Nodes -> [Topics -> SUBSET Conns]]
      /\ \A n \in Nodes, t \in Topics :
            members'[n][t] = IF n = nodeOf[c] /\ t = topic[c] THEN members[n][t] \ {c}
                             ELSE members[n][t]
    BY <1>1, <1>2 DEF LocalTypes
<1>4. /\ joined' \in [Conns -> SUBSET Topics]
      /\ \A d \in Conns : joined'[d] = IF d = c THEN joined[d] \ {topic[c]} ELSE joined[d]
    BY <1>1, <1>2 DEF LocalTypes
<1>5. /\ told' \in [Nodes -> [Topics -> {"no", "then", "now"}]]
      /\ \A n \in Nodes, t \in Topics :
            told'[n][t] = IF n = nodeOf[c] /\ t = topic[c] /\ c \in members[n][t] THEN "no"
                          ELSE told[n][t]
    BY <1>1, <1>2 DEF LocalTypes
<1>6. QED
    BY <1>1, <1>3, <1>4, <1>5 DEF Removes

\* ... or does not find it, and leaves the tracker alone.
LEMMA LeaveMissed ==
    ASSUME NEW c \in Conns, Leave(c), topic[c] \notin keys[nodeOf[c]]
    PROVE  /\ at[c] = "leave"
           /\ at' = [at EXCEPT ![c] = IF c \in closing THEN "eachTopic" ELSE "publish"]
           /\ UNCHANGED <<nodeOf, shared, topic, closing, todo, removed, out, keys, members, told,
                          joined, hash, age, kept, unsent, faults>>
BY Zenon DEF Leave, Goto, AfterTopic

\* publish_presence sends one snapshot, has one refused, ...
Sends(c, s) ==
    /\ out' = [out EXCEPT ![c] = @ \ {s}]
    /\ told' = [told EXCEPT ![nodeOf[c]][s[1]] = IF s[2] = members[nodeOf[c]][s[1]] THEN "now"
                                                 ELSE IF @ = "no" THEN "no" ELSE "then"]
    /\ UNCHANGED <<unsent, at>>

Refused(c, s) ==
    /\ out' = [out EXCEPT ![c] = @ \ {s}]
    /\ unsent' = [unsent EXCEPT ![nodeOf[c]][s[1]] = TRUE]
    /\ UNCHANGED <<told, at>>

\* ... or has none left.
Sent(c) ==
    /\ out[c] = {}
    /\ at' = [at EXCEPT ![c] = IF c \in closing THEN "gone" ELSE "idle"]
    /\ UNCHANGED <<out, told, unsent>>

\* publish_presence does one of the three.
LEMMA PublishCases ==
    ASSUME NEW c \in Conns, Publish(c)
    PROVE  /\ (\E s \in out[c] : Sends(c, s) \/ Refused(c, s)) \/ Sent(c)
           /\ at[c] = "publish"
           /\ UNCHANGED <<nodeOf, shared, topic, closing, todo, removed, keys, members, joined, hash,
                          age, kept>>
BY Zenon DEF Publish, Goto, Sends, Refused, Sent

\* Every task stays at one of its steps.
LEMMA TaskTypesStep ==
    ASSUME TaskTypes, LocalTypes, [Next]_vars
    PROVE  TaskTypes'
<1>1. ASSUME NEW c \in Conns, Connect(c) PROVE TaskTypes'
    BY <1>1 DEF Connect, Goto, TaskTypes, LocalTypes, Steps, Idle
<1>2. ASSUME NEW c \in Conns, NEW t \in Topics, Track(c, t) PROVE TaskTypes'
    BY <1>2 DEF Track, Goto, TaskTypes, LocalTypes, Steps, Idle
<1>3. ASSUME NEW c \in Conns, NEW t \in Topics, Untrack(c, t) PROVE TaskTypes'
    BY <1>3 DEF Untrack, Goto, TaskTypes, LocalTypes, Steps, Idle
<1>4. ASSUME NEW c \in Conns, Close(c) PROVE TaskTypes'
    BY <1>4 DEF Close, Goto, TaskTypes, LocalTypes, Steps, Idle
<1>5. ASSUME NEW c \in Conns, HSet(c) PROVE TaskTypes'
    BY <1>5 DEF HSet, SharedStep, Goto, SameField, TaskTypes, LocalTypes, Steps, Idle
<1>6. ASSUME NEW c \in Conns, HDel(c) PROVE TaskTypes'
    BY <1>6 DEF HDel, SharedStep, Goto, RemoveFrom, TaskTypes, LocalTypes, Steps, Idle
<1>7. ASSUME NEW c \in Conns, HLen(c) PROVE TaskTypes'
    BY <1>7 DEF HLen, SharedStep, Goto, AfterKey, TaskTypes, LocalTypes, Steps, Idle
<1>8. ASSUME NEW c \in Conns, Del(c) PROVE TaskTypes'
    BY <1>8 DEF Del, SharedStep, Goto, AfterKey, RemoveFrom, TaskTypes, LocalTypes, Steps, Idle
<1>9. ASSUME NEW c \in Conns, Scan(c) PROVE TaskTypes'
  <2>1. at' \in [Conns -> Steps]
    BY <1>9 DEF Scan, SharedStep, Goto, TaskTypes, Steps, Idle
  <2>2. topic' \in [Conns -> Topics]
    BY <1>9 DEF Scan, SharedStep, Goto, TaskTypes
  <2>3. todo' \in [Conns -> SUBSET Topics]
    BY <1>9 DEF Scan, SharedStep, Goto, TaskTypes
  <2>4. nodeOf' \in [Conns -> Nodes] /\ closing' \subseteq Conns /\ DOMAIN removed' = Conns
    BY <1>9 DEF Scan, SharedStep, Goto, TaskTypes
  <2>5. QED
    BY <2>1, <2>2, <2>3, <2>4 DEF TaskTypes
<1>10. ASSUME NEW c \in Conns, EachKey(c) PROVE TaskTypes'
  <2>1. at' \in [Conns -> Steps]
    BY <1>10 DEF EachKey, SharedStep, Goto, TaskTypes, Steps, Idle
  <2>2. topic' \in [Conns -> Topics]
    BY <1>10 DEF EachKey, SharedStep, Goto, TaskTypes
  <2>3. todo' \in [Conns -> SUBSET Topics]
    BY <1>10 DEF EachKey, SharedStep, Goto, TaskTypes
  <2>4. nodeOf' \in [Conns -> Nodes] /\ closing' \subseteq Conns /\ DOMAIN removed' = Conns
    BY <1>10 DEF EachKey, SharedStep, Goto, TaskTypes
  <2>5. QED
    BY <2>1, <2>2, <2>3, <2>4 DEF TaskTypes
<1>11. ASSUME NEW c \in Conns, Join(c) PROVE TaskTypes'
    BY <1>11 DEF Join, Goto, TaskTypes, LocalTypes, Steps, Idle
<1>12. ASSUME NEW c \in Conns, Leave(c) PROVE TaskTypes'
    BY <1>12 DEF Leave, Goto, AfterTopic, TaskTypes, LocalTypes, Steps, Idle
<1>13. ASSUME NEW c \in Conns, Iterate(c) PROVE TaskTypes'
    BY <1>13 DEF Iterate, Goto, AfterTopic, TaskTypes, LocalTypes, Steps, Idle
<1>14. ASSUME NEW c \in Conns, Prune(c) PROVE TaskTypes'
    BY <1>14 DEF Prune, RemoveIf, Goto, AfterTopic, TaskTypes, LocalTypes, Steps, Idle
<1>15. ASSUME NEW c \in Conns, Collect(c) PROVE TaskTypes'
    BY <1>15 DEF Collect, Goto, TaskTypes, LocalTypes, Steps, Idle
<1>16. ASSUME NEW c \in Conns, EachTopic(c) PROVE TaskTypes'
  <2>1. at' \in [Conns -> Steps]
    BY <1>16 DEF EachTopic, Goto, TaskTypes, Steps, Idle
  <2>2. topic' \in [Conns -> Topics]
    BY <1>16 DEF EachTopic, Goto, TaskTypes
  <2>3. todo' \in [Conns -> SUBSET Topics]
    BY <1>16 DEF EachTopic, Goto, TaskTypes
  <2>4. nodeOf' \in [Conns -> Nodes] /\ closing' \subseteq Conns /\ DOMAIN removed' = Conns
    BY <1>16 DEF EachTopic, Goto, TaskTypes
  <2>5. QED
    BY <2>1, <2>2, <2>3, <2>4 DEF TaskTypes
<1>17. ASSUME NEW c \in Conns, Publish(c) PROVE TaskTypes'
    BY <1>17 DEF Publish, Goto, TaskTypes, LocalTypes, Steps, Idle
<1>18. ASSUME NEW n \in Nodes, Crash(n) PROVE TaskTypes'
    BY <1>18 DEF Crash, Alive, Up, TaskTypes, LocalTypes, Steps, Idle
<1>19. CASE Tick
    BY <1>19 DEF Tick, TaskTypes, LocalTypes, Steps, Idle
<1>20. CASE UNCHANGED vars
    BY <1>20 DEF vars, TaskTypes, LocalTypes, Steps, Idle
<1>21. QED
    BY <1>1, <1>2, <1>3, <1>4, <1>5, <1>6, <1>7, <1>8, <1>9, <1>10, <1>11, <1>12, <1>13,
       <1>14, <1>15, <1>16, <1>17, <1>18, <1>19, <1>20
    DEF Next, ClientStep, TaskStep

\* The trackers, snapshots and histories keep their types.
LEMMA LocalTypesStep ==
    ASSUME TaskTypes, LocalTypes, [Next]_vars
    PROVE  LocalTypes'
<1>1. ASSUME NEW c \in Conns, Connect(c) PROVE LocalTypes'
    BY <1>1 DEF Connect, Goto, TaskTypes, LocalTypes
<1>2. ASSUME NEW c \in Conns, NEW t \in Topics, Track(c, t) PROVE LocalTypes'
    BY <1>2 DEF Track, Goto, TaskTypes, LocalTypes
<1>3. ASSUME NEW c \in Conns, NEW t \in Topics, Untrack(c, t) PROVE LocalTypes'
    BY <1>3 DEF Untrack, Goto, TaskTypes, LocalTypes
<1>4. ASSUME NEW c \in Conns, Close(c) PROVE LocalTypes'
    BY <1>4 DEF Close, Goto, TaskTypes, LocalTypes
<1>5. ASSUME NEW c \in Conns, HSet(c) PROVE LocalTypes'
    BY <1>5 DEF HSet, SharedStep, Goto, SameField, TaskTypes, LocalTypes
<1>6. ASSUME NEW c \in Conns, HDel(c) PROVE LocalTypes'
    BY <1>6 DEF HDel, SharedStep, Goto, RemoveFrom, TaskTypes, LocalTypes
<1>7. ASSUME NEW c \in Conns, HLen(c) PROVE LocalTypes'
    BY <1>7 DEF HLen, SharedStep, Goto, AfterKey, TaskTypes, LocalTypes
<1>8. ASSUME NEW c \in Conns, Del(c) PROVE LocalTypes'
    BY <1>8 DEF Del, SharedStep, Goto, AfterKey, RemoveFrom, TaskTypes, LocalTypes
<1>9. ASSUME NEW c \in Conns, Scan(c) PROVE LocalTypes'
    BY <1>9 DEF Scan, SharedStep, Goto, TaskTypes, LocalTypes
<1>10. ASSUME NEW c \in Conns, EachKey(c) PROVE LocalTypes'
    BY <1>10 DEF EachKey, SharedStep, Goto, TaskTypes, LocalTypes
<1>11. ASSUME NEW c \in Conns, Join(c) PROVE LocalTypes'
    BY <1>11 DEF Join, Goto, TaskTypes, LocalTypes
<1>12. ASSUME NEW c \in Conns, Leave(c) PROVE LocalTypes'
  <2>0. nodeOf[c] \in Nodes /\ topic[c] \in Topics
    BY DEF TaskTypes
  <2>1. CASE topic[c] \in keys[nodeOf[c]]
    BY <2>1, <1>12, LeaveFound DEF LocalTypes
  <2>2. CASE topic[c] \notin keys[nodeOf[c]]
    BY <2>2, <1>12, LeaveMissed DEF LocalTypes
  <2>3. QED
    BY <2>1, <2>2
<1>13. ASSUME NEW c \in Conns, Iterate(c) PROVE LocalTypes'
    BY <1>13 DEF Iterate, Goto, AfterTopic, TaskTypes, LocalTypes
<1>14. ASSUME NEW c \in Conns, Prune(c) PROVE LocalTypes'
  <2>1. UNCHANGED <<members, out, joined, told, unsent>>
    BY <1>14 DEF Prune, RemoveIf
  <2>2. keys' = keys \/ keys' = [keys EXCEPT ![nodeOf[c]] = @ \ {topic[c]}]
    BY <1>14 DEF Prune, RemoveIf
  <2>3. keys' \in [Nodes -> SUBSET Topics]
    <3>1. CASE keys' = keys
      BY <3>1 DEF LocalTypes
    <3>2. CASE keys' = [keys EXCEPT ![nodeOf[c]] = @ \ {topic[c]}]
      <4>1. nodeOf[c] \in Nodes /\ keys \in [Nodes -> SUBSET Topics]
        BY DEF TaskTypes, LocalTypes
      <4>2. QED
        BY <3>2, <4>1
    <3>3. QED
      BY <2>2, <3>1, <3>2
  <2>4. QED
    BY <2>1, <2>3 DEF LocalTypes
<1>15. ASSUME NEW c \in Conns, Collect(c) PROVE LocalTypes'
    BY <1>15 DEF Collect, Goto, TaskTypes, LocalTypes
<1>16. ASSUME NEW c \in Conns, EachTopic(c) PROVE LocalTypes'
    BY <1>16 DEF EachTopic, Goto, TaskTypes, LocalTypes
<1>17. ASSUME NEW c \in Conns, Publish(c) PROVE LocalTypes'
  <2>0. nodeOf[c] \in Nodes /\ \A s \in out[c] : s[1] \in Topics
    BY DEF TaskTypes, LocalTypes
  <2>1. UNCHANGED <<keys, members, joined>>
    BY <1>17, PublishCases
  <2>2. ASSUME NEW s \in out[c], Sends(c, s) PROVE LocalTypes'
    <3>1. told' \in [Nodes -> [Topics -> {"no", "then", "now"}]]
      BY <2>0, <2>2 DEF Sends, LocalTypes
    <3>2. out' \in [Conns -> SUBSET (Topics \X SUBSET Conns)] /\ unsent' = unsent
      BY <2>2 DEF Sends, LocalTypes
    <3>3. QED
      BY <2>1, <3>1, <3>2 DEF LocalTypes
  <2>3. ASSUME NEW s \in out[c], Refused(c, s) PROVE LocalTypes'
    <3>1. unsent' \in [Nodes -> [Topics -> BOOLEAN]]
      BY <2>0, <2>3 DEF Refused, LocalTypes
    <3>2. out' \in [Conns -> SUBSET (Topics \X SUBSET Conns)] /\ told' = told
      BY <2>3 DEF Refused, LocalTypes
    <3>3. QED
      BY <2>1, <3>1, <3>2 DEF LocalTypes
  <2>4. CASE Sent(c)
    BY <2>1, <2>4 DEF Sent, LocalTypes
  <2>5. QED
    BY <1>17, <2>2, <2>3, <2>4, PublishCases
<1>18. ASSUME NEW n \in Nodes, Crash(n) PROVE LocalTypes'
    BY <1>18 DEF Crash, Alive, Up, TaskTypes, LocalTypes
<1>19. CASE Tick
    BY <1>19 DEF Tick, TaskTypes, LocalTypes
<1>20. CASE UNCHANGED vars
    BY <1>20 DEF vars, TaskTypes, LocalTypes
<1>21. QED
    BY <1>1, <1>2, <1>3, <1>4, <1>5, <1>6, <1>7, <1>8, <1>9, <1>10, <1>11, <1>12, <1>13,
       <1>14, <1>15, <1>16, <1>17, <1>18, <1>19, <1>20
    DEF Next, ClientStep, TaskStep

\* The hashes keep their type.
LEMMA RedisTypesStep ==
    ASSUME TaskTypes, RedisTypes, [Next]_vars
    PROVE  RedisTypes'
<1>1. ASSUME NEW c \in Conns, Connect(c) PROVE RedisTypes'
    BY <1>1 DEF Connect, Goto, TaskTypes, RedisTypes
<1>2. ASSUME NEW c \in Conns, NEW t \in Topics, Track(c, t) PROVE RedisTypes'
    BY <1>2 DEF Track, Goto, TaskTypes, RedisTypes
<1>3. ASSUME NEW c \in Conns, NEW t \in Topics, Untrack(c, t) PROVE RedisTypes'
    BY <1>3 DEF Untrack, Goto, TaskTypes, RedisTypes
<1>4. ASSUME NEW c \in Conns, Close(c) PROVE RedisTypes'
    BY <1>4 DEF Close, Goto, TaskTypes, RedisTypes
<1>5. ASSUME NEW c \in Conns, HSet(c) PROVE RedisTypes'
    BY <1>5 DEF HSet, SharedStep, Goto, SameField, TaskTypes, RedisTypes
<1>6. ASSUME NEW c \in Conns, HDel(c) PROVE RedisTypes'
    BY <1>6 DEF HDel, SharedStep, Goto, RemoveFrom, TaskTypes, RedisTypes
<1>7. ASSUME NEW c \in Conns, HLen(c) PROVE RedisTypes'
    BY <1>7 DEF HLen, SharedStep, Goto, AfterKey, TaskTypes, RedisTypes
<1>8. ASSUME NEW c \in Conns, Del(c) PROVE RedisTypes'
    BY <1>8 DEF Del, SharedStep, Goto, AfterKey, RemoveFrom, TaskTypes, RedisTypes
<1>9. ASSUME NEW c \in Conns, Scan(c) PROVE RedisTypes'
    BY <1>9 DEF Scan, SharedStep, Goto, TaskTypes, RedisTypes
<1>10. ASSUME NEW c \in Conns, EachKey(c) PROVE RedisTypes'
    BY <1>10 DEF EachKey, SharedStep, Goto, TaskTypes, RedisTypes
<1>11. ASSUME NEW c \in Conns, Join(c) PROVE RedisTypes'
    BY <1>11 DEF Join, Goto, TaskTypes, RedisTypes
<1>12. ASSUME NEW c \in Conns, Leave(c) PROVE RedisTypes'
    BY <1>12 DEF Leave, Goto, AfterTopic, TaskTypes, RedisTypes
<1>13. ASSUME NEW c \in Conns, Iterate(c) PROVE RedisTypes'
    BY <1>13 DEF Iterate, Goto, AfterTopic, TaskTypes, RedisTypes
<1>14. ASSUME NEW c \in Conns, Prune(c) PROVE RedisTypes'
    BY <1>14 DEF Prune, RemoveIf, Goto, AfterTopic, TaskTypes, RedisTypes
<1>15. ASSUME NEW c \in Conns, Collect(c) PROVE RedisTypes'
    BY <1>15 DEF Collect, Goto, TaskTypes, RedisTypes
<1>16. ASSUME NEW c \in Conns, EachTopic(c) PROVE RedisTypes'
    BY <1>16 DEF EachTopic, Goto, TaskTypes, RedisTypes
<1>17. ASSUME NEW c \in Conns, Publish(c) PROVE RedisTypes'
    BY <1>17 DEF Publish, Goto, TaskTypes, RedisTypes
<1>18. ASSUME NEW n \in Nodes, Crash(n) PROVE RedisTypes'
    BY <1>18 DEF Crash, Alive, Up, TaskTypes, RedisTypes
<1>19. CASE Tick
    BY <1>19 DEF Tick, TaskTypes, RedisTypes
<1>20. CASE UNCHANGED vars
    BY <1>20 DEF vars, TaskTypes, RedisTypes
<1>21. QED
    BY <1>1, <1>2, <1>3, <1>4, <1>5, <1>6, <1>7, <1>8, <1>9, <1>10, <1>11, <1>12, <1>13,
       <1>14, <1>15, <1>16, <1>17, <1>18, <1>19, <1>20
    DEF Next, ClientStep, TaskStep

-----------------------------------------------------------------------------
\* A step of connection c leaves the place and the sets of the others alone.
Apart(c) == \A d \in Conns \ {c} :
    /\ at'[d] = at[d] /\ topic'[d] = topic[d] /\ todo'[d] = todo[d]
    /\ out'[d] = out[d] /\ joined'[d] = joined[d]
    /\ d \in closing' <=> d \in closing

\* No task touches what belongs to another.
LEMMA OthersStay ==
    ASSUME TaskTypes, LocalTypes, NEW c \in Conns, ClientStep(c) \/ TaskStep(c)
    PROVE  Apart(c)
<1>1. CASE Connect(c)
    BY <1>1 DEF Connect, Goto, Apart, TaskTypes, LocalTypes
<1>2. ASSUME NEW t \in Topics, Track(c, t) PROVE Apart(c)
    BY <1>2 DEF Track, Goto, Apart, TaskTypes, LocalTypes
<1>3. ASSUME NEW t \in Topics, Untrack(c, t) PROVE Apart(c)
    BY <1>3 DEF Untrack, Goto, Apart, TaskTypes, LocalTypes
<1>4. CASE Close(c)
    BY <1>4 DEF Close, Goto, Apart, TaskTypes, LocalTypes
<1>5. CASE HSet(c)
    BY <1>5 DEF HSet, SharedStep, Goto, SameField, Apart, TaskTypes, LocalTypes
<1>6. CASE HDel(c)
    BY <1>6 DEF HDel, SharedStep, Goto, RemoveFrom, Apart, TaskTypes, LocalTypes
<1>7. CASE HLen(c)
    BY <1>7 DEF HLen, SharedStep, Goto, AfterKey, Apart, TaskTypes, LocalTypes
<1>8. CASE Del(c)
    BY <1>8 DEF Del, SharedStep, Goto, AfterKey, RemoveFrom, Apart, TaskTypes, LocalTypes
<1>9. CASE Scan(c)
    BY <1>9 DEF Scan, SharedStep, Goto, Apart, TaskTypes, LocalTypes
<1>10. CASE EachKey(c)
    BY <1>10 DEF EachKey, SharedStep, Goto, Apart, TaskTypes, LocalTypes
<1>11. CASE Join(c)
    BY <1>11 DEF Join, Goto, Apart, TaskTypes, LocalTypes
<1>12. CASE Leave(c)
  <2>1. CASE topic[c] \in keys[nodeOf[c]]
    <3>1. Removes(c) /\ UNCHANGED <<topic, closing, todo, out>>
      BY <1>12, <2>1, LeaveFound
    <3>2. QED
      BY <3>1 DEF Apart, Removes, TaskTypes
  <2>2. CASE topic[c] \notin keys[nodeOf[c]]
    BY <1>12, <2>2, LeaveMissed DEF Apart, TaskTypes
  <2>3. QED
    BY <2>1, <2>2
<1>13. CASE Iterate(c)
    BY <1>13 DEF Iterate, Goto, AfterTopic, Apart, TaskTypes, LocalTypes
<1>14. CASE Prune(c)
    BY <1>14 DEF Prune, RemoveIf, Goto, AfterTopic, Apart, TaskTypes, LocalTypes
<1>15. CASE Collect(c)
    BY <1>15 DEF Collect, Goto, Apart, TaskTypes, LocalTypes
<1>16. CASE EachTopic(c)
    BY <1>16 DEF EachTopic, Goto, Apart, TaskTypes, LocalTypes
<1>17. CASE Publish(c)
  <2>1. ASSUME NEW s \in out[c], Sends(c, s) \/ Refused(c, s) PROVE Apart(c)
    BY <1>17, <2>1, PublishCases DEF Apart, Sends, Refused, LocalTypes
  <2>2. CASE Sent(c)
    BY <1>17, <2>2, PublishCases DEF Apart, Sent, TaskTypes
  <2>3. QED
    BY <1>17, <2>1, <2>2, PublishCases
<1>18. QED
    BY <1>1, <1>2, <1>3, <1>4, <1>5, <1>6, <1>7, <1>8, <1>9, <1>10, <1>11, <1>12, <1>13,
       <1>14, <1>15, <1>16, <1>17 DEF ClientStep, TaskStep

-----------------------------------------------------------------------------
\* Steps that leave the trackers and their histories alone.
Elsewhere(c) ==
    \/ ClientStep(c) \/ HSet(c) \/ HDel(c) \/ HLen(c) \/ Del(c) \/ Scan(c) \/ EachKey(c)
    \/ Collect(c) \/ EachTopic(c)

\* They change neither a tracker nor what is published of it.
LEMMA ElsewhereKeeps ==
    ASSUME NEW c \in Conns, Elsewhere(c)
    PROVE  /\ UNCHANGED <<nodeOf, shared, removed, out, keys, members, joined, told, unsent>>
           /\ at[c] \notin {"join", "leave", "iterate", "prune", "publish"}
BY DEF Elsewhere, ClientStep, Connect, Close, Track, Untrack, HSet, HDel, HLen, Del, Scan, EachKey,
       Collect, EachTopic, SharedStep

\* PresenceTracker::track: what it does to the tracker.
Joins(c) ==
    /\ \A n \in Nodes, t \in Topics :
          members'[n][t] = IF n = nodeOf[c] /\ t = topic[c] THEN members[n][t] \cup {c}
                           ELSE members[n][t]
    /\ \A d \in Conns : joined'[d] = IF d = c THEN joined[d] \cup {topic[c]} ELSE joined[d]
    /\ \A n \in Nodes, t \in Topics :
          told'[n][t] = IF n = nodeOf[c] /\ t = topic[c] THEN "no" ELSE told[n][t]

\* track does that, and takes the snapshot to publish.
LEMMA JoinEffect ==
    ASSUME TaskTypes, LocalTypes, NEW c \in Conns, Join(c)
    PROVE  /\ at[c] = "join"
           /\ keys' = [keys EXCEPT ![nodeOf[c]] = @ \cup {topic[c]}]
           /\ Joins(c)
           /\ out' = [out EXCEPT ![c] = {<<topic[c], members'[nodeOf[c]][topic[c]]>>}]
           /\ at' = [at EXCEPT ![c] = "publish"]
           /\ UNCHANGED <<nodeOf, shared, topic, closing, todo, removed, hash, kept, unsent>>
<1>1. /\ at[c] = "join"
      /\ keys' = [keys EXCEPT ![nodeOf[c]] = @ \cup {topic[c]}]
      /\ members' = [members EXCEPT ![nodeOf[c]][topic[c]] = @ \cup {c}]
      /\ joined' = [joined EXCEPT ![c] = @ \cup {topic[c]}]
      /\ told' = [told EXCEPT ![nodeOf[c]][topic[c]] = "no"]
      /\ out' = [out EXCEPT ![c] = {<<topic[c], members'[nodeOf[c]][topic[c]]>>}]
      /\ at' = [at EXCEPT ![c] = "publish"]
      /\ UNCHANGED <<nodeOf, shared, topic, closing, todo, removed, hash, kept, unsent>>
    BY DEF Join, Goto
<1>2. nodeOf[c] \in Nodes /\ topic[c] \in Topics
    BY DEF TaskTypes
<1>3. \A n \in Nodes, t \in Topics :
         members'[n][t] = IF n = nodeOf[c] /\ t = topic[c] THEN members[n][t] \cup {c}
                          ELSE members[n][t]
    BY <1>1, <1>2 DEF LocalTypes
<1>4. \A n \in Nodes, t \in Topics :
         told'[n][t] = IF n = nodeOf[c] /\ t = topic[c] THEN "no" ELSE told[n][t]
    BY <1>1, <1>2 DEF LocalTypes
<1>5. \A d \in Conns : joined'[d] = IF d = c THEN joined[d] \cup {topic[c]} ELSE joined[d]
    BY <1>1, <1>2 DEF LocalTypes
<1>6. QED
    BY <1>1, <1>3, <1>4, <1>5 DEF Joins

\* Crash: a node loses what it holds, the others keep what they hold.
Forgets(m) ==
    /\ \A n \in Nodes : keys'[n] = IF n = m THEN {} ELSE keys[n]
    /\ \A n \in Nodes, t \in Topics :
          /\ members'[n][t] = IF n = m THEN {} ELSE members[n][t]
          /\ told'[n][t] = IF n = m THEN "now" ELSE told[n][t]

\* A crash does that; the node's connections are gone and linger in the store.
LEMMA CrashEffect ==
    ASSUME TaskTypes, LocalTypes, NEW m \in Nodes, Crash(m)
    PROVE  /\ UNCHANGED <<nodeOf, shared, topic, hash, unsent>>
           /\ \A c \in Alive(m) : /\ at'[c] = "gone" /\ out'[c] = {} /\ joined'[c] = {}
                                  /\ c \notin closing'
                                  /\ \A t \in Topics : c \in kept'[t]
           /\ \A c \in Conns \ Alive(m) :
                 /\ at'[c] = at[c] /\ out'[c] = out[c] /\ joined'[c] = joined[c]
                 /\ todo'[c] = todo[c] /\ (c \in closing' <=> c \in closing)
                 /\ removed[c] => removed'[c]
           /\ \A t \in Topics : kept[t] \subseteq kept'[t]
           /\ Forgets(m)
<1>1. UNCHANGED <<nodeOf, shared, topic, hash, unsent>>
    BY DEF Crash
<1>2. \A c \in Alive(m) : /\ at'[c] = "gone" /\ out'[c] = {} /\ joined'[c] = {}
                          /\ c \notin closing'
                          /\ \A t \in Topics : c \in kept'[t]
    BY DEF Crash, Alive
<1>3. \A c \in Conns \ Alive(m) :
         /\ at'[c] = at[c] /\ out'[c] = out[c] /\ joined'[c] = joined[c]
         /\ todo'[c] = todo[c] /\ (c \in closing' <=> c \in closing)
    BY DEF Crash, Alive
<1>4. \A c \in Conns \ Alive(m) : removed[c] => removed'[c]
    BY Zenon DEF Crash, TaskTypes
<1>5. /\ \A t \in Topics : kept[t] \subseteq kept'[t]
      /\ \A n \in Nodes : keys'[n] = IF n = m THEN {} ELSE keys[n]
    BY DEF Crash, LocalTypes
<1>6. \A n \in Nodes, t \in Topics :
         /\ members'[n][t] = IF n = m THEN {} ELSE members[n][t]
         /\ told'[n][t] = IF n = m THEN "now" ELSE told[n][t]
    BY DEF Crash, LocalTypes
<1>7. QED
    BY <1>1, <1>2, <1>3, <1>4, <1>5, <1>6 DEF Forgets

-----------------------------------------------------------------------------
\* The tracker's steps keep it exact.
LEMMA ExactStep ==
    ASSUME TaskTypes, LocalTypes, Leaving, Exact, [Next]_vars
    PROVE  Exact'
<1>1. CASE UNCHANGED <<members, joined, nodeOf>>
    BY <1>1 DEF Exact
<1>2. ASSUME NEW c \in Conns, Join(c) PROVE Exact'
  <2>1. nodeOf' = nodeOf /\ Joins(c)
    BY <1>2, JoinEffect
  <2>2. ASSUME NEW n \in Nodes, NEW t \in Topics, NEW d \in Conns
        PROVE  d \in members'[n][t] <=> t \in joined'[d] /\ nodeOf'[d] = n
    <3>1. /\ d \in members'[n][t] <=> d \in members[n][t] \/ (d = c /\ n = nodeOf[c] /\ t = topic[c])
          /\ t \in joined'[d] <=> t \in joined[d] \/ (d = c /\ t = topic[c])
      <4>1. /\ members'[n][t] = IF n = nodeOf[c] /\ t = topic[c] THEN members[n][t] \cup {c}
                                ELSE members[n][t]
            /\ joined'[d] = IF d = c THEN joined[d] \cup {topic[c]} ELSE joined[d]
        BY <2>1, Zenon DEF Joins
      <4>2. QED
        BY <4>1
    <3>2. QED
      BY <2>1, <3>1 DEF Exact
  <2>3. QED
    BY <2>2 DEF Exact
<1>3. ASSUME NEW c \in Conns, Leave(c) PROVE Exact'
  <2>1. CASE topic[c] \in keys[nodeOf[c]]
    <3>1. Removes(c) /\ nodeOf' = nodeOf
      BY <1>3, <2>1, LeaveFound
    <3>2. ASSUME NEW n \in Nodes, NEW t \in Topics, NEW d \in Conns
          PROVE  d \in members'[n][t] <=> t \in joined'[d] /\ nodeOf'[d] = n
      <4>1. /\ d \in members'[n][t]
                 <=> d \in members[n][t] /\ ~(d = c /\ n = nodeOf[c] /\ t = topic[c])
            /\ t \in joined'[d] <=> t \in joined[d] /\ ~(d = c /\ t = topic[c])
        <5>1. /\ members'[n][t] = IF n = nodeOf[c] /\ t = topic[c] THEN members[n][t] \ {c}
                                  ELSE members[n][t]
              /\ joined'[d] = IF d = c THEN joined[d] \ {topic[c]} ELSE joined[d]
          BY <3>1, Zenon DEF Removes
        <5>2. QED
          BY <5>1
      <4>2. QED
        BY <3>1, <4>1 DEF Exact
    <3>3. QED
      BY <3>2 DEF Exact
  <2>2. CASE topic[c] \notin keys[nodeOf[c]]
    BY <1>1, <1>3, <2>2, LeaveMissed
  <2>3. QED
    BY <2>1, <2>2
<1>4. ASSUME NEW m \in Nodes, Crash(m) PROVE Exact'
  <2>1. \A c \in Conns : nodeOf[c] = m => joined'[c] = {}
    <3>1. SUFFICES ASSUME NEW c \in Conns, nodeOf[c] = m PROVE joined'[c] = {}
      OBVIOUS
    <3>2. CASE c \in Alive(m)
      BY <1>4, <3>2, CrashEffect
    <3>3. CASE c \notin Alive(m)
      <4>1. at[c] \in {"off", "gone"}
        BY <3>1, <3>3 DEF Alive, Up
      <4>2. joined[c] = {} /\ joined'[c] = joined[c]
        BY <1>4, <3>3, <4>1, CrashEffect DEF Leaving, LeavingOf
      <4>3. QED
        BY <4>2
    <3>4. QED
      BY <3>2, <3>3
  <2>2. \A c \in Conns : nodeOf[c] # m => joined'[c] = joined[c]
    BY <1>4, CrashEffect DEF Alive
  <2>3. nodeOf' = nodeOf /\ Forgets(m)
    BY <1>4, CrashEffect
  <2>4. QED
    BY <2>1, <2>2, <2>3 DEF Exact, Forgets
<1>5. ASSUME NEW c \in Conns, Elsewhere(c) PROVE Exact'
    BY <1>1, <1>5, ElsewhereKeeps
<1>6. ASSUME NEW c \in Conns, Iterate(c) \/ Prune(c) \/ Publish(c) PROVE Exact'
    BY <1>1, <1>6 DEF Iterate, Prune, RemoveIf, Publish
<1>7. CASE Tick \/ UNCHANGED vars
    BY <1>1, <1>7 DEF Tick, vars
<1>8. QED
    BY <1>2, <1>3, <1>4, <1>5, <1>6, <1>7 DEF Next, TaskStep, Elsewhere

\* The acting task keeps its own list of topics to leave ...
LEMMA LeavingOwn ==
    ASSUME TaskTypes, LocalTypes, Exact, Keyed, Leaving,
           NEW c \in Conns, ClientStep(c) \/ TaskStep(c)
    PROVE  LeavingOf(c)'
<1>1. CASE Connect(c)
    BY <1>1 DEF Connect, Goto, Leaving, LeavingOf, Ending, TaskTypes, LocalTypes, Steps, Idle
<1>2. ASSUME NEW t \in Topics, Track(c, t) PROVE LeavingOf(c)'
    BY <1>2 DEF Track, Goto, Leaving, LeavingOf, Ending, TaskTypes, LocalTypes, Steps, Idle
<1>3. ASSUME NEW t \in Topics, Untrack(c, t) PROVE LeavingOf(c)'
    BY <1>3 DEF Untrack, Goto, Leaving, LeavingOf, Ending, TaskTypes, LocalTypes, Steps, Idle
<1>4. CASE Close(c)
    BY <1>4 DEF Close, Goto, Leaving, LeavingOf, Ending, TaskTypes, LocalTypes, Steps, Idle
<1>5. CASE HSet(c)
    BY <1>5
    DEF HSet, SharedStep, Goto, SameField, Leaving, LeavingOf, Ending, TaskTypes, LocalTypes,
        Steps, Idle
<1>6. CASE HDel(c)
    BY <1>6
    DEF HDel, SharedStep, Goto, RemoveFrom, Leaving, LeavingOf, Ending, TaskTypes, LocalTypes,
        Steps, Idle
<1>7. CASE HLen(c)
    BY <1>7
    DEF HLen, SharedStep, Goto, AfterKey, Leaving, LeavingOf, Ending, TaskTypes, LocalTypes,
        Steps, Idle
<1>8. CASE Del(c)
    BY <1>8
    DEF Del, SharedStep, Goto, AfterKey, RemoveFrom, Leaving, LeavingOf, Ending, TaskTypes,
        LocalTypes, Steps, Idle
<1>9. CASE Scan(c)
    BY <1>9
    DEF Scan, SharedStep, Goto, Leaving, LeavingOf, Ending, TaskTypes, LocalTypes, Steps, Idle
<1>10. CASE EachKey(c)
    BY <1>10
    DEF EachKey, SharedStep, Goto, Leaving, LeavingOf, Ending, TaskTypes, LocalTypes, Steps, Idle
<1>11. CASE Join(c)
  <2>1. /\ at[c] = "join" /\ Joins(c) /\ at' = [at EXCEPT ![c] = "publish"]
        /\ UNCHANGED <<topic, closing, todo>>
    BY <1>11, JoinEffect
  <2>2. c \notin closing' /\ at'[c] = "publish"
    BY <2>1 DEF Leaving, LeavingOf, Ending, TaskTypes
  <2>3. QED
    BY <2>2 DEF LeavingOf
<1>12. CASE Leave(c)
  <2>1. CASE topic[c] \in keys[nodeOf[c]]
    <3>1. Removes(c) /\ at[c] = "leave" /\ UNCHANGED <<topic, closing, todo>>
      BY <1>12, <2>1, LeaveFound
    <3>2. joined'[c] = joined[c] \ {topic[c]} /\ at'[c] = "iterate"
      BY <3>1 DEF Removes, TaskTypes
    <3>3. QED
      BY <3>1, <3>2 DEF Leaving, LeavingOf, Ending
  <2>2. CASE topic[c] \notin keys[nodeOf[c]]
    <3>1. /\ at[c] = "leave"
          /\ at' = [at EXCEPT ![c] = IF c \in closing THEN "eachTopic" ELSE "publish"]
          /\ UNCHANGED <<topic, closing, todo, joined>>
      BY <1>12, <2>2, LeaveMissed
    <3>2. nodeOf[c] \in Nodes /\ topic[c] \in Topics
      BY DEF TaskTypes
    <3>3. members[nodeOf[c]][topic[c]] = {}
      BY <2>2, <3>2 DEF Keyed
    <3>4. topic[c] \notin joined[c]
      BY <3>2, <3>3 DEF Exact
    <3>5. QED
      BY <3>1, <3>4 DEF Leaving, LeavingOf, Ending, TaskTypes
  <2>3. QED
    BY <2>1, <2>2
<1>13. CASE Iterate(c)
    BY <1>13
    DEF Iterate, Goto, AfterTopic, Leaving, LeavingOf, Ending, TaskTypes, LocalTypes, Steps, Idle
<1>14. CASE Prune(c)
    BY <1>14
    DEF Prune, RemoveIf, Goto, AfterTopic, Leaving, LeavingOf, Ending, TaskTypes, LocalTypes,
        Steps, Idle
<1>15. CASE Collect(c)
  <2>1. nodeOf[c] \in Nodes /\ joined[c] \subseteq Topics
    BY DEF TaskTypes, LocalTypes
  <2>2. \A t \in joined[c] : members[nodeOf[c]][t] # {}
    BY <2>1 DEF Exact
  <2>3. joined[c] \subseteq keys[nodeOf[c]]
    BY <2>1, <2>2 DEF Keyed
  <2>4. QED
    BY <1>15, <2>3 DEF Collect, Goto, Leaving, LeavingOf, Ending, TaskTypes
<1>16. CASE EachTopic(c)
    BY <1>16 DEF EachTopic, Goto, Leaving, LeavingOf, Ending, TaskTypes, LocalTypes, Steps, Idle
<1>17. CASE Publish(c)
  <2>1. at[c] = "publish" /\ UNCHANGED <<topic, closing, todo, joined>>
    BY <1>17, PublishCases
  <2>2. ASSUME NEW s \in out[c], Sends(c, s) \/ Refused(c, s) PROVE LeavingOf(c)'
    BY <2>1, <2>2 DEF Sends, Refused, Leaving, LeavingOf
  <2>3. CASE Sent(c)
    BY <2>1, <2>3 DEF Sent, Leaving, LeavingOf, Ending, TaskTypes
  <2>4. QED
    BY <1>17, <2>2, <2>3, PublishCases
<1>18. QED
    BY <1>1, <1>2, <1>3, <1>4, <1>5, <1>6, <1>7, <1>8, <1>9, <1>10, <1>11, <1>12, <1>13,
       <1>14, <1>15, <1>16, <1>17 DEF ClientStep, TaskStep

\* ... and no step touches another's.
LEMMA LeavingStep ==
    ASSUME TaskTypes, LocalTypes, Exact, Keyed, Leaving, [Next]_vars
    PROVE  Leaving'
<1>1. ASSUME NEW c \in Conns, ClientStep(c) \/ TaskStep(c) PROVE Leaving'
  <2>1. LeavingOf(c)'
    BY <1>1, LeavingOwn
  <2>2. ASSUME NEW d \in Conns \ {c} PROVE LeavingOf(d)'
    <3>1. /\ at'[d] = at[d] /\ topic'[d] = topic[d] /\ todo'[d] = todo[d] /\ joined'[d] = joined[d]
          /\ d \in closing' <=> d \in closing
      BY <1>1, OthersStay DEF Apart
    <3>2. QED
      BY <3>1 DEF Leaving, LeavingOf
  <2>3. QED
    BY <2>1, <2>2 DEF Leaving
<1>2. ASSUME NEW m \in Nodes, Crash(m) PROVE Leaving'
    BY <1>2, CrashEffect DEF Leaving, LeavingOf, Ending
<1>3. CASE Tick \/ UNCHANGED vars
    BY <1>3 DEF Tick, vars, Leaving, LeavingOf
<1>4. QED
    BY <1>1, <1>2, <1>3 DEF Next

\* A step of c that leaves the maps alone and finds c elsewhere keeps the keys.
LEMMA KeyedStill ==
    ASSUME TaskTypes, LocalTypes, Keyed, NEW c \in Conns, ClientStep(c) \/ TaskStep(c),
           UNCHANGED <<nodeOf, keys, members>>, at[c] \notin {"iterate", "prune"}
    PROVE  Keyed'
<1>1. ASSUME NEW n \in Nodes, NEW t \in Topics, NEW d \in Conns, Prunes(d, n, t)
      PROVE  Prunes(d, n, t)'
  <2>1. d \in Conns \ {c}
    BY <1>1 DEF Prunes
  <2>2. at'[d] = at[d] /\ topic'[d] = topic[d]
    BY <2>1, OthersStay DEF Apart
  <2>3. QED
    BY <1>1, <2>2 DEF Prunes
<1>2. QED
    BY <1>1 DEF Keyed

\* A topic keeps its key while it has members or a task that will prune it.
LEMMA KeyedStep ==
    ASSUME TaskTypes, LocalTypes, Keyed, [Next]_vars
    PROVE  Keyed'
<1>1. ASSUME NEW c \in Conns, Elsewhere(c) PROVE Keyed'
  <2>1. UNCHANGED <<nodeOf, keys, members>> /\ at[c] \notin {"iterate", "prune"}
    BY <1>1, ElsewhereKeeps
  <2>2. ClientStep(c) \/ TaskStep(c)
    BY <1>1 DEF Elsewhere, TaskStep
  <2>3. QED
    BY <2>1, <2>2, KeyedStill
<1>2. ASSUME NEW c \in Conns, Publish(c) PROVE Keyed'
  <2>1. UNCHANGED <<nodeOf, keys, members>> /\ at[c] = "publish"
    BY <1>2, PublishCases
  <2>2. QED
    BY <1>2, <2>1, KeyedStill DEF TaskStep
<1>3. ASSUME NEW c \in Conns, TaskStep(c), NEW n \in Nodes, NEW t \in Topics, NEW d \in Conns,
             Prunes(d, n, t), nodeOf' = nodeOf, at[c] \in {"join", "leave"} \/ d # c
      PROVE  Prunes(d, n, t)'
  <2>1. d \in Conns \ {c}
    BY <1>3 DEF Prunes
  <2>2. at'[d] = at[d] /\ topic'[d] = topic[d]
    BY <1>3, <2>1, OthersStay DEF Apart
  <2>3. QED
    BY <1>3, <2>2 DEF Prunes
<1>4. ASSUME NEW c \in Conns, Join(c) PROVE Keyed'
  <2>0. nodeOf[c] \in Nodes /\ topic[c] \in Topics
    BY DEF TaskTypes
  <2>1. TaskStep(c) /\ at[c] = "join" /\ nodeOf' = nodeOf /\ Joins(c)
    BY <1>4, JoinEffect DEF TaskStep
  <2>2. SUFFICES ASSUME NEW n \in Nodes, NEW t \in Topics
                 PROVE  /\ members'[n][t] # {} => t \in keys'[n]
                        /\ t \in keys'[n] /\ members'[n][t] = {} => \E d \in Conns : Prunes(d, n, t)'
    BY DEF Keyed
  <2>3. /\ keys'[n] = IF n = nodeOf[c] THEN keys[n] \cup {topic[c]} ELSE keys[n]
        /\ members'[n][t] = IF n = nodeOf[c] /\ t = topic[c] THEN members[n][t] \cup {c}
                            ELSE members[n][t]
    <3>1. keys' = [keys EXCEPT ![nodeOf[c]] = @ \cup {topic[c]}]
      BY <1>4, JoinEffect
    <3>2. members'[n][t] = IF n = nodeOf[c] /\ t = topic[c] THEN members[n][t] \cup {c}
                           ELSE members[n][t]
      BY <2>1, Zenon DEF Joins
    <3>3. QED
      BY <2>0, <3>1, <3>2 DEF LocalTypes
  <2>4. CASE n = nodeOf[c] /\ t = topic[c]
    BY <2>3, <2>4
  <2>5. CASE ~(n = nodeOf[c] /\ t = topic[c])
    <3>1. members'[n][t] = members[n][t] /\ (t \in keys'[n] <=> t \in keys[n])
      BY <2>3, <2>5
    <3>2. QED
      BY <1>3, <2>1, <3>1 DEF Keyed
  <2>6. QED
    BY <2>4, <2>5
<1>5. ASSUME NEW c \in Conns, Leave(c) PROVE Keyed'
  <2>1. CASE topic[c] \notin keys[nodeOf[c]]
    BY <1>5, <2>1, LeaveMissed, KeyedStill DEF TaskStep
  <2>2. CASE topic[c] \in keys[nodeOf[c]]
    <3>1. Removes(c) /\ at[c] = "leave" /\ UNCHANGED <<nodeOf, topic, keys>> /\ TaskStep(c)
      BY <1>5, <2>2, LeaveFound DEF TaskStep
    <3>2. SUFFICES ASSUME NEW n \in Nodes, NEW t \in Topics
                   PROVE  /\ members'[n][t] # {} => t \in keys'[n]
                          /\ t \in keys'[n] /\ members'[n][t] = {}
                                => \E d \in Conns : Prunes(d, n, t)'
      BY DEF Keyed
    <3>3. CASE n = nodeOf[c] /\ t = topic[c]
      <4>1. at'[c] = "iterate"
        BY <3>1 DEF Removes, TaskTypes
      <4>2. Prunes(c, n, t)'
        BY <3>1, <3>3, <4>1 DEF Prunes
      <4>3. QED
        BY <2>2, <3>1, <3>3, <4>2
    <3>4. CASE ~(n = nodeOf[c] /\ t = topic[c])
      <4>1. members'[n][t] = members[n][t]
        BY <3>1, <3>4 DEF Removes
      <4>2. QED
        BY <1>3, <3>1, <4>1 DEF Keyed
    <3>5. QED
      BY <3>3, <3>4
  <2>3. QED
    BY <2>1, <2>2
<1>6. ASSUME NEW c \in Conns, Iterate(c) PROVE Keyed'
  <2>1. UNCHANGED <<nodeOf, keys, members, topic>> /\ at[c] = "iterate" /\ TaskStep(c)
    BY <1>6 DEF Iterate, TaskStep
  <2>2. members[nodeOf[c]][topic[c]] = {} => at'[c] = "prune"
    BY <1>6 DEF Iterate, Goto, TaskTypes
  <2>3. ASSUME NEW n \in Nodes, NEW t \in Topics, NEW d \in Conns, Prunes(d, n, t), members[n][t] = {}
        PROVE  Prunes(d, n, t)'
    BY <1>3, <2>1, <2>2, <2>3 DEF Prunes
  <2>4. QED
    BY <2>1, <2>3 DEF Keyed
<1>7. ASSUME NEW c \in Conns, Prune(c) PROVE Keyed'
  <2>1. UNCHANGED <<nodeOf, members>> /\ TaskStep(c) /\ nodeOf[c] \in Nodes
    BY <1>7 DEF Prune, RemoveIf, TaskStep, TaskTypes
  <2>2. \/ members[nodeOf[c]][topic[c]] # {} /\ keys' = keys
        \/ members[nodeOf[c]][topic[c]] = {} /\ keys' = [keys EXCEPT ![nodeOf[c]] = @ \ {topic[c]}]
    BY <1>7 DEF Prune, RemoveIf
  <2>3. SUFFICES ASSUME NEW n \in Nodes, NEW t \in Topics
                 PROVE  /\ members[n][t] # {} => t \in keys'[n]
                        /\ t \in keys'[n] /\ members[n][t] = {} => \E d \in Conns : Prunes(d, n, t)'
    BY <2>1 DEF Keyed
  <2>4. CASE n = nodeOf[c] /\ t = topic[c]
    BY <2>1, <2>2, <2>4 DEF Keyed, LocalTypes
  <2>5. CASE ~(n = nodeOf[c] /\ t = topic[c])
    <3>1. t \in keys'[n] <=> t \in keys[n]
      BY <2>1, <2>2, <2>5 DEF LocalTypes
    <3>2. \A d \in Conns : Prunes(d, n, t) => d # c
      BY <2>5 DEF Prunes
    <3>3. QED
      BY <1>3, <2>1, <3>1, <3>2 DEF Keyed
  <2>6. QED
    BY <2>4, <2>5
<1>8. ASSUME NEW m \in Nodes, Crash(m) PROVE Keyed'
  <2>1. SUFFICES ASSUME NEW n \in Nodes, NEW t \in Topics
                 PROVE  /\ members'[n][t] # {} => t \in keys'[n]
                        /\ t \in keys'[n] /\ members'[n][t] = {} => \E d \in Conns : Prunes(d, n, t)'
    BY DEF Keyed
  <2>2. /\ keys'[n] = IF n = m THEN {} ELSE keys[n]
        /\ members'[n][t] = IF n = m THEN {} ELSE members[n][t]
    <3>1. Forgets(m)
      BY <1>8, CrashEffect
    <3>2. QED
      BY <3>1, Zenon DEF Forgets
  <2>3. \A d \in Conns : nodeOf[d] # m => at'[d] = at[d] /\ topic'[d] = topic[d] /\ nodeOf'[d] = nodeOf[d]
    BY <1>8, CrashEffect DEF Alive
  <2>4. n # m => \A d \in Conns : Prunes(d, n, t) => Prunes(d, n, t)'
    BY <2>3 DEF Prunes
  <2>5. QED
    BY <2>2, <2>4 DEF Keyed
<1>9. CASE Tick \/ UNCHANGED vars
    BY <1>9 DEF Tick, vars, Keyed, Prunes
<1>10. QED
    BY <1>1, <1>2, <1>4, <1>5, <1>6, <1>7, <1>8, <1>9 DEF Next, TaskStep, Elsewhere

-----------------------------------------------------------------------------
\* The acting task holds snapshots only on the way to the bus ...
LEMMA OutOwn ==
    ASSUME TaskTypes, LocalTypes, OutAtRest, NEW c \in Conns, ClientStep(c) \/ TaskStep(c)
    PROVE  OutAtRestOf(c)'
<1>1. CASE Connect(c)
    BY <1>1 DEF Connect, Goto, OutAtRest, OutAtRestOf, TaskTypes, LocalTypes, Steps, Idle
<1>2. ASSUME NEW t \in Topics, Track(c, t) PROVE OutAtRestOf(c)'
    BY <1>2 DEF Track, Goto, OutAtRest, OutAtRestOf, TaskTypes, LocalTypes, Steps, Idle
<1>3. ASSUME NEW t \in Topics, Untrack(c, t) PROVE OutAtRestOf(c)'
    BY <1>3 DEF Untrack, Goto, OutAtRest, OutAtRestOf, TaskTypes, LocalTypes, Steps, Idle
<1>4. CASE Close(c)
    BY <1>4 DEF Close, Goto, OutAtRest, OutAtRestOf, TaskTypes, LocalTypes, Steps, Idle
<1>5. CASE HSet(c)
    BY <1>5
    DEF HSet, SharedStep, Goto, SameField, OutAtRest, OutAtRestOf, TaskTypes, LocalTypes,
        Steps, Idle
<1>6. CASE HDel(c)
    BY <1>6
    DEF HDel, SharedStep, Goto, RemoveFrom, OutAtRest, OutAtRestOf, TaskTypes, LocalTypes, Steps,
        Idle
<1>7. CASE HLen(c)
    BY <1>7
    DEF HLen, SharedStep, Goto, AfterKey, OutAtRest, OutAtRestOf, TaskTypes, LocalTypes, Steps,
        Idle
<1>8. CASE Del(c)
    BY <1>8
    DEF Del, SharedStep, Goto, AfterKey, RemoveFrom, OutAtRest, OutAtRestOf, TaskTypes,
        LocalTypes, Steps, Idle
<1>9. CASE Scan(c)
    BY <1>9
    DEF Scan, SharedStep, Goto, OutAtRest, OutAtRestOf, TaskTypes, LocalTypes, Steps, Idle
<1>10. CASE EachKey(c)
    BY <1>10
    DEF EachKey, SharedStep, Goto, OutAtRest, OutAtRestOf, TaskTypes, LocalTypes, Steps, Idle
<1>11. CASE Join(c)
    BY <1>11, JoinEffect DEF OutAtRestOf, TaskTypes
<1>12. CASE Leave(c)
  <2>1. CASE topic[c] \in keys[nodeOf[c]]
    <3>1. Removes(c)
      BY <1>12, <2>1, LeaveFound
    <3>2. at'[c] = "iterate"
      BY <3>1 DEF Removes, TaskTypes
    <3>3. QED
      BY <3>2 DEF OutAtRestOf
  <2>2. CASE topic[c] \notin keys[nodeOf[c]]
    BY <1>12, <2>2, LeaveMissed DEF OutAtRestOf, TaskTypes
  <2>3. QED
    BY <2>1, <2>2
<1>13. CASE Iterate(c)
    BY <1>13
    DEF Iterate, Goto, AfterTopic, OutAtRest, OutAtRestOf, TaskTypes, LocalTypes, Steps, Idle
<1>14. CASE Prune(c)
    BY <1>14
    DEF Prune, RemoveIf, Goto, AfterTopic, OutAtRest, OutAtRestOf, TaskTypes, LocalTypes, Steps,
        Idle
<1>15. CASE Collect(c)
    BY <1>15 DEF Collect, Goto, OutAtRest, OutAtRestOf, TaskTypes, LocalTypes, Steps, Idle
<1>16. CASE EachTopic(c)
    BY <1>16 DEF EachTopic, Goto, OutAtRest, OutAtRestOf, TaskTypes, LocalTypes, Steps, Idle
<1>17. CASE Publish(c)
  <2>1. at[c] = "publish"
    BY <1>17, PublishCases
  <2>2. ASSUME NEW s \in out[c], Sends(c, s) \/ Refused(c, s) PROVE OutAtRestOf(c)'
    BY <2>1, <2>2 DEF Sends, Refused, OutAtRestOf
  <2>3. CASE Sent(c)
    BY <2>1, <2>3 DEF Sent, OutAtRestOf
  <2>4. QED
    BY <1>17, <2>2, <2>3, PublishCases
<1>18. QED
    BY <1>1, <1>2, <1>3, <1>4, <1>5, <1>6, <1>7, <1>8, <1>9, <1>10, <1>11, <1>12, <1>13,
       <1>14, <1>15, <1>16, <1>17 DEF ClientStep, TaskStep

\* ... and no step gives another one a snapshot.
LEMMA OutStep ==
    ASSUME TaskTypes, LocalTypes, OutAtRest, [Next]_vars
    PROVE  OutAtRest'
<1>1. ASSUME NEW c \in Conns, ClientStep(c) \/ TaskStep(c) PROVE OutAtRest'
  <2>1. OutAtRestOf(c)'
    BY <1>1, OutOwn
  <2>2. ASSUME NEW d \in Conns \ {c} PROVE OutAtRestOf(d)'
    <3>1. at'[d] = at[d] /\ out'[d] = out[d]
      BY <1>1, OthersStay DEF Apart
    <3>2. QED
      BY <3>1 DEF OutAtRest, OutAtRestOf
  <2>3. QED
    BY <2>1, <2>2 DEF OutAtRest
<1>2. ASSUME NEW m \in Nodes, Crash(m) PROVE OutAtRest'
    BY <1>2, CrashEffect DEF OutAtRest, OutAtRestOf
<1>3. CASE Tick \/ UNCHANGED vars
    BY <1>3 DEF Tick, vars, OutAtRest, OutAtRestOf
<1>4. QED
    BY <1>1, <1>2, <1>3 DEF Next

\* A snapshot that another task carries stays current while its set does.
LEMMA OthersCarry ==
    ASSUME TaskTypes, LocalTypes, NEW c \in Conns, ClientStep(c) \/ TaskStep(c), nodeOf' = nodeOf,
           NEW n \in Nodes, NEW t \in Topics, NEW d \in Conns \ {c}, CarriedBy(d, n, t),
           members'[n][t] = members[n][t], removed[d] => removed'[d]
    PROVE  CarriedBy(d, n, t)'
<1>1. at'[d] = at[d] /\ topic'[d] = topic[d] /\ out'[d] = out[d]
    BY OthersStay DEF Apart
<1>2. <<t, members'[n][t]>> \in out'[d] \/ (at'[d] = "iterate" /\ topic'[d] = t /\ removed'[d])
    BY <1>1, Zenon DEF CarriedBy
<1>3. QED
    BY <1>2, Zenon DEF CarriedBy

\* Every change of a set that nobody was told of is carried to the bus.
LEMMA PendingStep ==
    ASSUME TaskTypes, LocalTypes, OutAtRest, Pending, [Next]_vars
    PROVE  Pending'
<1>1. ASSUME NEW c \in Conns, Elsewhere(c) PROVE Pending'
  <2>1. /\ UNCHANGED <<nodeOf, removed, out, members, told, unsent>>
        /\ at[c] # "iterate" /\ (ClientStep(c) \/ TaskStep(c))
    BY <1>1, ElsewhereKeeps DEF Elsewhere, TaskStep
  <2>2. ASSUME NEW n \in Nodes, NEW t \in Topics, NEW d \in Conns, CarriedBy(d, n, t)
        PROVE  CarriedBy(d, n, t)'
    <3>1. CASE d = c
      BY <2>1, <2>2, <3>1, Zenon DEF CarriedBy
    <3>2. CASE d # c
      BY <2>1, <2>2, <3>2, OthersCarry
    <3>3. QED
      BY <3>1, <3>2
  <2>3. QED
    BY <2>1, <2>2 DEF Pending, Carried
<1>2. ASSUME NEW c \in Conns, Join(c) PROVE Pending'
  <2>1. /\ at[c] = "join" /\ UNCHANGED <<nodeOf, removed, unsent, topic>> /\ TaskStep(c) /\ Joins(c)
        /\ out' = [out EXCEPT ![c] = {<<topic[c], members'[nodeOf[c]][topic[c]]>>}]
    BY <1>2, JoinEffect DEF TaskStep
  <2>2. SUFFICES ASSUME NEW n \in Nodes, NEW t \in Topics, told'[n][t] = "no"
                 PROVE  unsent'[n][t] \/ Carried(n, t)'
    BY DEF Pending
  <2>3. CASE n = nodeOf[c] /\ t = topic[c]
    <3>1. <<t, members'[n][t]>> \in out'[c]
      BY <2>1, <2>3 DEF LocalTypes
    <3>2. CarriedBy(c, n, t)'
      BY <2>1, <2>3, <3>1 DEF CarriedBy
    <3>3. QED
      BY <3>2 DEF Carried
  <2>4. CASE ~(n = nodeOf[c] /\ t = topic[c])
    <3>1. members'[n][t] = members[n][t] /\ told'[n][t] = told[n][t]
      BY <2>1, <2>4, Zenon DEF Joins
    <3>2. ASSUME NEW d \in Conns, CarriedBy(d, n, t) PROVE CarriedBy(d, n, t)'
      <4>1. d # c
        BY <2>1, <3>2 DEF CarriedBy, OutAtRest, OutAtRestOf
      <4>2. QED
        BY <2>1, <3>1, <3>2, <4>1, OthersCarry
    <3>3. QED
      BY <2>1, <2>2, <3>1, <3>2 DEF Pending, Carried
  <2>5. QED
    BY <2>3, <2>4
<1>3. ASSUME NEW c \in Conns, Leave(c) PROVE Pending'
  <2>1. CASE topic[c] \in keys[nodeOf[c]]
    <3>1. /\ at[c] = "leave" /\ Removes(c) /\ UNCHANGED <<nodeOf, unsent, topic, out>> /\ TaskStep(c)
      BY <1>3, <2>1, LeaveFound DEF TaskStep
    <3>2. /\ removed' = [removed EXCEPT ![c] = c \in members[nodeOf[c]][topic[c]]]
          /\ at'[c] = "iterate"
      <4>1. removed' = [removed EXCEPT ![c] = c \in members[nodeOf[c]][topic[c]]]
        BY <1>3, <2>1, Zenon DEF Leave
      <4>2. at'[c] = "iterate"
        BY <3>1 DEF Removes, TaskTypes
      <4>3. QED
        BY <4>1, <4>2
    <3>3. /\ c \in members[nodeOf[c]][topic[c]] => removed'[c]
          /\ \A d \in Conns \ {c} : removed[d] => removed'[d]
      BY <3>2, Zenon DEF TaskTypes
    <3>4. SUFFICES ASSUME NEW n \in Nodes, NEW t \in Topics, told'[n][t] = "no"
                   PROVE  unsent'[n][t] \/ Carried(n, t)'
      BY DEF Pending
    <3>5. CASE n = nodeOf[c] /\ t = topic[c] /\ c \in members[n][t]
      <4>1. CarriedBy(c, n, t)'
        BY <3>1, <3>2, <3>3, <3>5, Zenon DEF CarriedBy
      <4>2. QED
        BY <4>1 DEF Carried
    <3>6. CASE ~(n = nodeOf[c] /\ t = topic[c] /\ c \in members[n][t])
      <4>1. told'[n][t] = told[n][t]
        BY <3>1, <3>6, Zenon DEF Removes
      <4>2. members'[n][t] = members[n][t]
        <5>1. members'[n][t] = IF n = nodeOf[c] /\ t = topic[c] THEN members[n][t] \ {c}
                               ELSE members[n][t]
          BY <3>1, Zenon DEF Removes
        <5>2. QED
          BY <3>6, <5>1
      <4>3. ASSUME NEW d \in Conns, CarriedBy(d, n, t) PROVE CarriedBy(d, n, t)'
        <5>1. CASE d = c
          BY <3>1, <4>2, <4>3, <5>1, Zenon DEF CarriedBy
        <5>2. CASE d # c
          BY <3>1, <3>3, <4>2, <4>3, <5>2, OthersCarry
        <5>3. QED
          BY <5>1, <5>2
      <4>4. QED
        BY <3>1, <3>4, <4>1, <4>3 DEF Pending, Carried
    <3>7. QED
      BY <3>5, <3>6
  <2>2. CASE topic[c] \notin keys[nodeOf[c]]
    <3>1. /\ at[c] = "leave" /\ TaskStep(c)
          /\ UNCHANGED <<nodeOf, removed, out, members, told, unsent>>
      BY <1>3, <2>2, LeaveMissed DEF TaskStep
    <3>2. ASSUME NEW n \in Nodes, NEW t \in Topics, NEW d \in Conns, CarriedBy(d, n, t)
          PROVE  CarriedBy(d, n, t)'
      <4>1. CASE d = c
        BY <3>1, <3>2, <4>1, Zenon DEF CarriedBy
      <4>2. CASE d # c
        BY <3>1, <3>2, <4>2, OthersCarry
      <4>3. QED
        BY <4>1, <4>2
    <3>3. QED
      BY <3>1, <3>2 DEF Pending, Carried
  <2>3. QED
    BY <2>1, <2>2
<1>4. ASSUME NEW c \in Conns, Iterate(c) PROVE Pending'
  <2>1. /\ at[c] = "iterate" /\ TaskStep(c) /\ UNCHANGED <<nodeOf, members, told, unsent, topic>>
        /\ out' = IF removed[c] THEN [out EXCEPT ![c] = @ \cup {<<topic[c], members[nodeOf[c]][topic[c]]>>}]
                  ELSE out
        /\ removed' = [removed EXCEPT ![c] = FALSE]
    BY <1>4, Zenon DEF Iterate, TaskStep
  <2>2. \A d \in Conns \ {c} : removed[d] => removed'[d]
    BY <2>1, Zenon DEF TaskTypes
  <2>3. ASSUME NEW n \in Nodes, NEW t \in Topics, NEW d \in Conns, CarriedBy(d, n, t)
        PROVE  CarriedBy(d, n, t)'
    <3>1. CASE d # c
      BY <2>1, <2>2, <2>3, <3>1, OthersCarry
    <3>2. CASE d = c
      <4>1. out[c] \subseteq out'[c]
        BY <2>1 DEF LocalTypes
      <4>2. removed[c] => <<topic[c], members[nodeOf[c]][topic[c]]>> \in out'[c]
        BY <2>1 DEF LocalTypes
      <4>3. <<t, members[n][t]>> \in out'[c]
        BY <2>3, <3>2, <4>1, <4>2 DEF CarriedBy
      <4>4. QED
        BY <2>1, <2>3, <3>2, <4>3, Zenon DEF CarriedBy
    <3>3. QED
      BY <3>1, <3>2
  <2>4. QED
    BY <2>1, <2>3 DEF Pending, Carried
<1>5. ASSUME NEW c \in Conns, Prune(c) PROVE Pending'
  <2>1. /\ at[c] = "prune" /\ TaskStep(c)
        /\ UNCHANGED <<nodeOf, removed, out, members, told, unsent>>
    BY <1>5, Zenon DEF Prune, RemoveIf, TaskStep
  <2>2. ASSUME NEW n \in Nodes, NEW t \in Topics, NEW d \in Conns, CarriedBy(d, n, t)
        PROVE  CarriedBy(d, n, t)'
    <3>1. CASE d = c
      BY <2>1, <2>2, <3>1, Zenon DEF CarriedBy
    <3>2. CASE d # c
      BY <2>1, <2>2, <3>2, OthersCarry
    <3>3. QED
      BY <3>1, <3>2
  <2>3. QED
    BY <2>1, <2>2 DEF Pending, Carried
<1>6. ASSUME NEW c \in Conns, Publish(c) PROVE Pending'
  <2>1. at[c] = "publish" /\ TaskStep(c) /\ UNCHANGED <<nodeOf, removed, members, topic>>
    BY <1>6, PublishCases DEF TaskStep
  <2>2. nodeOf[c] \in Nodes /\ \A s \in out[c] : s[1] \in Topics /\ s = <<s[1], s[2]>>
    BY DEF TaskTypes, LocalTypes
  <2>3. ASSUME NEW s \in out[c], out' = [out EXCEPT ![c] = @ \ {s}],
               NEW n \in Nodes, NEW t \in Topics, s # <<t, members[n][t]>> \/ n # nodeOf[c],
               NEW d \in Conns, CarriedBy(d, n, t)
        PROVE  CarriedBy(d, n, t)'
    <3>1. CASE d # c
      BY <2>1, <2>3, <3>1, OthersCarry
    <3>2. CASE d = c
      <4>1. <<t, members[n][t]>> \in out[c] /\ nodeOf[c] = n
        BY <2>1, <2>3, <3>2 DEF CarriedBy
      <4>2. <<t, members[n][t]>> \in out'[c]
        BY <2>3, <4>1 DEF LocalTypes
      <4>3. QED
        BY <2>1, <3>2, <4>1, <4>2, Zenon DEF CarriedBy
    <3>3. QED
      BY <3>1, <3>2
  <2>4. ASSUME NEW s \in out[c], Sends(c, s) PROVE Pending'
    <3>1. SUFFICES ASSUME NEW n \in Nodes, NEW t \in Topics, told'[n][t] = "no"
                   PROVE  unsent'[n][t] \/ Carried(n, t)'
      BY DEF Pending
    <3>2. told[n][t] = "no" /\ (s # <<t, members[n][t]>> \/ n # nodeOf[c])
      <4>1. told' = [told EXCEPT ![nodeOf[c]][s[1]] =
                         IF s[2] = members[nodeOf[c]][s[1]] THEN "now"
                         ELSE IF @ = "no" THEN "no" ELSE "then"]
        BY <2>4 DEF Sends
      <4>2. CASE n = nodeOf[c] /\ t = s[1]
        <5>1. told'[n][t] = IF s[2] = members[n][t] THEN "now"
                            ELSE IF told[n][t] = "no" THEN "no" ELSE "then"
          BY <2>2, <4>1, <4>2 DEF LocalTypes
        <5>2. told[n][t] = "no" /\ s[2] # members[n][t]
          BY <3>1, <5>1
        <5>3. QED
          BY <5>2
      <4>3. CASE ~(n = nodeOf[c] /\ t = s[1])
        <5>1. told'[n][t] = told[n][t]
          BY <2>2, <4>1, <4>3 DEF LocalTypes
        <5>2. QED
          BY <3>1, <4>3, <5>1
      <4>4. QED
        BY <4>2, <4>3
    <3>3. QED
      BY <2>3, <2>4, <3>2 DEF Sends, Pending, Carried
  <2>5. ASSUME NEW s \in out[c], Refused(c, s) PROVE Pending'
    <3>1. SUFFICES ASSUME NEW n \in Nodes, NEW t \in Topics, told'[n][t] = "no"
                   PROVE  unsent'[n][t] \/ Carried(n, t)'
      BY DEF Pending
    <3>2. unsent' = [unsent EXCEPT ![nodeOf[c]][s[1]] = TRUE] /\ told' = told
      BY <2>5 DEF Refused
    <3>3. CASE n = nodeOf[c] /\ t = s[1]
      BY <2>2, <3>2, <3>3, Zenon DEF LocalTypes
    <3>4. CASE ~(n = nodeOf[c] /\ t = s[1])
      <4>1. unsent'[n][t] = unsent[n][t]
        BY <2>2, <3>2, <3>4 DEF LocalTypes
      <4>2. s # <<t, members[n][t]>> \/ n # nodeOf[c]
        BY <3>4
      <4>3. QED
        BY <2>3, <2>5, <3>1, <3>2, <4>1, <4>2 DEF Refused, Pending, Carried
    <3>5. QED
      BY <3>3, <3>4
  <2>6. CASE Sent(c)
    <3>1. ASSUME NEW n \in Nodes, NEW t \in Topics, NEW d \in Conns, CarriedBy(d, n, t)
          PROVE  CarriedBy(d, n, t)'
      <4>1. CASE d = c
        BY <2>1, <2>6, <3>1, <4>1 DEF CarriedBy, Sent
      <4>2. CASE d # c
        BY <2>1, <3>1, <4>2, OthersCarry
      <4>3. QED
        BY <4>1, <4>2
    <3>2. QED
      BY <2>6, <3>1 DEF Sent, Pending, Carried
  <2>7. QED
    BY <1>6, <2>4, <2>5, <2>6, PublishCases
<1>7. ASSUME NEW m \in Nodes, Crash(m) PROVE Pending'
  <2>1. SUFFICES ASSUME NEW n \in Nodes, NEW t \in Topics, told'[n][t] = "no"
                 PROVE  unsent'[n][t] \/ Carried(n, t)'
    BY DEF Pending
  <2>2. /\ members'[n][t] = IF n = m THEN {} ELSE members[n][t]
        /\ told'[n][t] = IF n = m THEN "now" ELSE told[n][t]
        /\ UNCHANGED <<nodeOf, topic, unsent>>
    <3>1. Forgets(m) /\ UNCHANGED <<nodeOf, topic, unsent>>
      BY <1>7, CrashEffect
    <3>2. QED
      BY <3>1, Zenon DEF Forgets
  <2>3. n # m /\ told[n][t] = "no" /\ members'[n][t] = members[n][t]
    BY <2>1, <2>2
  <2>4. ASSUME NEW d \in Conns, CarriedBy(d, n, t) PROVE CarriedBy(d, n, t)'
    <3>1. d \in Conns \ Alive(m)
      BY <2>3, <2>4 DEF CarriedBy, Alive
    <3>2. at'[d] = at[d] /\ out'[d] = out[d] /\ (removed[d] => removed'[d])
      BY <1>7, <3>1, CrashEffect, Zenon
    <3>3. QED
      BY <2>2, <2>3, <2>4, <3>2, Zenon DEF CarriedBy
  <2>5. QED
    BY <2>2, <2>3, <2>4 DEF Pending, Carried
<1>8. CASE Tick \/ UNCHANGED vars
  <2>1. UNCHANGED <<nodeOf, at, topic, removed, out, members, told, unsent>>
    BY <1>8 DEF Tick, vars
  <2>2. ASSUME NEW n \in Nodes, NEW t \in Topics, NEW d \in Conns, CarriedBy(d, n, t)
        PROVE  CarriedBy(d, n, t)'
    BY <2>1, <2>2, Zenon DEF CarriedBy
  <2>3. QED
    BY <2>1, <2>2 DEF Pending, Carried
<1>9. QED
    BY <1>1, <1>2, <1>3, <1>4, <1>5, <1>6, <1>7, <1>8 DEF Next, TaskStep, Elsewhere

-----------------------------------------------------------------------------
\* A step of c adds no other connection to a hash and does not touch what is
\* known of the others.
StoreApart(c) == \A t \in Topics : \A d \in Conns \ {c} :
    /\ d \in hash'[t] => d \in hash[t]
    /\ d \in kept'[t] <=> d \in kept[t]

\* Steps of the trackers: no Redis command.
LEMMA TrackerKeeps ==
    ASSUME NEW c \in Conns,
           Join(c) \/ Leave(c) \/ Iterate(c) \/ Prune(c) \/ Collect(c) \/ EachTopic(c) \/ Publish(c)
    PROVE  UNCHANGED <<shared, hash, kept>>
BY Zenon DEF Join, Leave, Iterate, Prune, Collect, EachTopic, Publish

\* A Redis command adds, misses and leaves behind only its own connection.
LEMMA StoreOthers ==
    ASSUME TaskTypes, RedisTypes, NEW c \in Conns, ClientStep(c) \/ TaskStep(c)
    PROVE  StoreApart(c)
<1>1. CASE ClientStep(c)
    BY <1>1 DEF ClientStep, Connect, Close, Track, Untrack, StoreApart
<1>2. CASE HSet(c)
    BY <1>2 DEF HSet, SameField, StoreApart, TaskTypes, RedisTypes
<1>3. CASE HDel(c)
    BY <1>3 DEF HDel, RemoveFrom, StoreApart, TaskTypes, RedisTypes
<1>4. CASE Del(c)
    BY <1>4 DEF Del, RemoveFrom, StoreApart, TaskTypes, RedisTypes
<1>5. CASE HLen(c) \/ EachKey(c)
    BY <1>5 DEF HLen, EachKey, StoreApart
<1>6. CASE Scan(c)
    BY <1>6 DEF Scan, StoreApart, RedisTypes
<1>7. CASE Join(c) \/ Leave(c) \/ Iterate(c) \/ Prune(c) \/ Collect(c) \/ EachTopic(c) \/ Publish(c)
    BY <1>7, TrackerKeeps DEF StoreApart
<1>8. QED
    BY <1>1, <1>2, <1>3, <1>4, <1>5, <1>6, <1>7 DEF TaskStep

\* Whether there is a shared store is settled at the start.
LEMMA SharedIsFixed ==
    ASSUME NEW c \in Conns, ClientStep(c) \/ TaskStep(c)
    PROVE  shared' = shared
<1>1. CASE Elsewhere(c)
    BY <1>1, ElsewhereKeeps
<1>2. CASE Join(c) \/ Leave(c) \/ Iterate(c) \/ Prune(c) \/ Collect(c) \/ EachTopic(c) \/ Publish(c)
    BY <1>2, TrackerKeeps
<1>3. QED
    BY <1>1, <1>2 DEF Elsewhere, TaskStep

\* The acting task accounts for its own field of the hash ...
LEMMA AccountedOwn ==
    ASSUME TaskTypes, LocalTypes, RedisTypes, Exact, Keyed, Leaving, Accounted,
           NEW c \in Conns, ClientStep(c) \/ TaskStep(c)
    PROVE  \A u \in Topics : AccountedOf(c, u)'
<1>1. CASE Connect(c)
    BY <1>1
    DEF Connect, Goto, Accounted, AccountedOf, Leaving, LeavingOf, Ending, TaskTypes, RedisTypes
<1>2. ASSUME NEW t \in Topics, Track(c, t) PROVE \A u \in Topics : AccountedOf(c, u)'
    BY <1>2
    DEF Track, Goto, Accounted, AccountedOf, Leaving, LeavingOf, Ending, TaskTypes, RedisTypes
<1>3. ASSUME NEW t \in Topics, Untrack(c, t) PROVE \A u \in Topics : AccountedOf(c, u)'
    BY <1>3
    DEF Untrack, Goto, Accounted, AccountedOf, Leaving, LeavingOf, Ending, TaskTypes, RedisTypes
<1>4. CASE Close(c)
    BY <1>4
    DEF Close, Goto, Accounted, AccountedOf, Leaving, LeavingOf, Ending, TaskTypes, RedisTypes
<1>5. CASE HSet(c)
    BY <1>5
    DEF HSet, SharedStep, Goto, SameField, Accounted, AccountedOf, Leaving, LeavingOf, Ending,
        TaskTypes, RedisTypes
<1>6. CASE HDel(c)
    BY <1>6
    DEF HDel, SharedStep, Goto, RemoveFrom, SameField, Accounted, AccountedOf, Leaving, LeavingOf, Ending,
        TaskTypes, RedisTypes
<1>7. CASE HLen(c)
    BY <1>7
    DEF HLen, SharedStep, Goto, AfterKey, Accounted, AccountedOf, Leaving, LeavingOf, Ending,
        TaskTypes, RedisTypes
<1>8. CASE Del(c)
    BY <1>8
    DEF Del, SharedStep, Goto, AfterKey, RemoveFrom, Accounted, AccountedOf, Leaving, LeavingOf,
        Ending, TaskTypes, RedisTypes
<1>9. CASE Scan(c)
    BY <1>9
    DEF Scan, SharedStep, Goto, Accounted, AccountedOf, Leaving, LeavingOf, Ending, TaskTypes,
        RedisTypes
<1>10. CASE EachKey(c)
    BY <1>10
    DEF EachKey, SharedStep, Goto, Accounted, AccountedOf, Leaving, LeavingOf, Ending, TaskTypes,
        RedisTypes
<1>11. CASE Join(c)
  <2>1. /\ at[c] = "join" /\ Joins(c) /\ at' = [at EXCEPT ![c] = "publish"]
        /\ UNCHANGED <<shared, topic, closing, todo, hash, kept>>
    BY <1>11, JoinEffect
  <2>2. joined'[c] = joined[c] \cup {topic[c]} /\ at'[c] = "publish" /\ c \notin closing
    BY <2>1 DEF Joins, Leaving, LeavingOf, Ending, TaskTypes
  <2>3. QED
    BY <2>1, <2>2 DEF Accounted, AccountedOf
<1>12. CASE Leave(c)
  <2>1. CASE topic[c] \in keys[nodeOf[c]]
    <3>1. Removes(c) /\ at[c] = "leave" /\ UNCHANGED <<shared, topic, closing, todo, hash, kept>>
      BY <1>12, <2>1, LeaveFound
    <3>2. joined'[c] = joined[c] \ {topic[c]} /\ at'[c] = "iterate"
      BY <3>1 DEF Removes, TaskTypes
    <3>3. QED
      BY <3>1, <3>2 DEF Accounted, AccountedOf
  <2>2. CASE topic[c] \notin keys[nodeOf[c]]
    <3>1. /\ at[c] = "leave"
          /\ at' = [at EXCEPT ![c] = IF c \in closing THEN "eachTopic" ELSE "publish"]
          /\ UNCHANGED <<shared, topic, closing, todo, joined, hash, kept>>
      BY <1>12, <2>2, LeaveMissed
    <3>2. nodeOf[c] \in Nodes /\ topic[c] \in Topics
      BY DEF TaskTypes
    <3>3. members[nodeOf[c]][topic[c]] = {}
      BY <2>2, <3>2 DEF Keyed
    <3>4. topic[c] \notin joined[c]
      BY <3>2, <3>3 DEF Exact
    <3>5. QED
      BY <3>1, <3>4 DEF Accounted, AccountedOf, TaskTypes
  <2>3. QED
    BY <2>1, <2>2
<1>13. CASE Iterate(c)
    BY <1>13
    DEF Iterate, Goto, AfterTopic, Accounted, AccountedOf, Leaving, LeavingOf, Ending, TaskTypes,
        RedisTypes
<1>14. CASE Prune(c)
    BY <1>14
    DEF Prune, RemoveIf, Goto, AfterTopic, Accounted, AccountedOf, Leaving, LeavingOf, Ending,
        TaskTypes, RedisTypes
<1>15. CASE Collect(c)
    BY <1>15
    DEF Collect, Goto, Accounted, AccountedOf, Leaving, LeavingOf, Ending, TaskTypes, RedisTypes
<1>16. CASE EachTopic(c)
    BY <1>16
    DEF EachTopic, Goto, Accounted, AccountedOf, Leaving, LeavingOf, Ending, TaskTypes, RedisTypes
<1>17. CASE Publish(c)
  <2>1. at[c] = "publish" /\ UNCHANGED <<shared, topic, closing, todo, joined, hash, kept>>
    BY <1>17, PublishCases
  <2>2. at'[c] \in {"publish", "gone", "idle"}
    <3>1. ASSUME NEW s \in out[c], Sends(c, s) \/ Refused(c, s) PROVE at'[c] = "publish"
      BY <2>1, <3>1 DEF Sends, Refused
    <3>2. CASE Sent(c)
      BY <3>2 DEF Sent, TaskTypes
    <3>3. QED
      BY <1>17, <3>1, <3>2, PublishCases
  <2>3. QED
    BY <2>1, <2>2 DEF Accounted, AccountedOf
<1>18. QED
    BY <1>1, <1>2, <1>3, <1>4, <1>5, <1>6, <1>7, <1>8, <1>9, <1>10, <1>11, <1>12, <1>13,
       <1>14, <1>15, <1>16, <1>17 DEF ClientStep, TaskStep

\* ... and no step adds another's, or forgets that it lingers.
LEMMA AccountedStep ==
    ASSUME TaskTypes, LocalTypes, RedisTypes, Exact, Keyed, Leaving, Accounted, [Next]_vars
    PROVE  Accounted'
<1>1. ASSUME NEW c \in Conns, ClientStep(c) \/ TaskStep(c) PROVE Accounted'
  <2>1. \A u \in Topics : AccountedOf(c, u)'
    BY <1>1, AccountedOwn
  <2>2. ASSUME NEW d \in Conns \ {c}, NEW t \in Topics PROVE AccountedOf(d, t)'
    <3>1. /\ at'[d] = at[d] /\ topic'[d] = topic[d] /\ todo'[d] = todo[d] /\ joined'[d] = joined[d]
          /\ d \in closing' <=> d \in closing
      BY <1>1, OthersStay DEF Apart
    <3>2. (d \in hash'[t] => d \in hash[t]) /\ (d \in kept'[t] <=> d \in kept[t])
      BY <1>1, StoreOthers DEF StoreApart
    <3>3. shared' = shared
      BY <1>1, SharedIsFixed
    <3>4. QED
      BY <3>1, <3>2, <3>3 DEF Accounted, AccountedOf
  <2>3. QED
    BY <2>1, <2>2 DEF Accounted
<1>2. ASSUME NEW m \in Nodes, Crash(m) PROVE Accounted'
  <2>1. ASSUME NEW c \in Conns, NEW t \in Topics PROVE AccountedOf(c, t)'
    <3>1. CASE c \in Alive(m)
      BY <1>2, <3>1, CrashEffect DEF AccountedOf
    <3>2. CASE c \notin Alive(m)
      <4>1. /\ at'[c] = at[c] /\ topic' = topic /\ todo'[c] = todo[c] /\ joined'[c] = joined[c]
            /\ (c \in closing' <=> c \in closing) /\ shared' = shared /\ hash' = hash
            /\ kept[t] \subseteq kept'[t]
        BY <1>2, <3>2, CrashEffect
      <4>2. QED
        BY <4>1 DEF Accounted, AccountedOf
    <3>3. QED
      BY <3>1, <3>2
  <2>2. QED
    BY <2>1 DEF Accounted
<1>3. CASE Tick
    BY <1>3 DEF Tick, Accounted, AccountedOf, RedisTypes
<1>4. CASE UNCHANGED vars
    BY <1>4 DEF vars, Accounted, AccountedOf
<1>5. QED
    BY <1>1, <1>2, <1>3, <1>4 DEF Next

-----------------------------------------------------------------------------
\* Nobody is connected, and every set is empty.
LEMMA PresenceStart ==
    ASSUME Init
    PROVE  PresenceInv
<1>1. TaskTypes
  <2>1. (CHOOSE t \in Topics : TRUE) \in Topics
    BY PresenceAssumption
  <2>2. QED
    BY <2>1, PresenceAssumption DEF Init, TaskTypes, Steps, Idle
<1>2. LocalTypes
    BY DEF Init, LocalTypes
<1>3. RedisTypes
    BY DEF Init, RedisTypes
<1>4. Exact /\ Keyed
    BY DEF Init, Exact, Keyed
<1>5. Leaving
    BY DEF Init, Leaving, LeavingOf
<1>6. OutAtRest
    BY DEF Init, OutAtRest, OutAtRestOf
<1>7. Pending
    BY DEF Init, Pending
<1>8. Accounted
    BY DEF Init, Accounted, AccountedOf
<1>9. QED
    BY <1>1, <1>2, <1>3, <1>4, <1>5, <1>6, <1>7, <1>8 DEF PresenceInv

\* Every step of every task, a crash and the passing of time keep the invariant.
LEMMA PresenceStep ==
    ASSUME PresenceInv, [Next]_vars
    PROVE  PresenceInv'
BY TaskTypesStep, LocalTypesStep, RedisTypesStep, ExactStep, KeyedStep, LeavingStep, OutStep,
   PendingStep, AccountedStep
DEF PresenceInv

\* The invariant holds in every state of every behaviour.
LEMMA PresenceHolds == Spec => []PresenceInv
<1>1. Init => PresenceInv
    BY PresenceStart
<1>2. PresenceInv /\ [Next]_vars => PresenceInv'
    BY PresenceStep
<1>3. QED
    BY <1>1, <1>2, PTL DEF Spec

\* PresenceTracker, for any number of connections, nodes, topics and faults: a
\* node lists under a topic exactly its connections that tracked it and have
\* not left, whichever untracks emptied and pruned the topic in between
\* (remove_if looks again), and at rest no empty topic keeps its key.
THEOREM LocalSetIsExact == Spec => []LocalSetExact
<1>1. ASSUME PresenceInv PROVE LocalSetExact
  <2>1. SUFFICES ASSUME NEW n \in Nodes, NEW t \in Topics
                 PROVE  /\ members[n][t] = {c \in On(t) : nodeOf[c] = n}
                        /\ Quiet => (t \in keys[n] <=> members[n][t] # {})
    BY DEF LocalSetExact
  <2>2. members[n][t] = {c \in On(t) : nodeOf[c] = n}
    <3>1. members[n][t] \subseteq Conns
      BY <1>1 DEF PresenceInv, LocalTypes
    <3>2. \A c \in Conns : c \in members[n][t] <=> t \in joined[c] /\ nodeOf[c] = n
      BY <1>1 DEF PresenceInv, Exact
    <3>3. QED
      BY <3>1, <3>2 DEF On
  <2>3. Quiet => \A d \in Conns : ~Prunes(d, n, t)
    BY DEF Quiet, Idle, Prunes
  <2>4. QED
    BY <1>1, <2>2, <2>3 DEF PresenceInv, Keyed
<1>2. QED
    BY <1>1, PresenceHolds, PTL

\* handle_track, untrack and remove_connection, for any number of connections,
\* nodes, topics and faults: when the tasks are at rest the current set of
\* every topic has been published since it last changed, unless the bus
\* refused a snapshot.
THEOREM FinalSetIsPublished == Spec => []FinalSetPublished
<1>1. ASSUME PresenceInv PROVE FinalSetPublished
  <2>1. SUFFICES ASSUME Quiet, NEW n \in Nodes, NEW t \in Topics, told[n][t] = "no"
                 PROVE  unsent[n][t]
    BY DEF FinalSetPublished
  <2>2. \A d \in Conns : out[d] = {} /\ at[d] # "iterate"
    BY <1>1, <2>1 DEF PresenceInv, OutAtRest, OutAtRestOf, Quiet, Idle
  <2>3. ~Carried(n, t)
    BY <2>2 DEF Carried, CarriedBy
  <2>4. QED
    BY <1>1, <2>1, <2>3 DEF PresenceInv, Pending
<1>2. QED
    BY <1>1, PresenceHolds, PTL

\* GET /v1/presence, for any number of connections, nodes, topics and faults,
\* and whatever ids the connections of different nodes share: at rest the answer
\* lists nobody but the members of the topic and, from the shared store, those
\* whose HDEL or SCAN failed or whose node crashed.
THEOREM QueryListsNoGhosts == Spec => []NoGhosts
<1>1. ASSUME PresenceInv PROVE NoGhosts
  <2>1. SUFFICES ASSUME Quiet, NEW n \in Nodes, NEW t \in Topics, NEW c \in PresenceQuery(n, t)
                 PROVE  t \in joined[c] \/ (shared /\ c \in kept[t])
    BY DEF NoGhosts
  <2>2. CASE shared
    <3>1. c \in hash[t] /\ c \in Conns
      BY <1>1, <2>2 DEF PresenceQuery, SharedMembers, PresenceInv, RedisTypes
    <3>2. at[c] # "join"
      BY <2>1, <3>1 DEF Quiet, Idle
    <3>3. QED
      BY <1>1, <2>2, <3>1, <3>2 DEF PresenceInv, Accounted, AccountedOf
  <2>3. CASE ~shared
    <3>1. c \in members[n][t] /\ c \in Conns
      BY <1>1, <2>3 DEF PresenceQuery, LocalMembers, PresenceInv, LocalTypes
    <3>2. QED
      BY <1>1, <3>1 DEF PresenceInv, Exact
  <2>4. QED
    BY <2>2, <2>3
<1>2. QED
    BY <1>1, PresenceHolds, PTL

=============================================================================
