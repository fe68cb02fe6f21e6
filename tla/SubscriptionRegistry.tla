------------------------ MODULE SubscriptionRegistry ------------------------
(***************************************************************************)
(* The subscription registry of realtime-engine (registry/) on top of its  *)
(* FilterIndex, as the gateway's connection tasks and the router use it:   *)
(* each connection's task subscribes, unsubscribes and finally removes the *)
(* connection, while the single router task evaluates events.              *)
(***************************************************************************)
EXTENDS FilterIndex, Integers

CONSTANTS SubsOf,       \* SubsOf[c]: the subscriptions the client of c may ask for
          FreshIds,     \* TRUE: clients never reuse an id that is still subscribed
          Events,       \* events the router may receive
          TopicMatch,   \* pattern and event pairs for which TopicPattern::matches
          KeysOfEvent,  \* KeysOfEvent[e]: the key of every field that e carries
          Satisfies,    \* filter and event pairs for which FilterExpr::evaluate
          Exact,        \* filters for which is_filter_exact
          MaxPerConn    \* limits.max_subscriptions_per_connection

ASSUME RegistryAssumption ==
    /\ SubsOf \in [Conns -> SUBSET [id : SubIds, pat : Patterns, flt : Filters]]
    /\ FreshIds \in BOOLEAN
    /\ TopicMatch \subseteq Patterns \X Events
    /\ KeysOfEvent \in [Events -> SUBSET Steps]
    /\ Satisfies \subseteq Filters \X Events
    /\ Exact \subseteq Filters
    /\ MaxPerConn \in Nat

\* The clients there are, and the ids they use.
ASSUME ClientsAssumption == IsFiniteSet(Conns) /\ Conns # {} /\ IsFiniteSet(SubIds)

\* The clients of different connections subscribe to different patterns.
PatsOf(c) == {r.pat : r \in SubsOf[c]}
OwnPatterns == \A c, d \in Conns : c # d => PatsOf(c) \cap PatsOf(d) = {}

\* What compilation owes the index (FilterExpr defines it): the field of every
\* key of a plan is registered; an event that satisfies a filter is found under
\* its plan; and one found under the plan of an exact filter satisfies it.
FoundUnder(f, e) == \E i \in DOMAIN Plan[f] : \/ Plan[f][i].step = "unfiltered"
                                              \/ IsKey(Plan[f][i]) /\ Plan[f][i] \in KeysOfEvent[e]
PlansAreRight ==
    \A f \in Filters :
        /\ \A i \in DOMAIN Plan[f] : IsKey(Plan[f][i]) =>
              \E j \in DOMAIN Plan[f] : Plan[f][j].step = "field" /\ Plan[f][j].field = Plan[f][i].field
        /\ \A e \in Events : /\ <<f, e>> \in Satisfies => FoundUnder(f, e)
                             /\ f \in Exact /\ FoundUnder(f, e) => <<f, e>> \in Satisfies

VARIABLES byConnection, \* by_connection: the entries of each connection, in order
          byTopic,      \* by_topic: <<pattern, conn, sub_id>> entries
          bySubId,      \* by_sub_id, NoSub where absent
          todo,         \* entries remove_connection has still to process
          alive,        \* connections whose session has not been cleaned up
          router        \* the router's evaluation in progress, or NoJob

regVars == <<byConnection, byTopic, bySubId, todo, alive>>
vars == <<indexVars, localVars, regVars, router>>

NoJob == [event |-> NoSub, path |-> "none", bitmap |-> {}]

Total == {k \in SubKey : bySubId[k] # NoSub}

\* Faulty variant: one subscription too many per connection.
SubscriptionGuardsLoose(c) ==
    /\ Len(byConnection[c]) <= MaxPerConn
    /\ Cardinality(Total) < MaxTotal

\* check_subscription_guards.
SubscriptionGuards(c) ==
    /\ Len(byConnection[c]) < MaxPerConn
    /\ Cardinality(Total) < MaxTotal

\* Faulty variant: no pre-flight check.
SubscribeUnchecked(c) ==
    /\ pc[c] = "idle"
    /\ c \in alive
    /\ \E r \in SubsOf[c] :
        /\ Len(byConnection[c]) < MaxPerConn
        /\ cur' = [cur EXCEPT ![c] = [conn |-> c, id |-> r.id, pat |-> r.pat, flt |-> r.flt]]
    /\ pc' = [pc EXCEPT ![c] = "alloc"]
    /\ UNCHANGED <<indexVars, slot, work, tracked, regVars, router>>

\* subscribe: guards and limits are read before anything is written; a
\* rejected request changes no map (only the rejection counter).
Subscribe(c) ==
    /\ pc[c] = "idle"
    /\ c \in alive
    /\ \E r \in SubsOf[c] :
        LET s == [conn |-> c, id |-> r.id, pat |-> r.pat, flt |-> r.flt]
        IN  /\ FreshIds => bySubId[KeyOf(s)] = NoSub
            /\ SubscriptionGuards(c)
            /\ CheckLimits(s)
            /\ cur' = [cur EXCEPT ![c] = s]
    /\ pc' = [pc EXCEPT ![c] = "alloc"]
    /\ UNCHANGED <<indexVars, slot, work, tracked, regVars, router>>

\* subscribe, after add_subscription returned: track the keys and link the
\* entry into the registry's own maps.
Link(c) ==
    /\ pc[c] = "index"
    /\ work[c] = <<>>
    /\ subKeys' = [subKeys EXCEPT ![KeyOf(cur[c])] = tracked[c]]
    /\ byConnection' = [byConnection EXCEPT ![c] = Append(@, cur[c])]
    /\ byTopic' = byTopic \cup {<<cur[c].pat, c, cur[c].id>>}
    /\ bySubId' = [bySubId EXCEPT ![KeyOf(cur[c])] = cur[c]]
    /\ tracked' = [tracked EXCEPT ![c] = <<>>]
    /\ pc' = [pc EXCEPT ![c] = "next"]
    /\ UNCHANGED <<slots, freeSlots, slotBySub, index, unfiltered, patterns, fields, keyCount,
                   cur, slot, work, todo, alive, router>>

\* The head of remove_subscription(entry): take the slot id out of
\* slot_by_sub; without one nothing is left to do for this entry.
Detach(c, entry) ==
    /\ bySubId' = [bySubId EXCEPT ![KeyOf(entry)] = NoSub]
    /\ slotBySub' = [slotBySub EXCEPT ![KeyOf(entry)] = 0]
    /\ IF slotBySub[KeyOf(entry)] = 0
       THEN /\ pc' = [pc EXCEPT ![c] = "next"]
            /\ UNCHANGED <<cur, slot>>
       ELSE /\ cur' = [cur EXCEPT ![c] = entry]
            /\ slot' = [slot EXCEPT ![c] = slotBySub[KeyOf(entry)]]
            /\ pc' = [pc EXCEPT ![c] = "clear"]
    /\ UNCHANGED <<slots, freeSlots, index, unfiltered, patterns, fields, subKeys, keyCount,
                   work, tracked>>

\* Vec::retain: the entries with another id, in their order.
Retain(entries, id) ==
    LET kept == {i \in DOMAIN entries : entries[i].id # id}
        Nth(n) == CHOOSE i \in kept : Cardinality({j \in kept : j <= i}) = n
    IN  [n \in 1..Cardinality(kept) |-> entries[Nth(n)]]

\* unsubscribe: unlink the entry, then remove it from the filter index.
Unsubscribe(c) ==
    /\ pc[c] = "idle"
    /\ c \in alive
    /\ \E id \in SubIds :
        LET entry == bySubId[<<c, id>>]
        IN  /\ entry # NoSub
            /\ byConnection' = [byConnection EXCEPT ![c] = Retain(@, id)]
            /\ byTopic' = byTopic \ {<<entry.pat, c, id>>}
            /\ Detach(c, entry)
    /\ UNCHANGED <<todo, alive, router>>

\* remove_connection: the connection's entries, taken out as a whole ...
RemoveConnection(c) ==
    /\ pc[c] = "idle"
    /\ c \in alive
    /\ alive' = alive \ {c}
    /\ todo' = [todo EXCEPT ![c] = byConnection[c]]
    /\ byConnection' = [byConnection EXCEPT ![c] = <<>>]
    /\ pc' = [pc EXCEPT ![c] = "next"]
    /\ UNCHANGED <<indexVars, cur, slot, work, tracked, byTopic, bySubId, router>>

\* ... and removed one by one.
RemoveEntry(c) ==
    /\ pc[c] = "next"
    /\ todo[c] # <<>>
    /\ byTopic' = {t \in byTopic : ~(t[1] = Head(todo[c]).pat /\ t[2] = c)}
    /\ Detach(c, Head(todo[c]))
    /\ todo' = [todo EXCEPT ![c] = Tail(@)]
    /\ UNCHANGED <<byConnection, alive, router>>

\* The operation returns to the connection's task.
Return(c) ==
    /\ pc[c] = "next"
    /\ todo[c] = <<>>
    /\ pc' = [pc EXCEPT ![c] = "idle"]
    /\ cur' = [cur EXCEPT ![c] = NoSub]
    /\ slot' = [slot EXCEPT ![c] = 0]
    /\ UNCHANGED <<indexVars, work, tracked, regVars, router>>

-----------------------------------------------------------------------------
\* evaluate_unfiltered_only / evaluate_inner: the union of the bitmaps of every
\* pattern that matches the event's topic.
MatchingPatterns(e) == {p \in patterns : <<p, e>> \in TopicMatch}

UnfilteredUnion(e) == UNION {unfiltered[p] : p \in MatchingPatterns(e)}

LookedUp(p, e) == {k \in KeysOfEvent[e] \cap AllKeys : k.field \in fields[p]}

FullUnion(e) ==
    UnfilteredUnion(e)
        \cup UNION {UNION {index[<<p, k>>] : k \in LookedUp(p, e)} : p \in MatchingPatterns(e)}

\* Faulty variant: no post-filter.
DispatchedUnchecked(bitmap, path, e) == {slots[i] : i \in bitmap} \ {NoSub}

\* dispatch_bitmap and the dispatch loop of for_each_match, under the slots
\* read lock: empty slots are skipped, inexact ones post-filtered.
Dispatched(bitmap, path, e) ==
    {s \in {slots[i] : i \in bitmap} \ {NoSub} :
        path = "full" => (s.flt \in Exact \/ <<s.flt, e>> \in Satisfies)}

\* for_each_match, first half; the circuit breaker chooses the path.
Evaluate(e, path) ==
    /\ router = NoJob
    /\ router' = [event |-> e, path |-> path,
                  bitmap |-> IF path = "full" THEN FullUnion(e) ELSE UnfilteredUnion(e)]
    /\ UNCHANGED <<indexVars, localVars, regVars>>

\* for_each_match, second half: the slab is only locked now, and what
\* Deliveries says at this moment is handed to the router's callback.
Deliveries == Dispatched(router.bitmap, router.path, router.event)

Dispatch ==
    /\ router # NoJob
    /\ router' = NoJob
    /\ UNCHANGED <<indexVars, localVars, regVars>>

-----------------------------------------------------------------------------
Init ==
    /\ IndexInit
    /\ byConnection = [c \in Conns |-> <<>>]
    /\ byTopic = {}
    /\ bySubId = [k \in SubKey |-> NoSub]
    /\ todo = [c \in Conns |-> <<>>]
    /\ alive = Conns
    /\ router = NoJob

ConnStep(c) ==
    \/ Subscribe(c) \/ Link(c) \/ Unsubscribe(c) \/ RemoveConnection(c) \/ RemoveEntry(c)
    \/ Return(c)
    \/ IndexNext(c) /\ UNCHANGED <<regVars, router>>

Next == \/ \E c \in Conns : ConnStep(c)
        \/ \E e \in Events, path \in {"full", "degraded"} : Evaluate(e, path)
        \/ Dispatch

Spec == Init /\ [][Next]_vars

-----------------------------------------------------------------------------
Ids == 1..Len(slots)

\* Types, by the part of the state.  The bounds of slot ids are BitmapInBounds.
SlabTypes == /\ slots \in Seq(Sub \cup {NoSub})
             /\ freeSlots \in Seq(Nat)

MapTypes == /\ slotBySub \in [SubKey -> Nat]
            /\ index \in [CompositeKeys -> SUBSET Nat]
            /\ unfiltered \in [Patterns -> SUBSET Nat]
            /\ patterns \subseteq Patterns
            /\ fields \in [Patterns -> SUBSET (Fields \cup {""})]
            /\ subKeys \in [SubKey -> Seq(CompositeKeys)]
            /\ keyCount \in Int

PCs == {"idle", "alloc", "write", "push", "register", "index", "clear", "release", "unfilter",
        "unindex", "next"}

LocalTypes == /\ pc \in [Conns -> PCs]
              /\ cur \in [Conns -> Sub \cup {NoSub}]
              /\ slot \in [Conns -> Nat]

WorkTypes == /\ work \in [Conns -> Seq(Patterns \X Steps)]
             /\ tracked \in [Conns -> Seq(CompositeKeys)]

RegTypes == /\ byConnection \in [Conns -> Seq(Sub)]
            /\ byTopic \subseteq Patterns \X Conns \X SubIds
            /\ bySubId \in [SubKey -> Sub \cup {NoSub}]
            /\ todo \in [Conns -> Seq(Sub)]
            /\ alive \subseteq Conns

RouterTypes ==
    router \in {NoJob} \cup [event : Events, path : {"full", "degraded"}, bitmap : SUBSET Nat]

TypeOK == SlabTypes /\ MapTypes /\ LocalTypes /\ WorkTypes /\ RegTypes /\ RouterTypes

\* The slot ids a task holds outside the maps: popped or pushed but not yet in
\* slot_by_sub, or taken out of slot_by_sub and not yet on the free list.
Holding(c) == pc[c] \in {"write", "register", "clear", "release"}

\* Each slot has at most one holder: two subscriptions never share a slot, and
\* a slot on the free list belongs to nobody, however adds and removes of
\* different connections interleave inside alloc_slot and free_slot.
SlotExclusive ==
    /\ \A i, j \in DOMAIN freeSlots : freeSlots[i] = freeSlots[j] => i = j
    /\ \A k, l \in SubKey : slotBySub[k] # 0 /\ slotBySub[k] = slotBySub[l] => k = l
    /\ \A c, d \in Conns : Holding(c) /\ Holding(d) /\ slot[c] = slot[d] => c = d
    /\ \A k \in SubKey : \A i \in DOMAIN freeSlots : slotBySub[k] # freeSlots[i]
    /\ \A c \in Conns : Holding(c) => /\ \A i \in DOMAIN freeSlots : slot[c] # freeSlots[i]
                                      /\ \A k \in SubKey : slot[c] # slotBySub[k]

\* A registered slot carries the subscription it was registered for, so a
\* dispatch through it reaches its owner; a free slot is empty.
OwnerAgrees ==
    /\ \A k \in SubKey : slotBySub[k] # 0 =>
            /\ slots[slotBySub[k]] # NoSub
            /\ KeyOf(slots[slotBySub[k]]) = k
    /\ \A i \in DOMAIN freeSlots : slots[freeSlots[i]] = NoSub

\* evaluate.rs:187, 234 and 295, the SAFETY argument of get_unchecked: a slot id
\* found in a bitmap "is always < slots.len()", also when the slab is read after
\* the bitmaps; and no id that is free or registered is outside the slab.
BitmapInBounds ==
    /\ \A i \in DOMAIN freeSlots : freeSlots[i] \in Ids
    /\ \A k \in SubKey : slotBySub[k] \in Ids \cup {0}
    /\ \A p \in Patterns : unfiltered[p] \subseteq Ids
    /\ \A k \in CompositeKeys : index[k] \subseteq Ids
    /\ router.bitmap \subseteq Ids

\* The composite key counter accounts exactly for the keys of registered
\* subscriptions and of operations in progress; it never underflows.
Positions(f, S) == UNION {{x} \X DOMAIN f[x] : x \in S}
KeyCountExact ==
    keyCount = Cardinality(Positions(subKeys, SubKey)) + Cardinality(Positions(tracked, Conns))

\* No task is inside an operation.
Quiescent == \A c \in Conns : pc[c] = "idle"

Live == {bySubId[k] : k \in Total}

\* The bits a subscription should have, and has: under every key of its plan,
\* or in the unfiltered bitmap.
FullyIndexed(s) ==
    \A i \in DOMAIN Plan[s.flt] :
        LET p == Plan[s.flt][i]
        IN  /\ p.step = "key" => slotBySub[KeyOf(s)] \in index[<<s.pat, p>>]
            /\ p.step = "unfiltered" => slotBySub[KeyOf(s)] \in unfiltered[s.pat]

\* A registered subscription whose own task is idle has all its bits, whatever
\* other connections are doing: otherwise it silently stops matching.
RegisteredIsIndexed ==
    \A k \in Total : pc[k[1]] = "idle" => FullyIndexed(bySubId[k])

\* Once a connection has been removed, no slot and no registry entry names it.
RemovedLeavesNothing ==
    \A c \in Conns \ alive : pc[c] = "idle" =>
        /\ \A i \in Ids : slots[i] = NoSub \/ slots[i].conn # c
        /\ \A id \in SubIds : bySubId[<<c, id>>] = NoSub /\ slotBySub[<<c, id>>] = 0
        /\ \A t \in byTopic : t[2] # c

\* The index gives everything back: what RemovedLeavesNothing says of slots and
\* entries, and the composite keys that the limit counts.
NothingLeaks == RemovedLeavesNothing /\ KeyCountExact

\* lookup_matches: the linear path through by_topic and by_sub_id.
LinearMatches(e) ==
    {bySubId[<<t[2], t[3]>>] :
        t \in {u \in byTopic : /\ <<u[1], e>> \in TopicMatch
                               /\ bySubId[<<u[2], u[3]>>] # NoSub
                               /\ <<bySubId[<<u[2], u[3]>>].flt, e>> \in Satisfies}}

\* Between operations the bitmap path answers exactly like the linear one.
BitmapEqualsLinear ==
    Quiescent => \A e \in Events : Dispatched(FullUnion(e), "full", e) = LinearMatches(e)

\* A subscription the full path dispatches to matches the event's topic and
\* its filter: "bitmap is exact, no post-filter needed" (evaluate.rs:191) must
\* still be true of the subscription found in the slot at dispatch time.
DeliveredMatches ==
    router.path = "full" =>
        \A s \in Deliveries : /\ <<s.pat, router.event>> \in TopicMatch
                              /\ <<s.flt, router.event>> \in Satisfies

\* limits.rs:19: FilterIndexLimits are "Hard caps on the filter index".
TotalWithinCap == Cardinality({k \in SubKey : slotBySub[k] # 0}) <= MaxTotal

\* Checking before inserting lets concurrent subscribers overshoot the cap, but
\* by no more than one subscription per other task.
OvershootBounded ==
    Cardinality({k \in SubKey : slotBySub[k] # 0}) <= MaxTotal + Cardinality(Conns) - 1

\* guards.rs: the per-connection cap is exact, although the guard reads it long
\* before the entry is pushed (also when a client subscribes an id again).
PerConnectionCap == \A c \in Conns : Len(byConnection[c]) <= MaxPerConn

\* mutate.rs:128: the per-pattern limit counts "unfiltered + filtered"
\* subscriptions, so no pattern ever has more registered than the limit.
PatternWithinCap ==
    \A p \in Patterns : Cardinality({s \in Live : s.pat = p}) <= MaxPerPattern
=============================================================================
