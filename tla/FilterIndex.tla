---------------------------- MODULE FilterIndex ----------------------------
(***************************************************************************)
(* The bitmap index of realtime-engine (filter_index/): a slab of dispatch *)
(* slots with a free list, an inverted index from composite keys to sets   *)
(* of slot ids, and an unfiltered set per pattern.                         *)
(*                                                                         *)
(* Every map is a DashMap or has a lock of its own, and an operation takes *)
(* them one after another, so add_subscription and remove_subscription are *)
(* sequences of atomic steps of the connection task that runs them (one    *)
(* task per connection; pc, cur, slot, work and tracked are its locals).   *)
(* Updates of entries that only the running task ever reads are merged     *)
(* into the neighbouring step.                                             *)
(*                                                                         *)
(* Filters are opaque here: the constants say what compilation yields for  *)
(* each one (module FilterExpr defines those operators from the source and *)
(* the MC module passes them in).  Slot ids are the positions 1..Len(slots)*)
(* of the slab, one more than the u32 of the code; 0 means "no slot".      *)
(***************************************************************************)
EXTENDS Naturals, Sequences, FiniteSets

CONSTANTS Conns,          \* connections (each is served by one task)
          SubIds,         \* subscription ids chosen by clients
          Patterns,       \* topic patterns
          Filters,        \* filters, Unconditional included
          Unconditional,  \* `filter: None`
          Fields,         \* field paths
          Plan,           \* Plan[f]: the map updates index_filter performs for f
          FieldsOf,       \* FieldsOf[f]: the fields collect_fields finds in f
          NoSub           \* an empty slab entry / an absent map entry

CONSTANTS MaxTotal,       \* limits.max_total_subscriptions
          MaxPatterns,    \* limits.max_patterns
          MaxPerPattern,  \* limits.max_subscriptions_per_pattern
          MaxKeys,        \* limits.max_composite_keys
          MaxFields       \* limits.max_fields_per_pattern

\* A Subscription; what a dispatch slot stores is the same data.
Sub == [conn : Conns, id : SubIds, pat : Patterns, flt : Filters]

SubKey == Conns \X SubIds
KeyOf(s) == <<s.conn, s.id>>

IsKey(step) == step.step = "key"

Steps == [step : {"key", "field", "unfiltered"}, field : Fields \cup {""}, text : STRING]

ASSUME IndexAssumption ==
    /\ NoSub \notin Sub
    /\ Unconditional \in Filters
    /\ Plan \in [Filters -> Seq(Steps)]
    /\ FieldsOf \in [Filters -> SUBSET Fields]
    /\ MaxTotal \in Nat /\ MaxPatterns \in Nat /\ MaxPerPattern \in Nat
    /\ MaxKeys \in Nat /\ MaxFields \in Nat

VARIABLES slots,       \* Vec<Option<DispatchSlot>>
          freeSlots,   \* free_slots: a stack of slot ids
          slotBySub,   \* slot_by_sub, 0 where absent
          index,       \* composite key <<pattern, key>> -> set of slot ids
          unfiltered,  \* pattern -> set of slot ids
          patterns,    \* patterns seen so far (never pruned)
          fields,      \* fields_by_pattern (never pruned)
          subKeys,     \* sub_keys: tracked composite keys per subscription
          keyCount,    \* stats.composite_key_count
          pc,          \* next step of each connection's task
          cur,         \* the subscription the task is adding or removing
          slot,        \* its slot id
          work,        \* map updates still to be done, as <<pattern, step>>
          tracked      \* composite keys tracked (add) or being removed (remove)

indexVars == <<slots, freeSlots, slotBySub, index, unfiltered, patterns, fields,
               subKeys, keyCount>>
localVars == <<pc, cur, slot, work, tracked>>

\* The composite keys "pattern\0field\0value" that can occur (make_index_key).
AllKeys == UNION {{Plan[f][i] : i \in {j \in DOMAIN Plan[f] : IsKey(Plan[f][j])}} : f \in Filters}
CompositeKeys == Patterns \X AllKeys

-----------------------------------------------------------------------------
\* check_limits: reads only; any failing test rejects the subscription before
\* a map is touched.  (Per-pattern subscriptions are counted on the unfiltered
\* bitmap alone, and fields already indexed count again: as in the code.)
KeyEstimate(f) == Len(SelectSeq(Plan[f], IsKey))

CheckLimits(s) ==
    /\ Cardinality({k \in SubKey : slotBySub[k] # 0}) < MaxTotal
    /\ s.pat \in patterns \/ Cardinality(patterns) < MaxPatterns
    /\ Cardinality(unfiltered[s.pat]) < MaxPerPattern
    /\ keyCount + KeyEstimate(s.flt) <= MaxKeys
    /\ s.flt = Unconditional \/ Cardinality(fields[s.pat]) + Cardinality(FieldsOf[s.flt]) <= MaxFields

\* Faulty variant: the id is read but stays on the free list.
AllocPopPeeks(c) ==
    /\ pc[c] = "alloc"
    /\ IF freeSlots = <<>>
       THEN pc' = [pc EXCEPT ![c] = "push"] /\ UNCHANGED slot
       ELSE /\ slot' = [slot EXCEPT ![c] = freeSlots[Len(freeSlots)]]
            /\ pc' = [pc EXCEPT ![c] = "write"]
    /\ UNCHANGED <<indexVars, cur, work, tracked>>

\* alloc_slot, under the free_slots mutex: pop an id, or find none.
AllocPop(c) ==
    /\ pc[c] = "alloc"
    /\ IF freeSlots = <<>>
       THEN /\ pc' = [pc EXCEPT ![c] = "push"]
            /\ UNCHANGED <<freeSlots, slot>>
       ELSE /\ slot' = [slot EXCEPT ![c] = freeSlots[Len(freeSlots)]]
            /\ freeSlots' = SubSeq(freeSlots, 1, Len(freeSlots) - 1)
            /\ pc' = [pc EXCEPT ![c] = "write"]
    /\ UNCHANGED <<slots, slotBySub, index, unfiltered, patterns, fields, subKeys, keyCount,
                   cur, work, tracked>>

\* alloc_slot, under the slots write lock: reuse the popped slot ...
AllocWrite(c) ==
    /\ pc[c] = "write"
    /\ slots' = [slots EXCEPT ![slot[c]] = cur[c]]
    /\ pc' = [pc EXCEPT ![c] = "register"]
    /\ UNCHANGED <<freeSlots, slotBySub, index, unfiltered, patterns, fields, subKeys, keyCount,
                   cur, slot, work, tracked>>

\* Faulty variant: the id is taken from the length after the push.
AllocPushLate(c) ==
    /\ pc[c] = "push"
    /\ slots' = Append(slots, cur[c])
    /\ slot' = [slot EXCEPT ![c] = Len(slots') + 1]
    /\ pc' = [pc EXCEPT ![c] = "register"]
    /\ UNCHANGED <<freeSlots, slotBySub, index, unfiltered, patterns, fields, subKeys, keyCount,
                   cur, work, tracked>>

\* ... or grow the slab.
AllocPush(c) ==
    /\ pc[c] = "push"
    /\ slots' = Append(slots, cur[c])
    /\ slot' = [slot EXCEPT ![c] = Len(slots) + 1]
    /\ pc' = [pc EXCEPT ![c] = "register"]
    /\ UNCHANGED <<freeSlots, slotBySub, index, unfiltered, patterns, fields, subKeys, keyCount,
                   cur, work, tracked>>

\* The plan of a subscription, with the pattern it is for.
PlanOf(s) == [i \in DOMAIN Plan[s.flt] |-> <<s.pat, Plan[s.flt][i]>>]

\* Faulty variant: the last update of the plan is never made.
RegisterShort(c) ==
    /\ pc[c] = "register"
    /\ patterns' = patterns \cup {cur[c].pat}
    /\ slotBySub' = [slotBySub EXCEPT ![KeyOf(cur[c])] = slot[c]]
    /\ work' = [work EXCEPT ![c] = SubSeq(PlanOf(cur[c]), 1, Len(PlanOf(cur[c])) - 1)]
    /\ tracked' = [tracked EXCEPT ![c] = <<>>]
    /\ pc' = [pc EXCEPT ![c] = "index"]
    /\ UNCHANGED <<slots, freeSlots, index, unfiltered, fields, subKeys, keyCount, cur, slot>>

\* add_subscription: register the pattern and the reverse lookup.  A second
\* subscription with the same (conn_id, sub_id) overwrites the entry.
Register(c) ==
    /\ pc[c] = "register"
    /\ patterns' = patterns \cup {cur[c].pat}
    /\ slotBySub' = [slotBySub EXCEPT ![KeyOf(cur[c])] = slot[c]]
    /\ work' = [work EXCEPT ![c] = PlanOf(cur[c])]
    /\ tracked' = [tracked EXCEPT ![c] = <<>>]
    /\ pc' = [pc EXCEPT ![c] = "index"]
    /\ UNCHANGED <<slots, freeSlots, index, unfiltered, fields, subKeys, keyCount, cur, slot>>

\* index_filter (or the unfiltered branch): one map update of the plan.
IndexStep(c) ==
    /\ pc[c] = "index"
    /\ work[c] # <<>>
    /\ LET ck == Head(work[c])
           p == ck[2]
       IN  \/ /\ p.step = "key"
              /\ index' = [index EXCEPT ![ck] = @ \cup {slot[c]}]
              /\ keyCount' = keyCount + 1
              /\ tracked' = [tracked EXCEPT ![c] = Append(@, ck)]
              /\ UNCHANGED <<unfiltered, fields>>
           \/ /\ p.step = "field"
              /\ fields' = [fields EXCEPT ![cur[c].pat] = @ \cup {p.field}]
              /\ UNCHANGED <<index, keyCount, tracked, unfiltered>>
           \/ /\ p.step = "unfiltered"
              /\ unfiltered' = [unfiltered EXCEPT ![cur[c].pat] = @ \cup {slot[c]}]
              /\ UNCHANGED <<index, keyCount, tracked, fields>>
    /\ work' = [work EXCEPT ![c] = Tail(@)]
    /\ UNCHANGED <<slots, freeSlots, slotBySub, patterns, subKeys, pc, cur, slot>>

-----------------------------------------------------------------------------
\* Faulty variant: free_slot leaves the entry in the slab.
FreeClearKeeps(c) ==
    /\ pc[c] = "clear"
    /\ pc' = [pc EXCEPT ![c] = "release"]
    /\ UNCHANGED <<indexVars, cur, slot, work, tracked>>

\* remove_subscription, once slot_by_sub gave up the slot id.
\* free_slot, under the slots write lock ...
FreeClear(c) ==
    /\ pc[c] = "clear"
    /\ slots' = [slots EXCEPT ![slot[c]] = NoSub]
    /\ pc' = [pc EXCEPT ![c] = "release"]
    /\ UNCHANGED <<freeSlots, slotBySub, index, unfiltered, patterns, fields, subKeys, keyCount,
                   cur, slot, work, tracked>>

\* ... then under the free_slots mutex.  From here on the id can be reused,
\* although its bits are still set.
FreeRelease(c) ==
    /\ pc[c] = "release"
    /\ freeSlots' = Append(freeSlots, slot[c])
    /\ pc' = [pc EXCEPT ![c] = "unfilter"]
    /\ UNCHANGED <<slots, slotBySub, index, unfiltered, patterns, fields, subKeys, keyCount,
                   cur, slot, work, tracked>>

\* Clear the bit in the unfiltered bitmap and take the tracked keys.
Unfilter(c) ==
    /\ pc[c] = "unfilter"
    /\ unfiltered' = [unfiltered EXCEPT ![cur[c].pat] = @ \ {slot[c]}]
    /\ work' = [work EXCEPT ![c] = subKeys[KeyOf(cur[c])]]
    /\ tracked' = [tracked EXCEPT ![c] = subKeys[KeyOf(cur[c])]]
    /\ subKeys' = [subKeys EXCEPT ![KeyOf(cur[c])] = <<>>]
    /\ pc' = [pc EXCEPT ![c] = "unindex"]
    /\ UNCHANGED <<slots, freeSlots, slotBySub, index, patterns, fields, keyCount, cur, slot>>

\* Clear the bit under one tracked key; after the last one, give the keys back
\* to the composite key counter (an AtomicU64: a negative count would wrap).
UnindexStep(c) ==
    /\ pc[c] = "unindex"
    /\ IF work[c] # <<>>
       THEN /\ index' = [index EXCEPT ![Head(work[c])] = @ \ {slot[c]}]
            /\ work' = [work EXCEPT ![c] = Tail(@)]
            /\ UNCHANGED <<keyCount, tracked, pc>>
       ELSE /\ keyCount' = keyCount - Len(tracked[c])
            /\ tracked' = [tracked EXCEPT ![c] = <<>>]
            /\ pc' = [pc EXCEPT ![c] = "next"]
            /\ UNCHANGED <<index, work>>
    /\ UNCHANGED <<slots, freeSlots, slotBySub, unfiltered, patterns, fields, subKeys, cur, slot>>

IndexInit ==
    /\ slots = <<>>
    /\ freeSlots = <<>>
    /\ slotBySub = [k \in SubKey |-> 0]
    /\ index = [k \in CompositeKeys |-> {}]
    /\ unfiltered = [p \in Patterns |-> {}]
    /\ patterns = {}
    /\ fields = [p \in Patterns |-> {}]
    /\ subKeys = [k \in SubKey |-> <<>>]
    /\ keyCount = 0
    /\ pc = [c \in Conns |-> "idle"]
    /\ cur = [c \in Conns |-> NoSub]
    /\ slot = [c \in Conns |-> 0]
    /\ work = [c \in Conns |-> <<>>]
    /\ tracked = [c \in Conns |-> <<>>]

IndexNext(c) ==
    \/ AllocPop(c) \/ AllocWrite(c) \/ AllocPush(c) \/ Register(c) \/ IndexStep(c)
    \/ FreeClear(c) \/ FreeRelease(c) \/ Unfilter(c) \/ UnindexStep(c)
=============================================================================
