--------------------------- MODULE FilterDispatch ---------------------------
(***************************************************************************)
(* One subscription meets one event.  Its filter is parsed from the JSON   *)
(* clauses of a SUBSCRIBE frame, or built with the Or and Not constructors *)
(* of the crate's API, one clause at a time; in every state the compiled   *)
(* form (FilterExpr) is compared with the reference meaning Evaluate.      *)
(***************************************************************************)
EXTENDS FilterExpr

CONSTANTS Fields,      \* field paths used by filters
          Values,      \* FilterValues used by filters and events
          Operators,   \* JSON operator names a client may send
          MaxClauses   \* bound on the clauses of a filter

VARIABLES request,  \* the clauses of the JSON filter object
          filter,   \* the subscription's filter
          size,     \* number of leaves in it
          event     \* the event being routed

vars == <<request, filter, size, event>>

ValueLists == {<<>>} \cup (Values \X Values)

\* The value under an operator that from_json does not know is not looked at.
JsonClauses ==
    [operator : Operators \cap {"eq", "ne"}, field : Fields, value : Values]
        \cup [operator : Operators \cap {"in"}, field : Fields, values : ValueLists]
        \cup [operator : Operators \ {"eq", "ne", "in"}, field : Fields]

Leaves == {Eq(f, v) : f \in Fields, v \in Values} \cup {Ne(f, v) : f \in Fields, v \in Values}

Events == [Fields -> Values \cup {Missing}]

Init == /\ request = <<>>
        /\ filter = FromJson(<<>>)
        /\ size = 0
        /\ event \in Events

\* handle_subscribe: filter.and_then(|f| FilterExpr::from_json(&f)).
\* A JSON object has one value per field and operator.
JsonClause(c) == /\ filter = FromJson(request)
                 /\ size < MaxClauses
                 /\ \A i \in DOMAIN request :
                        <<request[i].field, request[i].operator>> # <<c.field, c.operator>>
                 /\ request' = Append(request, c)
                 /\ filter' = FromJson(request')
                 /\ size' = size + 1
                 /\ UNCHANGED event

\* FilterExpr::Or and FilterExpr::Not, reachable through the crate's API.
OrClause(leaf) == /\ filter # NoFilter
                  /\ size < MaxClauses
                  /\ filter' = Or(filter, leaf)
                  /\ size' = size + 1
                  /\ request' = <<>>
                  /\ UNCHANGED event

Negate == /\ filter # NoFilter
          /\ filter.op # "Not"
          /\ filter' = Not(filter)
          /\ request' = <<>>
          /\ UNCHANGED <<size, event>>

Next == \/ \E c \in JsonClauses : JsonClause(c)
        \/ \E leaf \in Leaves : OrClause(leaf)
        \/ Negate

Spec == Init /\ [][Next]_vars

-----------------------------------------------------------------------------
\* With the post-filter, what for_each_match dispatches on the normal path is
\* exactly what the linear path lookup_matches (plain evaluate) delivers: the
\* union of bitmaps misses no subscription whose filter the event satisfies
\* (a miss is a silently lost event), and bitmap_exact is claimed only where
\* the bitmap really is exact.
DispatchIsEvaluate == DispatchedFull(filter, event) <=> Evaluate(filter, event)

\* The pre-flight estimate of check_limits equals the number of composite keys
\* that index_filter will add and remove_subscription will give back; every key
\* belongs to a field that evaluate_inner looks up, and the fields-per-pattern
\* limit counted every field that gets indexed.
IndexIsCounted ==
    /\ CountKeysInFilter(filter) = Len(KeySequence(filter))
    /\ {s.field : s \in ElementsOf(KeySequence(filter))} \subseteq IndexedFields(filter)
    /\ IndexedFields(filter) \subseteq CollectFields(filter)

\* Whether one JSON clause holds of an event (clauses with an operator that
\* from_json does not know demand nothing here).
ClauseHolds(c, e) == CASE c.operator = "eq" -> e[c.field] = c.value
                       [] c.operator = "ne" -> e[c.field] # c.value
                       [] c.operator = "in" -> e[c.field] \in ElementsOf(c.values)
                       [] OTHER -> TRUE

\* An event is delivered exactly if it satisfies every clause of the SUBSCRIBE
\* frame, in whatever order and on whichever fields: clauses are neither lost
\* nor merged on the way into the index.  One exception: an operator that
\* from_json does not know makes it drop the whole filter, the known clauses
\* too, and the subscription takes every event (expr.rs:39).
ClausesDecide ==
    filter = FromJson(request) =>
        (DispatchedFull(filter, event) <=>
            \/ \E i \in DOMAIN request : request[i].operator \notin {"eq", "ne", "in"}
            \/ \A i \in DOMAIN request : ClauseHolds(request[i], event))

\* filter/mod.rs:15: a client attaches a filter "so that only events matching
\* the filter are delivered": a delivered event satisfies every clause that the
\* SUBSCRIBE frame carried.  Not so (README, deviations).
DeliveredSatisfiesClauses ==
    DispatchedFull(filter, event) => \A i \in DOMAIN request : ClauseHolds(request[i], event)

\* evaluate.rs:222, on dispatch_bitmap: while the circuit is open "all returned
\* slots are from the unfiltered bitmap and are inherently exact".
DegradedIsExact == DispatchedDegraded(filter, event) => Evaluate(filter, event)
=============================================================================
