----------------------------- MODULE FilterExpr -----------------------------
(***************************************************************************)
(* Filter expressions of realtime-core (crates/realtime-core/src/filter)   *)
(* and the way realtime-engine compiles one into its bitmap index          *)
(* (crates/realtime-engine/src/filter_index).  Pure operators: recursive   *)
(* on the expression tree, so this module is used by TLC only.             *)
(*                                                                         *)
(* A FilterValue is [kind, text]: two values are equal when both agree     *)
(* (#[derive(PartialEq)] on the enum), and text is what to_string() prints *)
(* for it: Integer(1), Float(1.0) and String("1") share the text "1".      *)
(* An event is a function from field paths to a FilterValue or Missing,    *)
(* which is what envelope_field_getter_cached returns for each path.       *)
(***************************************************************************)
EXTENDS Naturals, Sequences

Missing == [kind |-> "Missing", text |-> ""]

\* The constructors of FilterExpr.
Eq(field, value)  == [op |-> "Eq", field |-> field, value |-> value]
Ne(field, value)  == [op |-> "Ne", field |-> field, value |-> value]
In(field, values) == [op |-> "In", field |-> field, values |-> values]
And(l, r)         == [op |-> "And", l |-> l, r |-> r]
Or(l, r)          == [op |-> "Or", l |-> l, r |-> r]
Not(inner)        == [op |-> "Not", inner |-> inner]

\* `filter: None` of a Subscription.
NoFilter == [op |-> "None"]

ElementsOf(s) == {s[i] : i \in DOMAIN s}

\* FilterExpr::evaluate: the reference meaning of a filter.
RECURSIVE Evaluate(_, _)
Evaluate(f, event) ==
    CASE f.op = "None" -> TRUE
      [] f.op = "Eq"   -> event[f.field] = f.value
      [] f.op = "Ne"   -> event[f.field] # f.value
      [] f.op = "In"   -> event[f.field] \in ElementsOf(f.values)
      [] f.op = "And"  -> Evaluate(f.l, event) /\ Evaluate(f.r, event)
      [] f.op = "Or"   -> Evaluate(f.l, event) \/ Evaluate(f.r, event)
      [] f.op = "Not"  -> ~Evaluate(f.inner, event)

\* parse_operator: one clause of the JSON object.
Leaf(c) == CASE c.operator = "eq" -> Eq(c.field, c.value)
             [] c.operator = "ne" -> Ne(c.field, c.value)
             [] c.operator = "in" -> In(c.field, c.values)

\* Faulty variant: clauses after the first are ignored.
FromJsonFirst(clauses) ==
    IF \/ clauses = <<>>
       \/ \E i \in DOMAIN clauses : clauses[i].operator \notin {"eq", "ne", "in"}
    THEN NoFilter
    ELSE Leaf(clauses[1])

\* FilterExpr::from_json: the clauses of one JSON object, ANDed from the left;
\* an empty object and an unknown operator both give no filter at all.
FromJson(clauses) ==
    LET conj[n \in 1..Len(clauses)] ==
            IF n = 1 THEN Leaf(clauses[1]) ELSE And(conj[n - 1], Leaf(clauses[n]))
    IN  IF \/ clauses = <<>>
           \/ \E i \in DOMAIN clauses : clauses[i].operator \notin {"eq", "ne", "in"}
        THEN NoFilter
        ELSE conj[Len(clauses)]

-----------------------------------------------------------------------------
(***************************************************************************)
(* Compilation into the index.  index_filter walks the tree and performs   *)
(* one map update at a time; its plan is the sequence of those updates:    *)
(* a composite key (field, text) gets the slot's bit, a field is added to  *)
(* fields_by_pattern, or the slot's bit goes to the unfiltered bitmap.     *)
(***************************************************************************)
KeyStep(field, text) == [step |-> "key", field |-> field, text |-> text]
FieldStep(field)     == [step |-> "field", field |-> field, text |-> ""]
UnfilteredStep       == [step |-> "unfiltered", field |-> "", text |-> ""]

\* FilterIndex::value_to_string: the kind of the value is lost.
ValueToString(value) == value.text

\* FilterIndex::index_filter (and the unfiltered branch of add_subscription).
RECURSIVE IndexPlan(_)
IndexPlan(f) ==
    CASE f.op = "Eq" -> << KeyStep(f.field, ValueToString(f.value)), FieldStep(f.field) >>
      [] f.op = "In" -> [i \in DOMAIN f.values |-> KeyStep(f.field, ValueToString(f.values[i]))]
                            \o << FieldStep(f.field) >>
      [] f.op \in {"And", "Or"} -> IndexPlan(f.l) \o IndexPlan(f.r)
      [] f.op \in {"Not", "Ne", "None"} -> << UnfilteredStep >>

\* FilterIndex::is_filter_exact (bitmap_exact of the dispatch slot).
RECURSIVE IsFilterExact(_)
IsFilterExact(f) ==
    CASE f.op \in {"None", "Eq", "In"}   -> TRUE
      [] f.op = "Or"                     -> IsFilterExact(f.l) /\ IsFilterExact(f.r)
      [] f.op \in {"And", "Ne", "Not"}   -> FALSE

\* Faulty variant: the estimate does not descend into And and Or.
CountTopKeys(f) == CASE f.op = "Eq" -> 1 [] f.op = "In" -> Len(f.values) [] OTHER -> 0

\* FilterIndex::count_keys_in_filter: the estimate the limit check uses.
RECURSIVE CountKeysInFilter(_)
CountKeysInFilter(f) ==
    CASE f.op = "Eq"                  -> 1
      [] f.op = "In"                  -> Len(f.values)
      [] f.op \in {"And", "Or"}       -> CountKeysInFilter(f.l) + CountKeysInFilter(f.r)
      [] f.op \in {"Not", "Ne", "None"} -> 0

\* FilterIndex::collect_fields, deduplicated as count_new_fields does.
RECURSIVE CollectFields(_)
CollectFields(f) ==
    CASE f.op = "None"                -> {}
      [] f.op \in {"Eq", "In", "Ne"}  -> {f.field}
      [] f.op \in {"And", "Or"}       -> CollectFields(f.l) \cup CollectFields(f.r)
      [] f.op = "Not"                 -> CollectFields(f.inner)

-----------------------------------------------------------------------------
(***************************************************************************)
(* What the compiled form answers for an event.                            *)
(***************************************************************************)
PlanSteps(f) == ElementsOf(IndexPlan(f))

\* The slot's bit is in the unfiltered bitmap of its pattern.
IsUnfiltered(f) == UnfilteredStep \in PlanSteps(f)
IndexedFields(f) == {s.field : s \in {p \in PlanSteps(f) : p.step = "field"}}
KeySequence(f) == SelectSeq(IndexPlan(f), LAMBDA s : s.step = "key")

\* The keys evaluate_inner looks up for an event: one per indexed field that
\* the event carries.
EventKeys(event, fields) ==
    {KeyStep(fl, ValueToString(event[fl])) : fl \in {x \in fields : event[x] # Missing}}

\* evaluate_inner: is the slot's bit in the union for this event?
InBitmap(f, event) ==
    \/ IsUnfiltered(f)
    \/ EventKeys(event, IndexedFields(f)) \cap PlanSteps(f) # {}

\* Faulty variant: no post-filter.
DispatchedUnchecked(f, event) == InBitmap(f, event)

\* for_each_match on a slot of the union: exact slots are dispatched at once,
\* the others are post-filtered.
DispatchedFull(f, event) ==
    InBitmap(f, event) /\ (IsFilterExact(f) \/ Evaluate(f, event))

\* for_each_match while the circuit is open: every slot of the unfiltered
\* bitmap is dispatched, without post-filtering.
DispatchedDegraded(f, event) == IsUnfiltered(f)
=============================================================================
