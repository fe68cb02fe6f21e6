----------------------- MODULE MCSubscriptionRegistry -----------------------
(* SubscriptionRegistry with the filters, topics and events of FilterExpr:
   no filter, an equality, a disequality and a conjunction on two fields. *)
EXTENDS SubscriptionRegistry

FE == INSTANCE FilterExpr

V(t) == [kind |-> "String", text |-> t]

MCNoFilter == FE!NoFilter
EqF == FE!Eq("f", V("1"))
NeF == FE!Ne("f", V("1"))
InF == FE!In("f", <<V("1"), V("2")>>)
AndF == FE!And(FE!Eq("f", V("1")), FE!Eq("g", V("1")))

MCFields == {"f", "g"}
MCFilters == {MCNoFilter, EqF, NeF, InF, AndF}

MCPlan == [f \in MCFilters |-> FE!IndexPlan(f)]
MCFieldsOf == [f \in MCFilters |-> FE!CollectFields(f)]
MCExact == {f \in MCFilters : FE!IsFilterExact(f)}

(* Two patterns with an event on each topic; the values differ in field f. *)
Payload(f, g) == [x \in MCFields |-> IF x = "f" THEN V(f) ELSE V(g)]
MCEvents == {[topic |-> "a", data |-> Payload("1", "1")],
             [topic |-> "b", data |-> Payload("2", "1")]}
MCTopicMatch == {<<p, e>> \in Patterns \X MCEvents : p = e.topic \/ p = "*"}
MCEventKeys == [e \in MCEvents |-> FE!EventKeys(e.data, MCFields)]
MCSatisfies == {<<f, e>> \in MCFilters \X MCEvents : FE!Evaluate(f, e.data)}

R(id, pat, flt) == [id |-> id, pat |-> pat, flt |-> flt]

(* Clients of two connections that share the pattern "a". *)
MCSharedSubs == [c \in Conns |-> {R("s1", "a", MCNoFilter), R("s2", "a", EqF)}]
(* Each client uses patterns of its own; the topics they match overlap. *)
MCDisjointSubs == [c \in Conns |->
    IF c = CHOOSE d \in Conns : TRUE
    THEN {R("s1", "a", MCNoFilter), R("s2", "a", InF), R("s3", "a", NeF)}
    ELSE {R("s1", "*", AndF)}]
(* One client with overlapping patterns and every kind of filter. *)
MCOneClientSubs == [c \in Conns |->
    {r \in {R("s1", "a", MCNoFilter), R("s1", "*", AndF), R("s2", "a", InF), R("s2", "b", NeF),
            R("s3", "a", EqF)} : r.id \in SubIds}]

(* The hypotheses of the theorems about the functional invariants. *)
ASSUME PlansAreRight /\ (SubsOf = MCDisjointSubs => OwnPatterns)
=============================================================================
