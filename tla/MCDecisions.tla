---------------------------- MODULE MCDecisions -----------------------------
(* What the server decides about a client: Admission with two namespaces, two
   generations of the secret and the configurations that lead to different
   decisions, FilterDispatch on two fields, and what Usage charges for the
   connection time.  They share no state, so in a behaviour only one of them
   moves. *)
EXTENDS Admission, Usage, TLC

CONSTANTS Fields, Values, Operators, MaxClauses
VARIABLES request, filter, size, event

F == INSTANCE FilterDispatch

MCConfig(auth, secret, previous) ==
    [auth |-> auth, secret |-> secret, previous |-> previous, issuers |-> {"", "me"},
     requireIssuer |-> FALSE, fallback |-> "", mode |-> "", allowNoAuth |-> FALSE,
     protected |-> {}, origins |-> {""}]

MCConfigs == {MCConfig("hmac", 1, NoKey),
              [MCConfig("hmac", 2, 1) EXCEPT !.requireIssuer = TRUE, !.mode = "max",
                                             !.protected = {"b"}, !.origins = {"o1"}],
              [MCConfig("rsa", 2, 1) EXCEPT !.issuers = {}, !.fallback = "deny",
                                            !.protected = {"b"}],
              [MCConfig("none", 1, NoKey) EXCEPT !.mode = "max", !.origins = {"*"}],
              [MCConfig("none", 1, NoKey) EXCEPT !.mode = "max", !.allowNoAuth = TRUE]}

MCToken(key, exp, iss, namespaces) ==
    [key |-> key, exp |-> exp, iss |-> iss, namespaces |-> namespaces,
     publish |-> TRUE, subscribe |-> TRUE]

MCTokens == {MCToken(1, 1, "me", {"a"}), MCToken(1, 0, "", {}),
             [MCToken(2, 1, "me", {"b"}) EXCEPT !.publish = FALSE],
             MCToken(2, 1, "other", {"*"}), [MCToken(2, 0, "me", {"*"}) EXCEPT !.subscribe = FALSE]}

MCTexts == {<<"a", "x">>, <<"a", "">>, <<"*", "x">>, <<"b", "**">>, <<"**">>}

MCTopics == {<<"a", "x">>, <<"b", "x">>, <<"">>}
MCValues == {[kind |-> "String", text |-> "1"], [kind |-> "String", text |-> "2"]}

MCSymmetry == Permutations(Conns) \cup Permutations(Nodes) \cup Permutations(Tenants)

filterVars == <<request, filter, size, event>>

MCInit == Init /\ F!Init /\ UsageInit

MCEvent == CHOOSE e \in F!Events : TRUE

AdmissionQuiet == provider = Off /\ now = 0
FilterQuiet == size = 0 /\ event = MCEvent
UsageQuiet == /\ mode = "off" /\ clock = 0 /\ \A n \in Nodes : due[n] = 0
              /\ \A c, d \in Conns : phase[c] = "new" /\ nodeOf[c] = nodeOf[d]

MCNext == \/ FilterQuiet /\ UsageQuiet /\ Next /\ UNCHANGED <<filterVars, usageVars>>
          \/ AdmissionQuiet /\ UsageQuiet /\ F!Next /\ UNCHANGED <<vars, usageVars>>
          \/ AdmissionQuiet /\ FilterQuiet /\ UsageNext /\ UNCHANGED <<vars, filterVars>>

MCSpec == MCInit /\ [][MCNext]_<<vars, filterVars, usageVars>>

\* What for_each_match dispatches is what the filter means (FilterDispatch).
DispatchIsEvaluate == F!DispatchIsEvaluate

\* The clauses of the SUBSCRIBE frame decide what is delivered (FilterDispatch).
ClausesDecide == F!ClausesDecide

\* What the index counts and looks up is what it adds (FilterDispatch).
IndexIsCounted == F!IndexIsCounted
=============================================================================
