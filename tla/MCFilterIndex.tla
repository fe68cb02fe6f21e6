---------------------------- MODULE MCFilterIndex ---------------------------
(* The two concurrent halves of the filter index: its slots under the
   registry (SubscriptionRegistry) and its circuit breaker.  The breaker sees
   of an evaluation only how long it took, so they share no state, and in a
   behaviour only one of them moves. *)
EXTENDS MCSubscriptionRegistry, CircuitBreaker

MCNext == \/ BreakerInit /\ Next /\ UNCHANGED breakerVars
          \/ Init /\ BreakerNext /\ UNCHANGED vars

(* The fairness of CircuitBreaker, in the behaviours where it moves. *)
MCFairness ==
    /\ \A t \in Threads : WF_<<vars, breakerVars>>(Init /\ ThreadStep(t) /\ UNCHANGED vars)
    /\ WF_<<vars, breakerVars>>(Init /\ Tick /\ UNCHANGED vars)

MCSpec == Init /\ BreakerInit /\ [][MCNext]_<<vars, breakerVars>> /\ MCFairness
=============================================================================
