----------------------------- MODULE LossyFifo ------------------------------
(***************************************************************************)
(* What the connections are promised about the events routed to them:      *)
(* events are numbered per topic in the order the router saw them; each is *)
(* delivered at most once to a connection, and in that order; under        *)
(* overload, or when the connection goes away, events may be lost, but     *)
(* never overtaken.                                                        *)
(***************************************************************************)
EXTENDS Naturals, Sequences

CONSTANTS Topics, Conns

VARIABLES count, \* events routed
          high,  \* last sequence number given out on each topic
          pipe,  \* pipe[c]: events underway to c
          out    \* out[c]: events delivered to c, in order

fifoVars == <<count, high, pipe, out>>

Init == /\ count = 0
        /\ high = [t \in Topics |-> 0]
        /\ pipe = [c \in Conns |-> {}]
        /\ out = [c \in Conns |-> <<>>]

\* A new event is numbered and sent on its way to some of the connections.
Route(t, targets) ==
    LET e == [topic |-> t, seq |-> high[t] + 1, nr |-> count + 1]
    IN  /\ count' = count + 1
        /\ high' = [high EXCEPT ![t] = @ + 1]
        /\ pipe' = [c \in Conns |-> IF c \in targets THEN pipe[c] \cup {e} ELSE pipe[c]]
        /\ UNCHANGED out

\* Some of the events underway to c are lost.
Lose(c) == /\ \E kept \in SUBSET pipe[c] : pipe' = [pipe EXCEPT ![c] = kept]
           /\ UNCHANGED <<count, high, out>>

\* First in, first out.
Deliver(c) == \E e \in pipe[c] :
    /\ \A other \in pipe[c] : e.nr <= other.nr
    /\ out' = [out EXCEPT ![c] = Append(@, e)]
    /\ pipe' = [pipe EXCEPT ![c] = @ \ {e}]
    /\ UNCHANGED <<count, high>>

Next == \/ \E t \in Topics, targets \in SUBSET Conns : Route(t, targets)
        \/ \E c \in Conns : Lose(c) \/ Deliver(c)

Spec == Init /\ [][Next]_fifoVars
=============================================================================
