----------------------------- MODULE MCPresence -----------------------------
EXTENDS Presence
CONSTANTS a, b, n1, n2

\* Both connections on one node, or one on each.
Together == [x \in Conns |-> n1]
Apart == [x \in Conns |-> IF x = a THEN n1 ELSE n2]
TogetherOrApart == {Together, Apart}
OnlyApart == {Apart}

\* Ids count from 1 on every node; Ahead: n2 has served a connection before.
Counted == [p \in Placements |-> [x \in Conns |-> IF x = a \/ p[x] # p[a] THEN 1 ELSE 2]]
Ahead == [p \in Placements |-> [x \in Conns |-> IF x = a THEN 1 ELSE 2]]
=============================================================================
