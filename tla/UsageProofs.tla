---------------------------- MODULE UsageProofs -----------------------------
(***************************************************************************)
(* Metering never charges for a second twice (NeverIsOverbilled), and      *)
(* charges for every second of a tenant whose one node flushes on time     *)
(* (OnTimeIsExact), for any number of connections, nodes and tenants, any  *)
(* window, and any faults.                                                 *)
(*                                                                         *)
(* The first is about sums over the nodes.  It is proved without them: the *)
(* seconds a tenant has used are numbered, and the invariant says that     *)
(* there is a table that gives every second to one place, a counter, a     *)
(* window under way, the bill, so that each place has at least as many as  *)
(* it shows.                                                               *)
(***************************************************************************)
EXTENDS Usage, FiniteSetTheorems, TLAPS

\* What the steps of the proofs need of the state.
UsageTypes ==
    /\ mode \in {"off", "tracing", "stream"} /\ clock \in Nat
    /\ nodeOf \in [Conns -> Nodes]
    /\ opened \in [Conns -> Nat] /\ \A c \in Conns : opened[c] <= clock
    /\ slot \in [Conns -> Tenants \cup {"none"}]
    /\ counters \in [Nodes -> [Tenants -> 0 .. MaxQty]]
    /\ due \in [Nodes -> Nat]
    /\ sending \in [Nodes -> SUBSET ((Tenants \X Nat) \X (1 .. MaxQty))]
    /\ ledger \subseteq Tenants \X Nat
    /\ billed \in [Tenants -> Nat] /\ used \in [Tenants -> Nat]
    /\ lossy \subseteq Tenants /\ late \subseteq Nodes /\ homes \in [Tenants -> SUBSET Nodes]

\* A drain makes one window of a tenant, and the next one waits for it.
OneWindow == \A n \in Nodes : \A v, w \in sending[n] : v[1][1] = w[1][1] => v = w

-----------------------------------------------------------------------------
\* Windows: the interval and the key are in step.

\* window_start_ms: a tick later by a window or more has a later key.
LEMMA WindowsAdvance ==
    ASSUME NEW d \in Nat, NEW e \in Nat, e >= d + Window
    PROVE  WindowStart(d) \in Nat /\ WindowStart(e) \in Nat /\ WindowStart(d) < WindowStart(e)
<1>1. Window \in Nat /\ Window > 0
    BY UsageAssumption
<1>2. \A x \in Nat : x % Window \in 0 .. Window - 1 /\ x % Window <= x
    BY <1>1
<1>3. QED
    BY <1>1, <1>2 DEF WindowStart

LEMMA WindowStartType == \A x \in Nat : WindowStart(x) \in Nat
<1>1. Window \in Nat /\ Window > 0
    BY UsageAssumption
<1>2. \A x \in Nat : x % Window \in 0 .. Window - 1 /\ x % Window <= x
    BY <1>1
<1>3. QED
    BY <1>1, <1>2 DEF WindowStart

\* MissedTickBehavior::Skip: the next tick is a window ahead at least.
LEMMA NextTickAhead ==
    ASSUME clock \in Nat, NEW d \in Nat, clock >= d
    PROVE  NextTick(d) \in Nat /\ NextTick(d) >= d + Window
<1>1. Window \in Nat /\ Window > 0
    BY UsageAssumption
<1> DEFINE missed == (clock - d) \div Window
<1>2. clock - d \in Nat
    OBVIOUS
<1>3. missed \in Nat
    BY <1>1, <1>2
<1> HIDE DEF missed
<1>4. missed * Window \in Nat /\ (missed + 1) * Window = missed * Window + Window
    BY <1>1, <1>3
<1>5. NextTick(d) = d + (missed + 1) * Window
    BY DEF NextTick, missed
<1>6. QED
    BY <1>1, <1>4, <1>5
-----------------------------------------------------------------------------
\* Record, for the tenant and the node of the connection that closes.
LEMMA CloseFacts ==
    ASSUME UsageTypes, NEW c \in Conns, CloseConn(c), ~(mode = "off" \/ slot[c] = "none")
    PROVE  /\ slot[c] \in Tenants /\ nodeOf[c] \in Nodes /\ clock - opened[c] \in Nat
           /\ counters' = [counters EXCEPT ![nodeOf[c]][slot[c]] =
                              Lesser(@ + (clock - opened[c]), MaxQty)]
           /\ lossy' = IF counters[nodeOf[c]][slot[c]] + (clock - opened[c]) > MaxQty
                       THEN lossy \cup {slot[c]} ELSE lossy
           /\ homes' = IF clock - opened[c] = 0 THEN homes
                       ELSE [homes EXCEPT ![slot[c]] = @ \cup {nodeOf[c]}]
           /\ used' = [used EXCEPT ![slot[c]] = @ + (clock - opened[c])]
    BY DEF UsageTypes, CloseConn, Record

LEMMA TypesInit == UsageInit => UsageTypes
<1> SUFFICES ASSUME UsageInit PROVE UsageTypes
    OBVIOUS
<1>1. Window \in Nat /\ MaxQty \in Nat
    BY UsageAssumption
<1>2. QED
    BY <1>1 DEF UsageInit, UsageTypes

LEMMA TypesStep == UsageTypes /\ [UsageNext]_usageVars => UsageTypes'
<1> SUFFICES ASSUME UsageTypes, [UsageNext]_usageVars PROVE UsageTypes'
    OBVIOUS
<1>0. Window \in Nat \ {0} /\ MaxQty \in Nat \ {0}
    BY UsageAssumption
<1>1. CASE Second
    BY <1>1 DEF Second, UsageTypes, connVars, flushVars, history
<1>2. ASSUME NEW c \in Conns, Open(c) PROVE UsageTypes'
    BY <1>2 DEF Open, UsageTypes, flushVars, history
<1>3. ASSUME NEW c \in Conns, NEW t \in Tenants, Authenticate(c, t) PROVE UsageTypes'
    BY <1>3 DEF Authenticate, UsageTypes, flushVars, history
<1>4. ASSUME NEW c \in Conns, CloseConn(c) PROVE UsageTypes'
    <2>1. /\ opened' \in [Conns -> Nat] /\ (\A d \in Conns : opened'[d] <= clock)
          /\ slot' \in [Conns -> Tenants \cup {"none"}]
          /\ UNCHANGED <<mode, clock, nodeOf, due, sending, ledger, billed, late>>
        BY <1>4 DEF CloseConn, UsageTypes
    <2>2. CASE mode = "off" \/ slot[c] = "none"
        BY <1>4, <2>1, <2>2 DEF CloseConn, UsageTypes
    <2>3. CASE ~(mode = "off" \/ slot[c] = "none")
        <3> DEFINE t == slot[c]
                   n == nodeOf[c]
                   secs == clock - opened[c]
        <3>1. /\ t \in Tenants /\ n \in Nodes /\ secs \in Nat
              /\ counters' = [counters EXCEPT ![n][t] = Lesser(@ + secs, MaxQty)]
              /\ lossy' \in SUBSET Tenants
              /\ homes' = IF secs = 0 THEN homes ELSE [homes EXCEPT ![t] = @ \cup {n}]
              /\ used' = [used EXCEPT ![t] = @ + secs]
            BY <1>4, <2>3, CloseFacts DEF UsageTypes
        <3> HIDE DEF t, n, secs
        <3>2. Lesser(counters[n][t] + secs, MaxQty) \in 0 .. MaxQty
            BY <1>0, <3>1 DEF Lesser, UsageTypes
        <3>3. counters' \in [Nodes -> [Tenants -> 0 .. MaxQty]]
            BY <3>1, <3>2 DEF UsageTypes
        <3>4. used' \in [Tenants -> Nat] /\ homes' \in [Tenants -> SUBSET Nodes]
            BY <3>1 DEF UsageTypes
        <3>5. QED
            BY <2>1, <3>1, <3>3, <3>4 DEF UsageTypes
    <2>4. QED
        BY <2>2, <2>3
<1>5. ASSUME NEW n \in Nodes, Drain(n) PROVE UsageTypes'
    <2>1. NextTick(due[n]) \in Nat
        BY <1>5, NextTickAhead DEF Drain, UsageTypes
    <2>2. WindowStart(clock) \in Nat
        BY WindowStartType DEF UsageTypes
    <2>3. {<<Key(t, clock), counters[n][t]>> : t \in Nonzero(n)}
             \in SUBSET ((Tenants \X Nat) \X (1 .. MaxQty))
        BY <1>0, <2>2 DEF Key, Nonzero, UsageTypes
    <2>4. sending' \in [Nodes -> SUBSET ((Tenants \X Nat) \X (1 .. MaxQty))]
        BY <1>5, <2>3 DEF Drain, UsageTypes
    <2>5. counters' \in [Nodes -> [Tenants -> 0 .. MaxQty]] /\ due' \in [Nodes -> Nat]
            /\ lossy' \subseteq Tenants /\ late' \subseteq Nodes
        BY <1>0, <1>5, <2>1 DEF Drain, UsageTypes, Nonzero
    <2>6. QED
        BY <1>5, <2>4, <2>5 DEF Drain, UsageTypes, connVars
<1>6. ASSUME NEW n \in Nodes, OpenStream(n) PROVE UsageTypes'
    <2>1. TenantsIn(sending[n]) \subseteq Tenants
        BY DEF TenantsIn, UsageTypes
    <2>2. QED
        BY <1>6, <2>1 DEF OpenStream, UsageTypes, connVars
<1>7. ASSUME NEW n \in Nodes, XAdd(n) PROVE UsageTypes'
    <2>1. PICK w \in sending[n] :
             /\ sending' = [sending EXCEPT ![n] = @ \ {w}]
             /\ \/ Ingest(w) /\ UNCHANGED lossy
                \/ Ingest(w) /\ lossy' = lossy \cup {w[1][1]}
                \/ lossy' = lossy \cup {w[1][1]} /\ UNCHANGED <<ledger, billed>>
        BY <1>7 DEF XAdd
    <2>2. w[1] \in Tenants \X Nat /\ w[1][1] \in Tenants /\ w[2] \in Nat
        BY DEF UsageTypes
    <2>3. ledger' \subseteq Tenants \X Nat /\ billed' \in [Tenants -> Nat]
            /\ lossy' \subseteq Tenants
        BY <2>1, <2>2 DEF Ingest, UsageTypes
    <2>4. QED
        BY <1>7, <2>1, <2>3 DEF XAdd, UsageTypes, connVars
<1>8. ASSUME NEW n \in Nodes, RestartNode(n) PROVE UsageTypes'
    <2>1. TenantsIn(sending[n]) \subseteq Tenants /\ Nonzero(n) \subseteq Tenants
        BY DEF TenantsIn, Nonzero, UsageTypes
    <2>2. QED
        BY <1>0, <1>8, <2>1 DEF RestartNode, UsageTypes
<1>9. CASE UNCHANGED usageVars
    BY <1>9 DEF usageVars, UsageTypes, connVars, flushVars, history
<1>10. QED
    BY <1>1, <1>2, <1>3, <1>4, <1>5, <1>6, <1>7, <1>8, <1>9 DEF UsageNext

-----------------------------------------------------------------------------
\* Where a used second may be.
Counter(n) == <<"counter", n>>
Underway(n) == <<"underway", n>>
Bill == <<"bill", "bill">>

\* The seconds among the first k that the table gives to a place.
Owned(table, k, place) == Cardinality({s \in 1 .. k : table[s] = place})

\* Each place has at least as many seconds as it shows.
Covers(table, t) ==
    /\ \A n \in Nodes : counters[n][t] <= Owned(table, used[t], Counter(n))
    /\ \A n \in Nodes : \A w \in sending[n] :
          w[1][1] = t => w[2] <= Owned(table, used[t], Underway(n))
    /\ billed[t] <= Owned(table, used[t], Bill)

BillInv == UsageTypes /\ OneWindow /\ \A t \in Tenants : \E table : Covers(table, t)

LEMMA OwnedType ==
    ASSUME NEW k \in Nat, NEW table, NEW place
    PROVE  /\ IsFiniteSet({s \in 1 .. k : table[s] = place})
           /\ Owned(table, k, place) \in Nat /\ Owned(table, k, place) <= k
<1>1. IsFiniteSet(1 .. k) /\ Cardinality(1 .. k) = k
    BY FS_Interval
<1>2. {s \in 1 .. k : table[s] = place} \in SUBSET (1 .. k)
    OBVIOUS
<1>3. QED
    BY <1>1, <1>2, FS_Subset, FS_CardinalityType DEF Owned

LEMMA DisjointUnion ==
    ASSUME NEW A, NEW B, IsFiniteSet(A), IsFiniteSet(B), A \cap B = {}
    PROVE  Cardinality(A \cup B) = Cardinality(A) + Cardinality(B)
<1>1. /\ Cardinality(A) \in Nat /\ Cardinality(B) \in Nat /\ Cardinality(A \cap B) = 0
    BY FS_CardinalityType, FS_EmptySet
<1>2. Cardinality(A \cup B) = Cardinality(A) + Cardinality(B) - Cardinality(A \cap B)
    BY FS_Union
<1>3. QED
    BY <1>1, <1>2

\* All seconds of one place move to another.
Moved(table, k, from, to) == [s \in 1 .. k |-> IF table[s] = from THEN to ELSE table[s]]

LEMMA OwnedMoves ==
    ASSUME NEW k \in Nat, NEW table, NEW from, NEW to, from # to
    PROVE  LET new == Moved(table, k, from, to) IN
              /\ Owned(new, k, to) = Owned(table, k, to) + Owned(table, k, from)
              /\ \A place : place \notin {from, to} => Owned(new, k, place) = Owned(table, k, place)
<1> DEFINE new == Moved(table, k, from, to)
           Of(tab, place) == {s \in 1 .. k : tab[s] = place}
<1>1. Of(new, to) = Of(table, to) \cup Of(table, from) /\ Of(table, to) \cap Of(table, from) = {}
    BY DEF Moved
<1>2. ASSUME NEW place, place \notin {from, to} PROVE Of(new, place) = Of(table, place)
    BY <1>2 DEF Moved
<1>3. \A tab, place : Owned(tab, k, place) = Cardinality(Of(tab, place))
    BY DEF Owned
<1>4. ASSUME NEW tab, NEW place
      PROVE  IsFiniteSet(Of(tab, place)) /\ Cardinality(Of(tab, place)) \in Nat
    <2>1. /\ IsFiniteSet({s \in 1 .. k : tab[s] = place}) /\ Owned(tab, k, place) \in Nat
        BY OwnedType
    <2>2. QED
        BY <2>1 DEF Owned
<1> HIDE DEF new, Of
<1>5. Cardinality(Of(table, to) \cup Of(table, from))
        = Cardinality(Of(table, to)) + Cardinality(Of(table, from))
    BY <1>1, <1>4, DisjointUnion
<1>6. /\ Owned(new, k, to) = Owned(table, k, to) + Owned(table, k, from)
      /\ \A place : place \notin {from, to} => Owned(new, k, place) = Owned(table, k, place)
    BY <1>1, <1>2, <1>3, <1>5
<1>7. QED
    BY <1>6 DEF new

\* More seconds, all of one place.
Grown(table, k, more, place) == [s \in 1 .. k + more |-> IF s <= k THEN table[s] ELSE place]

LEMMA OwnedGrows ==
    ASSUME NEW k \in Nat, NEW more \in Nat, NEW table, NEW place
    PROVE  LET new == Grown(table, k, more, place) IN
              /\ Owned(new, k + more, place) = Owned(table, k, place) + more
              /\ \A other : other # place => Owned(new, k + more, other) = Owned(table, k, other)
<1> DEFINE new == Grown(table, k, more, place)
           Of(tab, n, p) == {s \in 1 .. n : tab[s] = p}
           added == k + 1 .. k + more
<1>1. Of(new, k + more, place) = Of(table, k, place) \cup added
        /\ Of(table, k, place) \cap added = {}
    BY DEF Grown
<1>2. ASSUME NEW other, other # place PROVE Of(new, k + more, other) = Of(table, k, other)
    BY <1>2 DEF Grown
<1>3. \A tab, p : /\ Owned(tab, k, p) = Cardinality(Of(tab, k, p))
                  /\ Owned(tab, k + more, p) = Cardinality(Of(tab, k + more, p))
    BY DEF Owned
<1>4. ASSUME NEW tab, NEW p
      PROVE  IsFiniteSet(Of(tab, k, p)) /\ Cardinality(Of(tab, k, p)) \in Nat
    <2>1. IsFiniteSet({s \in 1 .. k : tab[s] = p}) /\ Owned(tab, k, p) \in Nat
        BY OwnedType
    <2>2. QED
        BY <2>1 DEF Owned
<1>5. IsFiniteSet(added) /\ Cardinality(added) = more
    BY FS_Interval
<1> HIDE DEF new, Of, added
<1>6. Cardinality(Of(table, k, place) \cup added) = Cardinality(Of(table, k, place)) + more
    BY <1>1, <1>4, <1>5, DisjointUnion
<1>7. /\ Owned(new, k + more, place) = Owned(table, k, place) + more
      /\ \A other : other # place => Owned(new, k + more, other) = Owned(table, k, other)
    BY <1>1, <1>2, <1>3, <1>6
<1>8. QED
    BY <1>7 DEF new

LEMMA PlacesDiffer ==
    /\ \A m, n : Counter(m) # Underway(n) /\ Counter(m) # Bill /\ Underway(n) # Bill
    /\ \A m, n : m # n => Counter(m) # Counter(n) /\ Underway(m) # Underway(n)
    BY DEF Counter, Underway, Bill

\* A step that adds nothing for the tenant keeps its table.
LEMMA CoversKept ==
    ASSUME UsageTypes, UsageTypes', NEW t \in Tenants, \E table : Covers(table, t),
           used'[t] = used[t], billed'[t] = billed[t],
           \A n \in Nodes : counters'[n][t] <= counters[n][t],
           \A n \in Nodes : \A w \in sending'[n] : w[1][1] = t => w \in sending[n]
    PROVE  \E table : Covers(table, t)'
<1>1. PICK table : Covers(table, t)
    OBVIOUS
<1>2. \A place : Owned(table, used[t], place) \in Nat
    BY OwnedType DEF UsageTypes
<1>3. \A n \in Nodes : counters[n][t] \in Nat /\ counters'[n][t] \in Nat
    BY UsageAssumption DEF UsageTypes
<1>4. Covers(table, t)'
    BY <1>1, <1>2, <1>3 DEF Covers
<1>5. QED
    BY <1>4

\* meter_connection_lifetime: the seconds of the connection go to the counter.
LEMMA CloseKeepsTables ==
    ASSUME UsageTypes, UsageTypes', NEW c \in Conns, CloseConn(c), NEW t \in Tenants,
           \E table : Covers(table, t)
    PROVE  \E table : Covers(table, t)'
<1>1. sending' = sending /\ billed' = billed
    BY DEF CloseConn
<1>2. MaxQty \in Nat
    BY UsageAssumption
<1>3. CASE mode = "off" \/ slot[c] = "none"
    <2>1. counters' = counters /\ used' = used
        BY <1>3 DEF CloseConn
    <2>2. \A n \in Nodes : counters[n][t] \in Nat
        BY <1>2 DEF UsageTypes
    <2>3. QED
        BY <1>1, <2>1, <2>2, CoversKept
<1>4. CASE ~(mode = "off" \/ slot[c] = "none")
    <2> DEFINE u == slot[c]
               m == nodeOf[c]
               secs == clock - opened[c]
    <2>1. /\ u \in Tenants /\ m \in Nodes /\ secs \in Nat
          /\ counters' = [counters EXCEPT ![m][u] = Lesser(@ + secs, MaxQty)]
          /\ used' = [used EXCEPT ![u] = @ + secs]
        BY <1>4, CloseFacts
    <2> HIDE DEF u, m, secs
    <2>2. used[t] \in Nat /\ \A n \in Nodes : counters[n][t] \in Nat
        BY <1>2 DEF UsageTypes
    <2>3. CASE t # u
        <3>1. used'[t] = used[t] /\ \A n \in Nodes : counters'[n][t] = counters[n][t]
            BY <2>1, <2>3 DEF UsageTypes
        <3>2. QED
            BY <1>1, <2>2, <3>1, CoversKept
    <2>4. CASE t = u
        <3>1. PICK table : Covers(table, t)
            OBVIOUS
        <3>0. PICK new : new = Grown(table, used[t], secs, Counter(m))
            OBVIOUS
        <3>2. /\ Owned(new, used[t] + secs, Counter(m)) = Owned(table, used[t], Counter(m)) + secs
              /\ \A other : other # Counter(m) =>
                    Owned(new, used[t] + secs, other) = Owned(table, used[t], other)
            BY <2>1, <2>2, <3>0, OwnedGrows
        <3>3. used'[t] = used[t] + secs
            BY <2>1, <2>4 DEF UsageTypes
        <3>4. counters'[m][t] <= counters[m][t] + secs
                /\ \A n \in Nodes \ {m} : counters'[n][t] = counters[n][t]
            <4>1. Lesser(counters[m][t] + secs, MaxQty) <= counters[m][t] + secs
                BY <1>2, <2>1, <2>2 DEF Lesser
            <4>2. QED
                BY <2>1, <2>4, <4>1 DEF UsageTypes
        <3>5. \A place : Owned(table, used[t], place) \in Nat
            BY <2>2, OwnedType
        <3>6. \A n \in Nodes : counters'[n][t] \in Nat
            BY <1>2 DEF UsageTypes
        <3>7. \A n \in Nodes : counters'[n][t] <= Owned(new, used'[t], Counter(n))
            BY <2>1, <2>2, <3>1, <3>2, <3>3, <3>4, <3>5, <3>6, PlacesDiffer DEF Covers
        <3>8. Covers(new, t)'
            BY <1>1, <3>1, <3>2, <3>3, <3>7, PlacesDiffer DEF Covers
        <3>9. QED
            BY <3>8
    <2>5. QED
        BY <2>3, <2>4
<1>5. QED
    BY <1>3, <1>4

\* drain_windows: what the counter had is under way, and the counter restarts.
LEMMA DrainKeepsTables ==
    ASSUME UsageTypes, UsageTypes', NEW n \in Nodes, Drain(n), NEW t \in Tenants,
           \E table : Covers(table, t)
    PROVE  \E table : Covers(table, t)'
<1>1. /\ sending[n] = {} /\ billed' = billed /\ used' = used
      /\ counters' = [counters EXCEPT ![n] = [u \in Tenants |-> 0]]
    BY DEF Drain
<1>2. used[t] \in Nat /\ \A m \in Nodes : counters[m][t] \in Nat
    BY UsageAssumption DEF UsageTypes
<1>3. PICK table : Covers(table, t)
    OBVIOUS
<1>a. Counter(n) # Underway(n)
    BY PlacesDiffer
<1>b. PICK new : new = Moved(table, used[t], Counter(n), Underway(n))
    OBVIOUS
<1>4. /\ Owned(new, used[t], Underway(n))
            = Owned(table, used[t], Underway(n)) + Owned(table, used[t], Counter(n))
      /\ \A place : place \notin {Counter(n), Underway(n)} =>
            Owned(new, used[t], place) = Owned(table, used[t], place)
    BY <1>2, <1>a, <1>b, OwnedMoves
<1>5. \A place : Owned(table, used[t], place) \in Nat /\ Owned(new, used[t], place) \in Nat
    BY <1>2, OwnedType
<1>6. counters'[n][t] = 0 /\ \A m \in Nodes \ {n} : counters'[m][t] = counters[m][t]
    BY <1>1 DEF UsageTypes
<1>7. \A m \in Nodes : counters'[m][t] <= Owned(new, used[t], Counter(m))
    BY <1>2, <1>3, <1>4, <1>5, <1>6, PlacesDiffer DEF Covers
<1>8. ASSUME NEW m \in Nodes, NEW w \in sending'[m], w[1][1] = t
      PROVE  w[2] <= Owned(new, used[t], Underway(m))
    <2>1. CASE m # n
        <3>1. sending'[m] = sending[m]
            BY <2>1 DEF Drain, UsageTypes
        <3>2. QED
            BY <1>3, <1>4, <1>8, <2>1, <3>1, PlacesDiffer DEF Covers
    <2>2. CASE m = n
        <3>1. w[2] = counters[n][t]
            <4>1. mode = "stream"
                     /\ sending'[n] = {<<Key(u, clock), counters[n][u]>> : u \in Nonzero(n)}
                BY <1>1, <1>8, <2>2 DEF Drain, UsageTypes
            <4>2. PICK u \in Nonzero(n) : w = <<Key(u, clock), counters[n][u]>>
                BY <1>8, <2>2, <4>1
            <4>3. QED
                BY <1>8, <4>2 DEF Key
        <3>2. QED
            BY <1>2, <1>3, <1>4, <1>5, <2>2, <3>1 DEF Covers
    <2>3. QED
        BY <2>1, <2>2
<1>9. billed[t] <= Owned(new, used[t], Bill)
    BY <1>3, <1>4, PlacesDiffer DEF Covers
<1>10. Covers(new, t)'
    BY <1>1, <1>7, <1>8, <1>9 DEF Covers
<1>11. QED
    BY <1>10

\* An XADD: what was under way goes to the bill, if its key is a new one.
LEMMA XAddKeepsTables ==
    ASSUME UsageTypes, UsageTypes', OneWindow, NEW n \in Nodes, XAdd(n), NEW t \in Tenants,
           \E table : Covers(table, t)
    PROVE  \E table : Covers(table, t)'
<1>1. PICK w \in sending[n] :
         /\ sending' = [sending EXCEPT ![n] = @ \ {w}]
         /\ Ingest(w) \/ UNCHANGED <<ledger, billed>>
    BY DEF XAdd
<1>2. counters' = counters /\ used' = used
    BY DEF XAdd
<1>3. /\ used[t] \in Nat /\ billed[t] \in Nat /\ w[2] \in Nat /\ w[1][1] \in Tenants
      /\ \A m \in Nodes : counters[m][t] \in Nat
    BY UsageAssumption DEF UsageTypes
<1>4. \A m \in Nodes : sending'[m] \subseteq sending[m]
    BY <1>1 DEF UsageTypes
<1>5. CASE billed'[t] = billed[t]
    BY <1>2, <1>3, <1>4, <1>5, CoversKept
<1>6. CASE billed'[t] # billed[t]
    <2>1. w[1][1] = t /\ billed'[t] = billed[t] + w[2]
        BY <1>1, <1>3, <1>6 DEF Ingest, UsageTypes
    <2>2. \A v \in sending'[n] : v[1][1] # t
        <3>1. sending'[n] = sending[n] \ {w}
            BY <1>1 DEF UsageTypes
        <3>2. QED
            BY <2>1, <3>1 DEF OneWindow
    <2>3. PICK table : Covers(table, t)
        OBVIOUS
    <2>a. Underway(n) # Bill
        BY PlacesDiffer
    <2>b. PICK new : new = Moved(table, used[t], Underway(n), Bill)
        OBVIOUS
    <2>4. /\ Owned(new, used[t], Bill)
                = Owned(table, used[t], Bill) + Owned(table, used[t], Underway(n))
          /\ \A place : place \notin {Underway(n), Bill} =>
                Owned(new, used[t], place) = Owned(table, used[t], place)
        BY <1>3, <2>a, <2>b, OwnedMoves
    <2>5. \A place : Owned(table, used[t], place) \in Nat
        BY <1>3, OwnedType
    <2>6. billed'[t] <= Owned(new, used[t], Bill)
        BY <1>3, <2>1, <2>3, <2>4, <2>5 DEF Covers
    <2>7. \A m \in Nodes : counters[m][t] <= Owned(new, used[t], Counter(m))
        BY <2>3, <2>4, PlacesDiffer DEF Covers
    <2>8. ASSUME NEW m \in Nodes, NEW v \in sending'[m], v[1][1] = t
          PROVE  v[2] <= Owned(new, used[t], Underway(m))
        BY <1>4, <2>2, <2>3, <2>4, <2>8, PlacesDiffer DEF Covers
    <2>9. Covers(new, t)'
        BY <1>2, <2>6, <2>7, <2>8 DEF Covers
    <2>10. QED
        BY <2>9
<1>7. QED
    BY <1>5, <1>6

\* Only Drain fills `sending`, from a function of the tenant.
LEMMA OneWindowStep == UsageTypes /\ OneWindow /\ [UsageNext]_usageVars => OneWindow'
<1> SUFFICES ASSUME UsageTypes, OneWindow, [UsageNext]_usageVars PROVE OneWindow'
    OBVIOUS
<1>1. CASE \A m \in Nodes : sending'[m] \subseteq sending[m]
    BY <1>1 DEF OneWindow
<1>2. ASSUME NEW n \in Nodes, Drain(n) PROVE OneWindow'
    <2>1. \A m \in Nodes \ {n} : sending'[m] = sending[m]
        BY <1>2 DEF Drain, UsageTypes
    <2>2. \/ sending'[n] = sending[n]
          \/ sending'[n] = {<<Key(u, clock), counters[n][u]>> : u \in Nonzero(n)}
        BY <1>2 DEF Drain, UsageTypes
    <2>3. \A v, w \in sending'[n] : v[1][1] = w[1][1] => v = w
        BY <2>2 DEF OneWindow, Key
    <2>4. QED
        BY <2>1, <2>3 DEF OneWindow
<1>3. ASSUME NEW n \in Nodes, OpenStream(n) \/ XAdd(n) \/ RestartNode(n) PROVE OneWindow'
    BY <1>1, <1>3 DEF OpenStream, XAdd, RestartNode, UsageTypes
<1>4. CASE Second \/ (\E c \in Conns : Open(c) \/ CloseConn(c) \/ \E t \in Tenants : Authenticate(c, t))
    BY <1>1, <1>4 DEF Second, Open, CloseConn, Authenticate, flushVars
<1>5. CASE UNCHANGED usageVars
    BY <1>1, <1>5 DEF usageVars, flushVars
<1>6. QED
    BY <1>2, <1>3, <1>4, <1>5 DEF UsageNext

LEMMA BillInvStep == BillInv /\ [UsageNext]_usageVars => BillInv'
<1> SUFFICES ASSUME BillInv, [UsageNext]_usageVars PROVE BillInv'
    OBVIOUS
<1>1. UsageTypes /\ OneWindow /\ UsageTypes' /\ OneWindow'
    BY TypesStep, OneWindowStep DEF BillInv
<1>2. ASSUME NEW t \in Tenants PROVE \E table : Covers(table, t)'
    <2>0. (\E table : Covers(table, t)) /\ \A m \in Nodes : counters[m][t] \in Nat
        BY <1>1, UsageAssumption DEF BillInv, UsageTypes
    <2>1. CASE UNCHANGED <<counters, sending, billed, used>>
        BY <1>1, <2>0, <2>1, CoversKept
    <2>2. CASE Second \/ UNCHANGED usageVars
        BY <2>1, <2>2 DEF Second, usageVars, flushVars, history
    <2>3. ASSUME NEW c \in Conns, Open(c) \/ \E u \in Tenants : Authenticate(c, u)
          PROVE  \E table : Covers(table, t)'
        BY <2>1, <2>3 DEF Open, Authenticate, flushVars, history
    <2>4. ASSUME NEW c \in Conns, CloseConn(c) PROVE \E table : Covers(table, t)'
        BY <1>1, <2>0, <2>4, CloseKeepsTables
    <2>5. ASSUME NEW n \in Nodes, Drain(n) PROVE \E table : Covers(table, t)'
        BY <1>1, <2>0, <2>5, DrainKeepsTables
    <2>6. ASSUME NEW n \in Nodes, XAdd(n) PROVE \E table : Covers(table, t)'
        BY <1>1, <2>0, <2>6, XAddKeepsTables
    <2>7. ASSUME NEW n \in Nodes, OpenStream(n) \/ RestartNode(n) PROVE \E table : Covers(table, t)'
        <3>1. /\ used' = used /\ billed' = billed
              /\ sending' = sending \/ sending' = [sending EXCEPT ![n] = {}]
              /\ counters' = counters \/ counters' = [counters EXCEPT ![n] = [u \in Tenants |-> 0]]
            BY <2>7 DEF OpenStream, RestartNode
        <3>2. ASSUME NEW m \in Nodes
              PROVE  sending'[m] \subseteq sending[m] /\ counters'[m][t] <= counters[m][t]
            <4>1. /\ counters \in [Nodes -> [Tenants -> 0 .. MaxQty]]
                  /\ sending \in [Nodes -> SUBSET ((Tenants \X Nat) \X (1 .. MaxQty))]
                BY <1>1 DEF UsageTypes
            <4>2. sending'[m] \subseteq sending[m]
                BY <3>1, <4>1
            <4>3. counters'[m][t] = counters[m][t] \/ counters'[m][t] = 0
                BY <3>1, <4>1
            <4>4. QED
                BY <2>0, <4>2, <4>3
        <3>3. QED
            BY <1>1, <2>0, <3>1, <3>2, CoversKept
    <2>8. QED
        BY <2>2, <2>3, <2>4, <2>5, <2>6, <2>7 DEF UsageNext
<1>3. QED
    BY <1>1, <1>2 DEF BillInv

\* usage.rs: for any connections, nodes, tenants and faults, nobody is charged
\* for more seconds than its connections lasted.
THEOREM NeverIsOverbilled == UsageSpec => []NeverOverbilled
<1>1. UsageInit => BillInv
    <2> SUFFICES ASSUME UsageInit PROVE BillInv
        OBVIOUS
    <2>1. UsageTypes /\ OneWindow
        BY TypesInit DEF UsageInit, OneWindow
    <2>2. ASSUME NEW t \in Tenants PROVE Covers(<<>>, t)
        <3>1. \A place : Owned(<<>>, used[t], place) \in Nat
            BY <2>1, OwnedType DEF UsageTypes
        <3>2. QED
            BY <3>1 DEF UsageInit, Covers
    <2>3. QED
        BY <2>1, <2>2 DEF BillInv
<1>2. BillInv => NeverOverbilled
    <2> SUFFICES ASSUME BillInv, NEW t \in Tenants PROVE billed[t] <= used[t]
        BY DEF NeverOverbilled
    <2>1. PICK table : Covers(table, t)
        BY DEF BillInv
    <2>2. used[t] \in Nat /\ billed[t] \in Nat
        BY DEF BillInv, UsageTypes
    <2>3. Owned(table, used[t], Bill) \in Nat /\ Owned(table, used[t], Bill) <= used[t]
        BY <2>2, OwnedType
    <2>4. QED
        BY <2>1, <2>2, <2>3 DEF Covers
<1>3. QED
    BY <1>1, <1>2, BillInvStep, PTL DEF UsageSpec

-----------------------------------------------------------------------------
\* A tenant that no other node has metered, on a node that was never late.
Home(t, n) == homes[t] \subseteq {n} /\ n \notin late

\* A node that has not metered the tenant has nothing of it.
Elsewhere(t, n) == n \notin homes[t] =>
                      counters[n][t] = 0 /\ \A w \in sending[n] : w[1][1] # t

\* The keys of the tenant are of windows before the node's next tick, and the
\* consumer has not seen the one under way.
KeysPast(t, n) ==
    /\ \A key \in ledger : key[1] = t => key[2] < WindowStart(due[n])
    /\ \A w \in sending[n] :
          w[1][1] = t => w[1][2] < WindowStart(due[n]) /\ w[1] \notin ledger

\* Every second is on the bill, in the counter or under way.
Balance(t, n) ==
    /\ (\A w \in sending[n] : w[1][1] # t) => billed[t] + counters[n][t] = used[t]
    /\ \A w \in sending[n] : w[1][1] = t => billed[t] + counters[n][t] + w[2] = used[t]

ExactAt(t, n) == /\ Elsewhere(t, n)
                 /\ Home(t, n) => KeysPast(t, n) /\ (t \notin lossy => Balance(t, n))

ExactInv == UsageTypes /\ OneWindow /\ \A t \in Tenants, n \in Nodes : ExactAt(t, n)

\* A step that leaves all this alone for the tenant on the node.
LEMMA ExactKept ==
    ASSUME NEW t \in Tenants, NEW n \in Nodes, ExactAt(t, n),
           homes[t] \subseteq homes'[t], late \subseteq late', t \in lossy => t \in lossy',
           counters'[n][t] = counters[n][t], sending'[n] = sending[n], due'[n] = due[n],
           billed'[t] = billed[t], used'[t] = used[t],
           \A key \in ledger' : key[1] = t => key \in ledger
    PROVE  ExactAt(t, n)'
<1>1. Home(t, n)' => Home(t, n)
    BY DEF Home
<1>2. Elsewhere(t, n)'
    BY DEF ExactAt, Elsewhere
<1>3. WindowStart(due[n])' = WindowStart(due[n])
    BY DEF WindowStart
<1>4. KeysPast(t, n) => KeysPast(t, n)'
    <2>1. \A w \in sending[n] : w[1][1] = t /\ w[1] \notin ledger => w[1] \notin ledger'
        OBVIOUS
    <2>2. QED
        BY <1>3, <2>1 DEF KeysPast
<1>5. Balance(t, n) => Balance(t, n)'
    BY DEF Balance
<1>6. QED
    BY <1>1, <1>2, <1>4, <1>5 DEF ExactAt

LEMMA CloseKeepsExact ==
    ASSUME UsageTypes, UsageTypes', NEW c \in Conns, CloseConn(c), NEW t \in Tenants, NEW n \in Nodes,
           ExactAt(t, n)
    PROVE  ExactAt(t, n)'
<1>1. sending' = sending /\ billed' = billed /\ due' = due /\ ledger' = ledger /\ late' = late
    BY DEF CloseConn
<1>2. CASE mode = "off" \/ slot[c] = "none"
    <2>1. counters' = counters /\ used' = used /\ lossy' = lossy /\ homes' = homes
        BY <1>2 DEF CloseConn
    <2>2. QED
        BY <1>1, <2>1, ExactKept
<1>3. CASE ~(mode = "off" \/ slot[c] = "none")
    <2> DEFINE u == slot[c]
               m == nodeOf[c]
               secs == clock - opened[c]
    <2>1. /\ u \in Tenants /\ m \in Nodes /\ secs \in Nat
          /\ counters' = [counters EXCEPT ![m][u] = Lesser(@ + secs, MaxQty)]
          /\ lossy' = IF counters[m][u] + secs > MaxQty THEN lossy \cup {u} ELSE lossy
          /\ homes' = IF secs = 0 THEN homes ELSE [homes EXCEPT ![u] = @ \cup {m}]
          /\ used' = [used EXCEPT ![u] = @ + secs]
        BY <1>3, CloseFacts
    <2> HIDE DEF u, m, secs
    <2>2. MaxQty \in Nat /\ \A k \in Nodes : counters[k][t] \in 0 .. MaxQty
        BY UsageAssumption DEF UsageTypes
    <2>3. lossy \subseteq lossy' /\ homes[t] \subseteq homes'[t]
        BY <2>1 DEF UsageTypes
    <2>4. CASE t # u \/ secs = 0
        <3>1. used'[t] = used[t]
            BY <2>1, <2>4 DEF UsageTypes
        <3>2. counters'[n][t] = counters[n][t]
            <4>1. CASE t # u
                BY <2>1, <4>1 DEF UsageTypes
            <4>2. CASE t = u /\ secs = 0
                <5>1. Lesser(counters[m][t] + secs, MaxQty) = counters[m][t]
                    BY <2>1, <2>2, <4>2 DEF Lesser
                <5>2. QED
                    BY <2>1, <4>2, <5>1 DEF UsageTypes
            <4>3. QED
                BY <2>4, <4>1, <4>2
        <3>3. QED
            BY <1>1, <2>3, <3>1, <3>2, ExactKept
    <2>5. CASE t = u /\ secs # 0
        <3>1. homes'[t] = homes[t] \cup {m} /\ used'[t] = used[t] + secs
            BY <2>1, <2>5 DEF UsageTypes
        <3>2. n # m => counters'[n][t] = counters[n][t]
            BY <2>1 DEF UsageTypes
        <3>3. Elsewhere(t, n)'
            BY <1>1, <3>1, <3>2 DEF ExactAt, Elsewhere
        <3>4. Home(t, n)' => n = m /\ Home(t, n)
            BY <3>1, <1>1 DEF Home
        <3>5. KeysPast(t, n) => KeysPast(t, n)'
            BY <1>1 DEF KeysPast, WindowStart
        <3>6. ASSUME n = m, t \notin lossy', Balance(t, n) PROVE Balance(t, n)'
            <4>1. counters[n][t] + secs <= MaxQty
                BY <2>1, <2>2, <2>5, <3>6
            <4>2. counters'[n][t] = counters[n][t] + secs
                <5>1. Lesser(counters[n][t] + secs, MaxQty) = counters[n][t] + secs
                    BY <2>1, <2>2, <4>1 DEF Lesser
                <5>2. QED
                    BY <2>1, <2>5, <3>6, <5>1 DEF UsageTypes
            <4>3. billed[t] \in Nat /\ used[t] \in Nat /\ \A w \in sending[n] : w[2] \in Nat
                BY <2>2 DEF UsageTypes
            <4>4. QED
                BY <1>1, <2>1, <2>2, <3>1, <3>6, <4>2, <4>3 DEF Balance
        <3>7. QED
            BY <2>3, <3>3, <3>4, <3>5, <3>6 DEF ExactAt
    <2>6. QED
        BY <2>4, <2>5
<1>4. QED
    BY <1>2, <1>3

LEMMA DrainKeepsExact ==
    ASSUME UsageTypes, UsageTypes', NEW m \in Nodes, Drain(m), NEW t \in Tenants, NEW n \in Nodes,
           ExactAt(t, n)
    PROVE  ExactAt(t, n)'
<1>1. /\ sending[m] = {} /\ billed' = billed /\ used' = used /\ ledger' = ledger /\ homes' = homes
      /\ counters' = [counters EXCEPT ![m] = [u \in Tenants |-> 0]]
      /\ due' = [due EXCEPT ![m] = NextTick(due[m])] /\ clock >= due[m]
      /\ late \subseteq late' /\ lossy \subseteq lossy'
      /\ m \notin late' => WindowStart(clock) = WindowStart(due[m])
    BY DEF Drain
<1>2. CASE n # m
    <2>1. /\ counters'[n][t] = counters[n][t] /\ sending'[n] = sending[n] /\ due'[n] = due[n]
        BY <1>1, <1>2 DEF Drain, UsageTypes
    <2>2. QED
        BY <1>1, <2>1, ExactKept
<1>3. CASE n = m
    <2> DEFINE drained == {<<Key(u, clock), counters[n][u]>> : u \in Nonzero(n)}
    <2>1. /\ counters'[n][t] = 0
          /\ \/ sending'[n] = drained /\ lossy' = lossy
             \/ sending'[n] = {} /\ lossy' = lossy \cup Nonzero(n)
        BY <1>1, <1>3 DEF Drain, UsageTypes
    <2>2. /\ \A w \in drained : w[1][1] = t =>
                w[1] = <<t, WindowStart(clock)>> /\ w[2] = counters[n][t] /\ counters[n][t] # 0
          /\ (\A w \in drained : w[1][1] # t) => counters[n][t] = 0
        <3>1. counters[n][t] \in Nat
            BY UsageAssumption DEF UsageTypes
        <3>2. ASSUME NEW w \in drained, w[1][1] = t
              PROVE  w[1] = <<t, WindowStart(clock)>> /\ w[2] = counters[n][t] /\ counters[n][t] # 0
            <4>1. PICK u \in Nonzero(n) : w = <<Key(u, clock), counters[n][u]>>
                OBVIOUS
            <4>2. u = t
                BY <3>2, <4>1 DEF Key
            <4>3. QED
                BY <3>1, <4>1, <4>2 DEF Key, Nonzero
        <3>3. ASSUME counters[n][t] # 0 PROVE \E w \in drained : w[1][1] = t
            <4>1. t \in Nonzero(n)
                BY <3>1, <3>3 DEF Nonzero
            <4>2. <<Key(t, clock), counters[n][t]>> \in drained
                BY <4>1
            <4>3. QED
                BY <4>2 DEF Key
        <3>4. QED
            BY <3>2, <3>3
    <2> HIDE DEF drained
    <2>3. Elsewhere(t, n)'
        BY <1>1, <2>1, <2>2 DEF ExactAt, Elsewhere
    <2>4. Home(t, n)' => Home(t, n) /\ WindowStart(clock) = WindowStart(due[n])
        BY <1>1, <1>3 DEF Home
    <2>5. ASSUME KeysPast(t, n), WindowStart(clock) = WindowStart(due[n]) PROVE KeysPast(t, n)'
        <3>1. /\ WindowStart(due[n]) \in Nat /\ WindowStart(due'[n]) \in Nat
              /\ WindowStart(due[n]) < WindowStart(due'[n])
            <4>1. due[n] \in Nat /\ due'[n] = NextTick(due[n])
                BY <1>1, <1>3 DEF UsageTypes
            <4>2. NextTick(due[n]) \in Nat /\ NextTick(due[n]) >= due[n] + Window
                BY <1>1, <1>3, <4>1, NextTickAhead DEF UsageTypes
            <4>3. QED
                BY <4>1, <4>2, WindowsAdvance
        <3>2. WindowStart(due[n])' = WindowStart(due'[n])
            BY DEF WindowStart
        <3>3. \A key \in ledger : key[2] \in Nat
            BY DEF UsageTypes
        <3>4. \A key \in ledger : key[1] = t => key[2] < WindowStart(due[n])
            BY <2>5 DEF KeysPast
        <3>5. \A w \in drained :
                 w[1][1] = t => w[1][2] = WindowStart(due[n]) /\ w[1] \notin ledger
            <4>1. <<t, WindowStart(due[n])>> \notin ledger
                BY <3>1, <3>4
            <4>2. QED
                BY <2>2, <2>5, <4>1
        <3>6. QED
            BY <1>1, <2>1, <3>1, <3>2, <3>3, <3>4, <3>5 DEF KeysPast
    <2>6. ASSUME t \notin lossy', Balance(t, n) PROVE Balance(t, n)'
        <3>1. /\ billed[t] \in Nat /\ used[t] \in Nat /\ counters[n][t] \in Nat
              /\ billed[t] + counters[n][t] = used[t]
            BY <1>1, <1>3, <2>6, UsageAssumption DEF UsageTypes, Balance
        <3>2. CASE sending'[n] = drained
            BY <1>1, <2>1, <2>2, <3>1, <3>2 DEF Balance
        <3>3. CASE sending'[n] = {} /\ lossy' = lossy \cup Nonzero(n)
            <4>1. counters[n][t] = 0
                BY <2>6, <3>1, <3>3 DEF Nonzero
            <4>2. QED
                BY <1>1, <2>1, <3>1, <3>3, <4>1 DEF Balance
        <3>4. QED
            BY <2>1, <3>2, <3>3
    <2>7. QED
        BY <1>1, <2>3, <2>4, <2>5, <2>6 DEF ExactAt
<1>4. QED
    BY <1>2, <1>3

LEMMA XAddKeepsExact ==
    ASSUME UsageTypes, OneWindow, NEW m \in Nodes, XAdd(m), NEW t \in Tenants, NEW n \in Nodes,
           ExactAt(t, n), ExactAt(t, m)
    PROVE  ExactAt(t, n)'
<1>1. PICK w \in sending[m] :
         /\ sending' = [sending EXCEPT ![m] = @ \ {w}]
         /\ \/ Ingest(w) /\ UNCHANGED lossy
            \/ Ingest(w) /\ lossy' = lossy \cup {w[1][1]}
            \/ lossy' = lossy \cup {w[1][1]} /\ UNCHANGED <<ledger, billed>>
    BY DEF XAdd
<1>2. counters' = counters /\ used' = used /\ due' = due /\ homes' = homes /\ late' = late
    BY DEF XAdd
<1>3. w[1] \in Tenants \X Nat /\ w[1][1] \in Tenants /\ w[2] \in Nat
    BY DEF UsageTypes
<1>4. sending'[n] \subseteq sending[n] /\ (n # m => sending'[n] = sending[n])
        /\ (n = m => sending'[n] = sending[n] \ {w})
    BY <1>1 DEF UsageTypes
<1>5. lossy \subseteq lossy'
    BY <1>1
<1>6. Elsewhere(t, n)'
    BY <1>2, <1>4 DEF ExactAt, Elsewhere
<1>7. Home(t, n)' = Home(t, n)
    BY <1>2 DEF Home
<1>8. CASE w[1][1] # t
    <2>1. billed'[t] = billed[t] /\ \A key \in ledger' : key[1] = t => key \in ledger
        BY <1>1, <1>3, <1>8 DEF Ingest, UsageTypes
    <2>2. KeysPast(t, n) => KeysPast(t, n)'
        <3>1. \A v \in sending'[n] : v \in sending[n]
                /\ (v[1][1] = t /\ v[1] \notin ledger => v[1] \notin ledger')
            BY <1>4, <2>1
        <3>2. QED
            BY <1>2, <2>1, <3>1 DEF KeysPast, WindowStart
    <2>3. Balance(t, n) => Balance(t, n)'
        BY <1>2, <1>4, <1>8, <2>1 DEF Balance
    <2>4. QED
        BY <1>5, <1>6, <1>7, <2>2, <2>3 DEF ExactAt
<1>9. CASE w[1][1] = t
    <2>1. m \in homes[t]
        BY <1>9 DEF ExactAt, Elsewhere
    <2>2. Home(t, n) => m = n
        BY <2>1 DEF Home
    <2>3. ASSUME m = n, KeysPast(t, n)
          PROVE  KeysPast(t, n)' /\ (Balance(t, n) /\ t \notin lossy' => Balance(t, n)')
        <3>1. \A v \in sending'[n] : v[1][1] # t
            BY <1>4, <1>9, <2>3 DEF OneWindow
        <3>2. w[1][2] < WindowStart(due[n]) /\ w[1] \notin ledger
            BY <1>9, <2>3 DEF KeysPast
        <3>3. \A key \in ledger' : key \in ledger \/ key = w[1]
            BY <1>1 DEF Ingest
        <3>4. KeysPast(t, n)'
            BY <1>2, <2>3, <3>1, <3>2, <3>3 DEF KeysPast, WindowStart
        <3>5. ASSUME Balance(t, n), t \notin lossy' PROVE Balance(t, n)'
            <4>1. billed'[t] = billed[t] + w[2]
                BY <1>1, <1>3, <1>9, <3>2, <3>5 DEF Ingest, UsageTypes
            <4>2. billed[t] \in Nat /\ counters[n][t] \in Nat /\ used[t] \in Nat
                BY UsageAssumption DEF UsageTypes
            <4>3. billed[t] + counters[n][t] + w[2] = used[t]
                BY <1>9, <2>3, <3>5 DEF Balance
            <4>4. billed'[t] + counters[n][t] = used[t]
                BY <1>3, <4>1, <4>2, <4>3
            <4>5. QED
                BY <1>2, <3>1, <4>4 DEF Balance
        <3>6. QED
            BY <3>4, <3>5
    <2>4. QED
        BY <1>5, <1>6, <1>7, <2>2, <2>3 DEF ExactAt
<1>10. QED
    BY <1>8, <1>9

\* Windows that are dropped, and a process that ends, are losses.
LEMMA LossKeepsExact ==
    ASSUME UsageTypes, NEW m \in Nodes, OpenStream(m) \/ RestartNode(m), NEW t \in Tenants,
           NEW n \in Nodes, ExactAt(t, n)
    PROVE  ExactAt(t, n)'
<1>1. /\ homes' = homes /\ used' = used /\ billed' = billed /\ ledger' = ledger
      /\ late \subseteq late' /\ lossy \subseteq lossy'
      /\ sending' = sending \/ sending' = [sending EXCEPT ![m] = {}]
    BY DEF OpenStream, RestartNode
<1>2. CASE OpenStream(m) /\ sending' = sending
    BY <1>1, <1>2, ExactKept DEF OpenStream
<1>3. CASE OpenStream(m) /\ sending' # sending
    <2>1. /\ counters' = counters /\ due' = due /\ late' = late
          /\ lossy' = lossy \cup TenantsIn(sending[m])
        BY <1>3 DEF OpenStream
    <2>2. sending' = [sending EXCEPT ![m] = {}]
        BY <1>1, <1>3
    <2>3. CASE n # m
        BY <1>1, <2>1, <2>2, <2>3, ExactKept DEF UsageTypes
    <2>4. CASE n = m
        <3>1. sending'[n] = {}
            BY <2>2, <2>4 DEF UsageTypes
        <3>2. Elsewhere(t, n)' /\ (Home(t, n)' => Home(t, n))
            BY <1>1, <2>1, <3>1 DEF ExactAt, Elsewhere, Home
        <3>3. KeysPast(t, n) => KeysPast(t, n)'
            BY <1>1, <2>1, <3>1 DEF KeysPast, WindowStart
        <3>4. t \notin lossy' /\ Balance(t, n) => Balance(t, n)'
            <4>1. t \notin lossy' => \A w \in sending[n] : w[1][1] # t
                BY <2>1, <2>4 DEF TenantsIn
            <4>2. QED
                BY <1>1, <2>1, <3>1, <4>1 DEF Balance
        <3>5. QED
            BY <1>1, <3>2, <3>3, <3>4 DEF ExactAt
    <2>5. QED
        BY <2>3, <2>4
<1>4. CASE RestartNode(m)
    <2>1. /\ counters' = [counters EXCEPT ![m] = [u \in Tenants |-> 0]]
          /\ sending' = [sending EXCEPT ![m] = {}] /\ due' = [due EXCEPT ![m] = clock]
          /\ late' = late \cup {m}
        BY <1>4 DEF RestartNode
    <2>2. CASE n # m
        <3>1. /\ counters'[n][t] = counters[n][t] /\ sending'[n] = sending[n] /\ due'[n] = due[n]
            BY <2>1, <2>2 DEF UsageTypes
        <3>2. QED
            BY <1>1, <3>1, ExactKept
    <2>3. CASE n = m
        <3>1. ~Home(t, n)' /\ counters'[n][t] = 0 /\ sending'[n] = {}
            BY <2>1, <2>3 DEF Home, UsageTypes
        <3>2. QED
            BY <3>1 DEF ExactAt, Elsewhere
    <2>4. QED
        BY <2>2, <2>3
<1>5. QED
    BY <1>2, <1>3, <1>4

LEMMA ExactInvStep == ExactInv /\ [UsageNext]_usageVars => ExactInv'
<1> SUFFICES ASSUME ExactInv, [UsageNext]_usageVars PROVE ExactInv'
    OBVIOUS
<1>1. UsageTypes /\ OneWindow /\ UsageTypes' /\ OneWindow'
    BY TypesStep, OneWindowStep DEF ExactInv
<1>2. ASSUME NEW t \in Tenants, NEW n \in Nodes PROVE ExactAt(t, n)'
    <2>0. ExactAt(t, n) /\ \A m \in Nodes : ExactAt(t, m)
        BY DEF ExactInv
    <2>1. CASE UNCHANGED <<counters, sending, due, ledger, billed, used, homes, late, lossy>>
        BY <2>0, <2>1, ExactKept
    <2>2. CASE Second \/ UNCHANGED usageVars
        BY <2>1, <2>2 DEF Second, usageVars, flushVars, history
    <2>3. ASSUME NEW c \in Conns, Open(c) \/ \E u \in Tenants : Authenticate(c, u)
          PROVE  ExactAt(t, n)'
        BY <2>1, <2>3 DEF Open, Authenticate, flushVars, history
    <2>4. ASSUME NEW c \in Conns, CloseConn(c) PROVE ExactAt(t, n)'
        BY <1>1, <2>0, <2>4, CloseKeepsExact
    <2>5. ASSUME NEW m \in Nodes, Drain(m) PROVE ExactAt(t, n)'
        BY <1>1, <2>0, <2>5, DrainKeepsExact
    <2>6. ASSUME NEW m \in Nodes, XAdd(m) PROVE ExactAt(t, n)'
        BY <1>1, <2>0, <2>6, XAddKeepsExact
    <2>7. ASSUME NEW m \in Nodes, OpenStream(m) \/ RestartNode(m) PROVE ExactAt(t, n)'
        BY <1>1, <2>0, <2>7, LossKeepsExact
    <2>8. QED
        BY <2>2, <2>3, <2>4, <2>5, <2>6, <2>7 DEF UsageNext
<1>3. QED
    BY <1>1, <1>2 DEF ExactInv

\* usage.rs and idempotency_key: a tenant of one node that flushed every tick
\* in its window is charged for every second, at any offset of the interval.
THEOREM OnTimeIsExact == UsageSpec => []ExactWhenOnTime
<1>1. UsageInit => ExactInv
    <2> SUFFICES ASSUME UsageInit PROVE ExactInv
        OBVIOUS
    <2>1. UsageTypes /\ OneWindow
        BY TypesInit DEF UsageInit, OneWindow
    <2>2. ASSUME NEW t \in Tenants, NEW n \in Nodes PROVE ExactAt(t, n)
        BY DEF UsageInit, ExactAt, Elsewhere, Home, KeysPast, Balance
    <2>3. QED
        BY <2>1, <2>2 DEF ExactInv
<1>2. ExactInv => ExactWhenOnTime
    <2> SUFFICES ASSUME ExactInv, NEW t \in Tenants, Settled(t), t \notin lossy,
                        NEW n \in Nodes, homes[t] = {n}, n \notin late
                 PROVE  billed[t] = used[t]
        BY DEF ExactWhenOnTime
    <2>1. Balance(t, n) /\ billed[t] \in Nat
        BY DEF ExactInv, ExactAt, Home, UsageTypes
    <2>2. counters[n][t] = 0 /\ \A w \in sending[n] : w[1][1] # t
        BY DEF Settled, TenantsIn
    <2>3. QED
        BY <2>1, <2>2 DEF Balance
<1>3. QED
    BY <1>1, <1>2, ExactInvStep, PTL DEF UsageSpec
=============================================================================
