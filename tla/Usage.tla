------------------------------- MODULE Usage --------------------------------
(***************************************************************************)
(* Metering of connection seconds.  A connection that closes adds its      *)
(* lifetime to its tenant's counter on its node; the node's flusher drains *)
(* the counters on every tick of an interval, stamps each total with an    *)
(* idempotency key made of the tenant and the wall-clock window, and sends *)
(* it to a Redis stream, best effort.  The consumer of the stream keeps    *)
(* the first entry of a key and ignores the others.                        *)
(*                                                                         *)
(* One clock counts the seconds; it never steps back, so that the clamp of *)
(* meter_connection_lifetime does not show.  There is one metric.          *)
(***************************************************************************)
EXTENDS Naturals

CONSTANTS Conns, Nodes, Tenants,
          Window,    \* flush_ms, in seconds: the interval's period and the key's window
          MaxQty,    \* the largest u64: counters saturate here
          MaxClock,  \* bound: seconds
          MaxFaults  \* bound: failed commands and crashes

ASSUME UsageAssumption == /\ Window \in Nat \ {0} /\ MaxQty \in Nat \ {0}
                          /\ MaxClock \in Nat /\ MaxFaults \in Nat
                          /\ "none" \notin Tenants

VARIABLES mode,      \* "off", "tracing" (no Redis URL) or "stream"
          clock,
          phase,     \* per connection: "new", "open" or "closed"
          nodeOf,    \* per connection: the node that accepted it
          opened,    \* per connection: connected_at
          slot,      \* per connection: tenant_slot, "none" before AUTH
          counters,  \* per node and tenant: UsageAggregate
          due,       \* per node: the interval's next tick
          sending,   \* per node: windows drained and not yet sent
          connected, \* nodes whose Redis connection has been opened
          ledger,    \* the keys the consumer has seen
          billed,    \* per tenant: seconds the consumer has kept
          \* History.
          used,      \* per tenant: seconds its connections lasted
          lossy,     \* tenants that lost seconds to a fault, saturation or "tracing"
          late,      \* nodes that flushed in a later window than the tick was due in
          homes,     \* per tenant: nodes that metered it
          faults

connVars == <<phase, nodeOf, opened, slot>>
flushVars == <<counters, due, sending, connected>>
history == <<used, lossy, late, homes, faults>>
usageVars == <<mode, clock, connVars, flushVars, ledger, billed, history>>

UsageInit ==
    /\ mode \in {"off", "tracing", "stream"}
    /\ clock = 0
    /\ phase = [c \in Conns |-> "new"]
    /\ nodeOf \in [Conns -> Nodes]
    /\ opened = [c \in Conns |-> 0]
    /\ slot = [c \in Conns |-> "none"]
    /\ counters = [n \in Nodes |-> [t \in Tenants |-> 0]]
    /\ due \in [Nodes -> 0 .. Window - 1]      \* a node starts at any offset
    /\ sending = [n \in Nodes |-> {}]
    /\ connected = {}
    /\ ledger = {} /\ billed = [t \in Tenants |-> 0]
    /\ used = [t \in Tenants |-> 0]
    /\ lossy = {} /\ late = {} /\ homes = [t \in Tenants |-> {}] /\ faults = 0

Fault == faults < MaxFaults /\ faults' = faults + 1

Second == /\ clock < MaxClock
          /\ clock' = clock + 1
          /\ UNCHANGED <<mode, connVars, flushVars, ledger, billed, history>>

-----------------------------------------------------------------------------
Open(c) ==
    /\ phase[c] = "new"
    /\ phase' = [phase EXCEPT ![c] = "open"]
    /\ opened' = [opened EXCEPT ![c] = clock]
    /\ UNCHANGED <<mode, clock, nodeOf, slot, flushVars, ledger, billed, history>>

\* reader_loop: a successful AUTH writes the subject into the slot; a later
\* one as somebody else overwrites it.
Authenticate(c, t) ==
    /\ phase[c] = "open" /\ slot[c] # t
    /\ slot' = [slot EXCEPT ![c] = t]
    /\ UNCHANGED <<mode, clock, phase, nodeOf, opened, flushVars, ledger, billed, history>>

Lesser(x, y) == IF x < y THEN x ELSE y

\* UsageAggregate::record: nothing for 0, otherwise a saturating addition.
Record(n, t, qty) ==
    /\ counters' = [counters EXCEPT ![n][t] = Lesser(@ + qty, MaxQty)]
    /\ lossy' = IF counters[n][t] + qty > MaxQty THEN lossy \cup {t} ELSE lossy
    /\ homes' = IF qty = 0 THEN homes ELSE [homes EXCEPT ![t] = @ \cup {n}]

\* meter_connection_lifetime, at the end of handle_websocket.
CloseConn(c) == LET t == slot[c] secs == clock - opened[c] IN
    /\ phase[c] = "open"
    /\ phase' = [phase EXCEPT ![c] = "closed"]
    /\ opened' = [opened EXCEPT ![c] = 0] /\ slot' = [slot EXCEPT ![c] = "none"]
    /\ IF mode = "off" \/ t = "none"
       THEN UNCHANGED <<counters, lossy, homes, used>>
       ELSE /\ Record(nodeOf[c], t, secs)
            /\ used' = [used EXCEPT ![t] = @ + secs]
    /\ UNCHANGED <<mode, clock, nodeOf, due, sending, connected, ledger, billed,
                   late, faults>>

-----------------------------------------------------------------------------
\* Faulty variant: the window is twice the period.
WindowTooWide(ts) == ts - (ts % (2 * Window))

\* window_start_ms
WindowStart(ts) == ts - (ts % Window)

\* UsageEnvelope::build and idempotency_key.
Key(t, ts) == <<t, WindowStart(ts)>>

\* MissedTickBehavior::Skip: the first tick of the schedule after now.
NextTick(d) == LET missed == (clock - d) \div Window IN d + (missed + 1) * Window

Nonzero(n) == {t \in Tenants : counters[n][t] > 0}

\* Faulty variant: the counters are read and not reset.
DrainWithoutReset(n) ==
    /\ mode # "off" /\ clock >= due[n] /\ sending[n] = {}
    /\ due' = [due EXCEPT ![n] = NextTick(@)]
    /\ late' = IF WindowStart(clock) = WindowStart(due[n]) THEN late ELSE late \cup {n}
    /\ sending' = [sending EXCEPT ![n] = {<<Key(t, clock), counters[n][t]>> : t \in Nonzero(n)}]
    /\ UNCHANGED <<mode, clock, connVars, counters, connected, ledger, billed, used, lossy, homes,
                   faults>>

\* A tick of spawn_flusher: drain_windows takes the whole map, and without a
\* stream that is the end of it.
Drain(n) ==
    /\ mode # "off" /\ clock >= due[n] /\ sending[n] = {}
    /\ due' = [due EXCEPT ![n] = NextTick(@)]
    /\ late' = IF WindowStart(clock) = WindowStart(due[n]) THEN late ELSE late \cup {n}
    /\ counters' = [counters EXCEPT ![n] = [t \in Tenants |-> 0]]
    /\ IF mode = "stream"
       THEN /\ sending' = [sending EXCEPT ![n] = {<<Key(t, clock), counters[n][t]>> :
                                                    t \in Nonzero(n)}]
            /\ UNCHANGED lossy
       ELSE /\ lossy' = lossy \cup Nonzero(n)
            /\ UNCHANGED sending
    /\ UNCHANGED <<mode, clock, connVars, connected, ledger, billed, used, homes, faults>>

TenantsIn(windows) == {w[1][1] : w \in windows}

\* xadd_windows opens the connection on first use; if that fails the windows
\* are dropped.
OpenStream(n) ==
    /\ sending[n] # {} /\ n \notin connected
    /\ \/ /\ connected' = connected \cup {n}
          /\ UNCHANGED <<sending, lossy, faults>>
       \/ /\ Fault
          /\ lossy' = lossy \cup TenantsIn(sending[n])
          /\ sending' = [sending EXCEPT ![n] = {}]
          /\ UNCHANGED connected
    /\ UNCHANGED <<mode, clock, connVars, counters, due, ledger, billed, used, late, homes>>

\* The consumer: ON CONFLICT (idempotency_key) DO NOTHING.
Ingest(w) ==
    /\ ledger' = ledger \cup {w[1]}
    /\ billed' = IF w[1] \in ledger THEN billed ELSE [billed EXCEPT ![w[1][1]] = @ + w[2]]

\* One XADD.  It may fail, before or after the entry was appended; either
\* way the window is done with.
XAdd(n) == \E w \in sending[n] :
    /\ n \in connected
    /\ sending' = [sending EXCEPT ![n] = @ \ {w}]
    /\ \/ Ingest(w) /\ UNCHANGED <<lossy, faults>>
       \/ Fault /\ Ingest(w) /\ lossy' = lossy \cup {w[1][1]}
       \/ Fault /\ lossy' = lossy \cup {w[1][1]} /\ UNCHANGED <<ledger, billed>>
    /\ UNCHANGED <<mode, clock, connVars, counters, due, connected, used, late, homes>>

\* The process ends: the aggregate is not flushed on the way out.  It starts
\* again with an immediate first tick.
RestartNode(n) ==
    /\ Fault /\ mode # "off"
    /\ lossy' = lossy \cup Nonzero(n) \cup TenantsIn(sending[n])
    /\ counters' = [counters EXCEPT ![n] = [t \in Tenants |-> 0]]
    /\ sending' = [sending EXCEPT ![n] = {}]
    /\ connected' = connected \ {n}
    /\ due' = [due EXCEPT ![n] = clock]
    /\ late' = late \cup {n}
    /\ phase' = [c \in Conns |-> IF nodeOf[c] = n /\ phase[c] = "open" THEN "closed" ELSE phase[c]]
    /\ UNCHANGED <<mode, clock, nodeOf, opened, slot, ledger, billed, used, homes>>

UsageNext == \/ Second
             \/ \E c \in Conns : Open(c) \/ CloseConn(c) \/ \E t \in Tenants : Authenticate(c, t)
             \/ \E n \in Nodes : Drain(n) \/ OpenStream(n) \/ XAdd(n) \/ RestartNode(n)

UsageSpec == UsageInit /\ [][UsageNext]_usageVars

-----------------------------------------------------------------------------
UsageTypeOK ==
    /\ mode \in {"off", "tracing", "stream"} /\ clock \in 0 .. MaxClock
    /\ phase \in [Conns -> {"new", "open", "closed"}] /\ nodeOf \in [Conns -> Nodes]
    /\ opened \in [Conns -> 0 .. MaxClock] /\ slot \in [Conns -> Tenants \cup {"none"}]
    /\ counters \in [Nodes -> [Tenants -> 0 .. MaxQty]] /\ due \in [Nodes -> Nat]
    /\ \A n \in Nodes : sending[n] \subseteq (Tenants \X Nat) \X (1 .. MaxQty)
    /\ connected \subseteq Nodes /\ ledger \subseteq Tenants \X Nat
    /\ billed \in [Tenants -> Nat] /\ used \in [Tenants -> Nat]
    /\ lossy \subseteq Tenants /\ late \subseteq Nodes
    /\ homes \in [Tenants -> SUBSET Nodes] /\ faults \in 0 .. MaxFaults

\* Nobody is charged for more seconds than its connections lasted, whatever
\* fails, restarts or is delivered twice (drain resets what it takes, nothing
\* is ever retried).
NeverOverbilled == \A t \in Tenants : billed[t] <= used[t]

Settled(t) == \A n \in Nodes : counters[n][t] = 0 /\ t \notin TenantsIn(sending[n])

\* A tenant metered by one node that flushed in the window each tick was due
\* in, with no fault and no saturation, is charged for every second: the ticks
\* of the interval and the windows of the key are in step at any offset.
ExactWhenOnTime == \A t \in Tenants :
    Settled(t) /\ t \notin lossy /\ (\E n \in Nodes : homes[t] = {n} /\ n \notin late)
        => billed[t] = used[t]

\* What the module doc asks for (README, deviations): the running total is
\* flushed once per window, so that the consumer drops nothing.
NothingDeduplicated == \A t \in Tenants : Settled(t) /\ t \notin lossy => billed[t] = used[t]
=============================================================================
