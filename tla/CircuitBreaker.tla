--------------------------- MODULE CircuitBreaker ---------------------------
(***************************************************************************)
(* The circuit breaker of filter_index/stats.rs.  Threads evaluate events  *)
(* (evaluate, for_each_match, collect_matches): each asks is_open, runs    *)
(* the full or the degraded path, and reports how long it took.  The four  *)
(* atomics are read and written one at a time, so a call is a sequence of  *)
(* steps.  In the server one router task evaluates; the type itself is     *)
(* shared ("lock-free atomics only") and is modelled for any set of        *)
(* threads.                                                                *)
(*                                                                         *)
(* Time: only now - opened_at_ms, saturated at the cooldown, is ever       *)
(* looked at; age is that difference.  SystemTime is not monotonic, so it  *)
(* may also fall back (at most MaxSetbacks times).                         *)
(***************************************************************************)
EXTENDS Naturals, FiniteSets

CONSTANTS Threads,      \* evaluating threads
          TripCount,    \* limits.circuit_breaker_trip_count
          Cooldown,     \* limits.circuit_breaker_cooldown_ms, in clock ticks
          MaxSetbacks   \* bound: how often the system clock is set back

ASSUME BreakerAssumption == /\ TripCount \in Nat \ {0}
                            /\ Cooldown \in Nat
                            /\ MaxSetbacks \in Nat

VARIABLES open,        \* open
          probe,       \* half_open_probe
          age,         \* now - opened_at_ms (saturating), capped at Cooldown
          streak,      \* consecutive_slow, capped at TripCount
          setbacks,    \* clock setbacks so far
          callPc,      \* next step of each thread
          winner,      \* winner[t]: t's current evaluation is a half-open probe
          slow,        \* slow[t]: t's evaluation exceeded the threshold
          tripping     \* tripping[t]: prev + 1 >= trip_count in t's report

breakerVars == <<open, probe, age, streak, setbacks, callPc, winner, slow, tripping>>

BreakerInit ==
    /\ open = FALSE /\ probe = FALSE
    /\ age = Cooldown             \* opened_at_ms = 0, long ago
    /\ streak = 0
    /\ setbacks = 0
    /\ callPc = [t \in Threads |-> "idle"]
    /\ winner = [t \in Threads |-> FALSE]
    /\ slow = [t \in Threads |-> FALSE]
    /\ tripping = [t \in Threads |-> FALSE]

Goto(t, label) == callPc' = [callPc EXCEPT ![t] = label]

\* is_open: open.load.
LoadOpen(t) ==
    /\ callPc[t] = "idle"
    /\ Goto(t, IF open THEN "cooldown" ELSE "full")
    /\ UNCHANGED <<open, probe, age, streak, setbacks, winner, slow, tripping>>

\* is_open: has the cooldown elapsed?  Otherwise the caller degrades.
CheckCooldown(t) ==
    /\ callPc[t] = "cooldown"
    /\ Goto(t, IF age >= Cooldown THEN "cas" ELSE "bypass")
    /\ UNCHANGED <<open, probe, age, streak, setbacks, winner, slow, tripping>>

\* is_open: compare_exchange(half_open_probe, false, true).
ClaimProbe(t) ==
    /\ callPc[t] = "cas"
    /\ IF probe
       THEN /\ Goto(t, "bypass")
            /\ UNCHANGED <<probe, winner>>
       ELSE /\ probe' = TRUE
            /\ winner' = [winner EXCEPT ![t] = TRUE]
            /\ Goto(t, "full")
    /\ UNCHANGED <<open, age, streak, setbacks, slow, tripping>>

\* The evaluation itself, on either path, takes long or not.
ForEachMatch(t) ==
    /\ callPc[t] \in {"full", "bypass"}
    /\ \E s \in BOOLEAN :
        /\ slow' = [slow EXCEPT ![t] = s]
        /\ Goto(t, IF s THEN "count" ELSE "reset")
    /\ UNCHANGED <<open, probe, age, streak, setbacks, winner, tripping>>

\* report, slow: consecutive_slow.fetch_add(1).
CountSlow(t) ==
    /\ callPc[t] = "count"
    /\ tripping' = [tripping EXCEPT ![t] = streak + 1 >= TripCount]
    /\ streak' = IF streak < TripCount THEN streak + 1 ELSE streak
    /\ Goto(t, "tripTest")
    /\ UNCHANGED <<open, probe, age, setbacks, winner, slow>>

\* report, slow: trip if the circuit is closed; open is stored first ...
TripTest(t) ==
    /\ callPc[t] = "tripTest"
    /\ IF ~open /\ tripping[t]
       THEN /\ open' = TRUE
            /\ Goto(t, "stamp")
       ELSE /\ Goto(t, "probeTest")
            /\ UNCHANGED open
    /\ UNCHANGED <<probe, age, streak, setbacks, winner, slow, tripping>>

\* ... and opened_at_ms only afterwards.
Stamp(t) ==
    /\ callPc[t] = "stamp"
    /\ age' = 0
    /\ Goto(t, "probeTest")
    /\ UNCHANGED <<open, probe, streak, setbacks, winner, slow, tripping>>

\* report, fast: consecutive_slow.store(0).
ResetStreak(t) ==
    /\ callPc[t] = "reset"
    /\ streak' = 0
    /\ Goto(t, "probeTest")
    /\ UNCHANGED <<open, probe, age, setbacks, winner, slow, tripping>>

\* Faulty variant: a slow probe returns without clearing the flag.
ProbeTestLeaves(t) ==
    /\ callPc[t] = "probeTest"
    /\ Goto(t, IF probe /\ ~slow[t] THEN "close" ELSE "done")
    /\ UNCHANGED <<open, probe, age, streak, setbacks, winner, slow, tripping>>

\* report, both branches: half_open_probe.load, whoever set it.
ProbeTest(t) ==
    /\ callPc[t] = "probeTest"
    /\ IF probe THEN Goto(t, IF slow[t] THEN "restamp" ELSE "close")
                ELSE Goto(t, "done")
    /\ UNCHANGED <<open, probe, age, streak, setbacks, winner, slow, tripping>>

\* report, slow probe: opened_at_ms.store(now): the cooldown starts again.
Restamp(t) ==
    /\ callPc[t] = "restamp"
    /\ age' = 0
    /\ Goto(t, "clear")
    /\ UNCHANGED <<open, probe, streak, setbacks, winner, slow, tripping>>

\* Faulty variant: a fast probe leaves the circuit open.
CloseForgets(t) ==
    /\ callPc[t] = "close"
    /\ Goto(t, "clear")
    /\ UNCHANGED <<open, probe, age, streak, setbacks, winner, slow, tripping>>

\* report, fast probe: open.store(false).
Close(t) ==
    /\ callPc[t] = "close"
    /\ open' = FALSE
    /\ Goto(t, "clear")
    /\ UNCHANGED <<probe, age, streak, setbacks, winner, slow, tripping>>

\* report: half_open_probe.store(false).
ClearProbe(t) ==
    /\ callPc[t] = "clear"
    /\ probe' = FALSE
    /\ Goto(t, "done")
    /\ UNCHANGED <<open, age, streak, setbacks, winner, slow, tripping>>

\* The evaluation returns to its caller.
Done(t) ==
    /\ callPc[t] = "done"
    /\ Goto(t, "idle")
    /\ winner' = [winner EXCEPT ![t] = FALSE]
    /\ slow' = [slow EXCEPT ![t] = FALSE]
    /\ tripping' = [tripping EXCEPT ![t] = FALSE]
    /\ UNCHANGED <<open, probe, age, streak, setbacks>>

\* epoch_ms: the system clock advances, or is set back.
Tick == /\ age < Cooldown
        /\ age' = age + 1
        /\ UNCHANGED <<open, probe, streak, setbacks, callPc, winner, slow, tripping>>

SetBack == /\ setbacks < MaxSetbacks
           /\ setbacks' = setbacks + 1
           /\ age' = 0
           /\ UNCHANGED <<open, probe, streak, callPc, winner, slow, tripping>>

ThreadStep(t) ==
    \/ LoadOpen(t) \/ CheckCooldown(t) \/ ClaimProbe(t) \/ ForEachMatch(t) \/ CountSlow(t)
    \/ TripTest(t) \/ Stamp(t) \/ ResetStreak(t) \/ ProbeTest(t) \/ Restamp(t) \/ Close(t)
    \/ ClearProbe(t) \/ Done(t)

BreakerNext == (\E t \in Threads : ThreadStep(t)) \/ Tick \/ SetBack

\* Events keep arriving and a running evaluation finishes (threads are weakly
\* fair), and time passes.
BreakerFairness == (\A t \in Threads : WF_breakerVars(ThreadStep(t))) /\ WF_breakerVars(Tick)

BreakerSpec == BreakerInit /\ [][BreakerNext]_breakerVars /\ BreakerFairness

-----------------------------------------------------------------------------
Labels == {"idle", "cooldown", "cas", "full", "bypass", "count", "tripTest", "stamp", "reset",
           "probeTest", "restamp", "close", "clear", "done"}

\* Types of the breaker's atomics and of each call's locals.
BreakerTypeOK ==
    /\ open \in BOOLEAN /\ probe \in BOOLEAN
    /\ age \in 0..Cooldown
    /\ streak \in 0..TripCount
    /\ setbacks \in 0..MaxSetbacks
    /\ callPc \in [Threads -> Labels]
    /\ winner \in [Threads -> BOOLEAN]
    /\ slow \in [Threads -> BOOLEAN]
    /\ tripping \in [Threads -> BOOLEAN]

\* A thread whose report has not yet passed the load of half_open_probe, or
\* that is about to clear it.
WillSettle(t) == callPc[t] \in {"full", "count", "tripTest", "stamp", "reset", "probeTest", "restamp",
                            "close", "clear"}

\* The half-open flag is never stranded: while it is set, the evaluation that
\* claimed it is still running and will clear it.  A flag left behind with no
\* probe running would keep is_open from ever letting another probe through.
ProbeHasOwner == probe => \E t \in Threads : winner[t] /\ WillSettle(t)

\* A tripped circuit recovers: if evaluations are fast from some point on, the
\* circuit is closed again and again, and in fact ends up closed.
Recovers == <>[](\A t \in Threads : ~slow[t]) => <>[](~open)

\* stats.rs:217: is_open lets "exactly one caller" through to a half-open probe.
SingleProbe == Cardinality({t \in Threads : winner[t] /\ callPc[t] # "done"}) <= 1

\* evaluate.rs:26: the circuit re-closes "when a probe evaluation completes in
\* time": only the thread that ran the probe ever closes it.
ClosedByProbe == [][\A t \in Threads : Close(t) /\ open => winner[t]]_breakerVars
=============================================================================
