------------------------------ MODULE Signals -------------------------------
(***************************************************************************)
(* From the sensors to the surplus: the samples the store keeps of the     *)
(* balance sensors, their update interval and age (signal_rate), the       *)
(* common window they are averaged over (_align_window, _aligned_value),   *)
(* the balance (balance_from_config), and a modulating load that follows   *)
(* the surplus unless a critical sensor is stale (signal_stale).           *)
(*                                                                         *)
(* Sensors report late, at their own pace, become unavailable or fall      *)
(* silent.  Powers are multiples of a number every average divides.        *)
(***************************************************************************)
EXTENDS Integers, Sequences, FiniteSets, FiniteSetsExt, Functions

CONSTANTS
    Role,        \* of each sensor: "grid", "import", "export", "battery" or "pv"
    Unavailable, \* a state that is no number
    Flows,       \* what may flow: [house, pv, battery]
    MaxPower,    \* of the modulating load
    Cap,         \* MAX_ALIGN_WINDOW_S, in ticks
    StaleMin,    \* STALE_MIN_S
    StaleFactor, \* STALE_FACTOR
    MaxLen,      \* SAMPLES_MAXLEN
    Delay,       \* a living sensor reports a change within this time
    MaxGap,      \* and is heard of at least this often
    MaxAge,      \* bound: ages saturate
    MaxChanges,  \* bound: changes of the flows
    MaxFaults    \* bound: sensors that fall silent or become unavailable

Sensors == DOMAIN Role

ASSUME SignalsAssumption ==
    /\ IsFiniteSet(Sensors) /\ Unavailable \notin Int
    /\ \A s \in Sensors : Role[s] \in {"grid", "import", "export", "battery", "pv"}
    /\ Flows \subseteq [house : Int, pv : Nat, battery : Int]
    /\ MaxPower \in Nat /\ Cap \in Nat /\ StaleMin \in Nat /\ StaleFactor \in Nat
    /\ MaxLen \in Nat \ {0} /\ Delay \in Nat /\ MaxGap \in Nat /\ MaxAge \in Nat
    /\ MaxChanges \in Nat /\ MaxFaults \in Nat

VARIABLES
    sync,     \* settings["signal_sync"]
    flow,     \* what really flows
    live,     \* _live_by_id: the latest state, a number or Unavailable
    samples,  \* _samples: [gap: since the one before, val]
    age,      \* since the latest sample
    feed,     \* "up", "silent" or "off"
    set,      \* setpoint of the modulating load
    quiet,    \* since when every sensor shows what flows
    unheard,  \* since when a sensor's last number has been wrong
    changes, faults

vars == <<sync, flow, live, samples, age, feed, set, quiet, unheard, changes, faults>>

Saturated(n) == IF n < MaxAge THEN n ELSE MaxAge
Positive(x) == IF x > 0 THEN x ELSE 0

\* what sensor s would show
GridOf(f) == f.house + f.battery - f.pv
Truth(f, s) ==
    CASE Role[s] = "grid"    -> GridOf(f)
      [] Role[s] = "import"  -> Positive(GridOf(f))
      [] Role[s] = "export"  -> Positive(-GridOf(f))
      [] Role[s] = "battery" -> f.battery
      [] Role[s] = "pv"      -> f.pv

-----------------------------------------------------------------------------
(***************************************************************************)
(* Update interval, age and window.                                        *)
(***************************************************************************)
IsNumber(v) == v # Unavailable
Measured(s) == Len(samples[s]) >= 2

\* signal_rate: the median of the gaps, the upper one of two
Interval(s) ==
    LET gaps == 2 .. Len(samples[s])
        Below(g) == Cardinality({i \in gaps : samples[s][i].gap < g})
        UpTo(g) == Cardinality({i \in gaps : samples[s][i].gap <= g})
        middle == Cardinality(gaps) \div 2
    IN  CHOOSE g \in {samples[s][i].gap : i \in gaps} : Below(g) <= middle /\ UpTo(g) > middle

\* faulty: not capped
LongWindow == Max({0} \cup {Interval(s) : s \in {r \in Sensors : Measured(r)}})
\* _align_window
Window == Min({Cap, Max({0} \cup {Interval(s) : s \in {r \in Sensors : Measured(r)}})})

AgeOf(s, i) ==
    age[s] + FoldFunctionOnSet(+, 0, [j \in DOMAIN samples[s] |-> samples[s][j].gap],
                               i + 1 .. Len(samples[s]))

\* faulty: all samples, not those of the window
AverageOfAll(s, indices) ==
    LET all == {i \in DOMAIN samples[s] : IsNumber(samples[s][i].val)}
    IN  FoldFunctionOnSet(+, 0, [i \in all |-> samples[s][i].val], all) \div Cardinality(all)
Average(s, indices) ==
    FoldFunctionOnSet(+, 0, [i \in indices |-> samples[s][i].val], indices) \div Cardinality(indices)

\* _aligned_value: the average over the window, or the last number held
Aligned(s) ==
    LET numbers == {i \in DOMAIN samples[s] : IsNumber(samples[s][i].val)}
        recent == {i \in numbers : AgeOf(s, i) <= Window}
    IN  CASE numbers = {} -> Unavailable
          [] numbers # {} /\ Window > 0 /\ recent # {} -> Average(s, recent)
          [] OTHER -> samples[s][Max(numbers)].val

\* _aligned_live
Reading(s) == IF sync /\ Aligned(s) # Unavailable THEN Aligned(s) ELSE live[s]

-----------------------------------------------------------------------------
(***************************************************************************)
(* balance_from_config: what is unavailable counts as 0.                   *)
(***************************************************************************)
SumOf(role) ==
    LET counted == {s \in Sensors : Role[s] = role /\ IsNumber(Reading(s))}
    IN  FoldFunctionOnSet(+, 0, [s \in counted |-> Reading(s)], counted)

\* one sensor for both directions, or else one for each
GridW == IF \E s \in Sensors : Role[s] = "grid" THEN SumOf("grid")
         ELSE SumOf("import") - SumOf("export")
BatteryW == SumOf("battery")
\* faulty: charging is taken for a source
HouseLoadCharging == SumOf("pv") + GridW + BatteryW
HouseLoad == SumOf("pv") + GridW - BatteryW

\* surplus_signal, battery first
Surplus == Min({0, BatteryW}) - GridW

\* balance_key_ids
Critical == {s \in Sensors : Role[s] # "pv"}

\* faulty: without the floor of StaleMin, only a sensor silent for all of its interval
StaleAfterGaps == \E s \in Critical : Measured(s) /\ age[s] > StaleFactor * Interval(s) + MaxAge
\* signal_stale
Stale ==
    \E s \in Critical :
        Measured(s) /\ age[s] > Max({StaleFactor * Interval(s), StaleMin})

-----------------------------------------------------------------------------
\* the snapshot seeds the live states, and no samples
Init ==
    /\ sync \in BOOLEAN
    /\ flow \in Flows
    /\ live = [s \in Sensors |-> Truth(flow, s)]
    /\ samples = [s \in Sensors |-> <<>>]
    /\ age = [s \in Sensors |-> 0]
    /\ feed = [s \in Sensors |-> "up"]
    /\ set = 0 /\ quiet = 0
    /\ unheard = [s \in Sensors |-> 0]
    /\ changes = 0 /\ faults = 0

\* faulty: a list, not a deque
NotedForever(s, val) == Append(samples[s], [gap |-> age[s], val |-> val])
\* _note_sample: a deque of MaxLen
Noted(s, val) ==
    LET seq == Append(samples[s], [gap |-> age[s], val |-> val])
    IN  IF Len(seq) > MaxLen THEN Tail(seq) ELSE seq

\* observe_config_state
Observe(s, val) ==
    /\ live' = [live EXCEPT ![s] = val]
    /\ samples' = [samples EXCEPT ![s] = Noted(s, val)]
    /\ age' = [age EXCEPT ![s] = 0]

\* a sensor reports what flows, also when it has reported it before
Report(s) ==
    /\ feed[s] # "silent" /\ (age[s] > 0 \/ samples[s] = <<>>)
    /\ feed' = [feed EXCEPT ![s] = "up"]
    /\ Observe(s, Truth(flow, s))
    /\ unheard' = [unheard EXCEPT ![s] = 0]
    /\ UNCHANGED <<sync, flow, set, quiet, changes, faults>>

\* its entity becomes unavailable
Offline(s) ==
    /\ faults < MaxFaults /\ faults' = faults + 1
    /\ feed[s] # "off" /\ feed' = [feed EXCEPT ![s] = "off"]
    /\ Observe(s, Unavailable)
    /\ quiet' = 0
    /\ UNCHANGED <<sync, flow, set, unheard, changes>>

\* it falls silent, which nobody is told
FallSilent(s) ==
    /\ faults < MaxFaults /\ faults' = faults + 1
    /\ feed[s] = "up" /\ feed' = [feed EXCEPT ![s] = "silent"]
    /\ UNCHANGED <<sync, flow, live, samples, age, set, quiet, unheard, changes>>

Change ==
    /\ changes < MaxChanges /\ changes' = changes + 1
    /\ flow' \in Flows \ {flow}
    /\ quiet' = 0
    /\ UNCHANGED <<sync, live, samples, age, feed, set, unheard, faults>>

\* the last number of a sensor, whatever has been heard since
LastNumber(s) ==
    LET numbers == {i \in DOMAIN samples[s] : IsNumber(samples[s][i].val)}
    IN  IF numbers = {} THEN live[s] ELSE samples[s][Max(numbers)].val

\* the modulating load follows the surplus, with the gains kp = 0 and ki = 1, or holds
Followed == IF Stale THEN set ELSE Max({0, Min({MaxPower, set + Surplus})})

\* run_cycle
Cycle ==
    /\ set' = Followed
    /\ UNCHANGED <<sync, flow, live, samples, age, feed, quiet, unheard, changes, faults>>

Tick ==
    /\ \A s \in Sensors :
          feed[s] = "up" => age[s] < MaxGap /\ (live[s] = Truth(flow, s) \/ unheard[s] < Delay)
    /\ age' = [s \in Sensors |-> Saturated(age[s] + 1)]
    /\ unheard' = [s \in Sensors |->
                     IF LastNumber(s) = Truth(flow, s) THEN 0 ELSE Saturated(unheard[s] + 1)]
    /\ quiet' = IF \A s \in Sensors : live[s] = Truth(flow, s) THEN Min({quiet + 1, Cap + 1}) ELSE 0
    /\ UNCHANGED <<sync, flow, live, samples, feed, set, changes, faults>>

Next ==
    \/ \E s \in Sensors : Report(s) \/ Offline(s) \/ FallSilent(s)
    \/ Change \/ Cycle \/ Tick

Spec == Init /\ [][Next]_vars

-----------------------------------------------------------------------------
\* Types.
TypeOK ==
    /\ sync \in BOOLEAN /\ flow \in Flows
    /\ \A s \in Sensors :
          /\ live[s] \in Int \cup {Unavailable}
          /\ samples[s] \in Seq([gap : 0 .. MaxAge, val : Int \cup {Unavailable}])
          /\ Len(samples[s]) <= MaxLen
          /\ age[s] \in 0 .. MaxAge /\ unheard[s] \in 0 .. MaxAge
          /\ feed[s] \in {"up", "silent", "off"}
    /\ set \in 0 .. MaxPower /\ quiet \in 0 .. Cap + 1
    /\ changes \in 0 .. MaxChanges /\ faults \in 0 .. MaxFaults

\* However fast or slow the sensors are and in whatever order they have reported: once
\* the flows have been shown for longer than the longest window, the balance is exact
\* (_align_window: no "stale, stuck surplus").
SteadyExact ==
    quiet > Cap => /\ HouseLoad = flow.house
                   /\ Surplus = Min({0, flow.battery}) - GridOf(flow)

LongestGap(s) == Max({samples[s][i].gap : i \in 2 .. Len(samples[s])})

\* A modulating load does not follow a number that has been wrong for longer than the
\* sensor's pace and the floor allow, as long as no sensor becomes unavailable
\* (signal_stale; run_cycle: freeze "instead of acting on out-of-date data").
WrongNotFollowed ==
    [][ set' # set =>
          \A s \in Critical :
              Measured(s) /\ feed[s] # "off"
                  => unheard[s] <= Max({StaleFactor * LongestGap(s), StaleMin}) ]_vars

=============================================================================
