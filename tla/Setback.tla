------------------------------ MODULE Setback ------------------------------
(***************************************************************************)
(* ThermostatEngine: the setback of one thermostat of a group.  While all  *)
(* persons of the group are away it is set to the eco temperature, and back*)
(* to comfort early enough for the group's comfort time, by a reheat rate  *)
(* that is learned from the heat-ups the engine observes.                  *)
(*                                                                         *)
(* A tick is one SETBACK_INTERVAL with one run_once.  Temperatures are     *)
(* counted in half kelvins, reheat rates in tenths of a minute per kelvin, *)
(* as set_thermostat_reheat rounds them.  The room warms by one half kelvin*)
(* at least every Slowest ticks, and at most every tick.                   *)
(***************************************************************************)
EXTENDS Integers, FiniteSets

CONSTANTS
    Persons,        \* the group's persons
    Comfort, Eco, Frost,    \* comfort_c, eco_c, frost_c
    Coldest,        \* bound: the room gets no colder
    ComfortTime,    \* the group's comfort time, in ticks after midnight
    DayLength,      \* ticks per day
    Interval,       \* minutes per tick
    DefaultRate,    \* DEFAULT_REHEAT_K in tenths
    Slowest,        \* ticks the room takes at most for half a kelvin
    MaxAge,         \* bound: heat-ups longer than this count as this long
    Faults,         \* "manual", "failed", "late", "offline", "restart", "unknown"
    MaxFaults       \* bound: how many of them happen, each once

ASSUME RoomAssumption ==
    /\ Comfort \in Int /\ Eco \in Int /\ Frost \in Int /\ Coldest \in Int
    /\ Eco <= Comfort /\ Coldest < Comfort
ASSUME ClockAssumption ==
    /\ DayLength \in Nat \ {0} /\ ComfortTime \in 0 .. DayLength - 1
    /\ Interval \in Nat \ {0} /\ Slowest \in Nat \ {0} /\ MaxAge \in Nat
    /\ DefaultRate \in Nat \ {0} /\ MaxFaults \in Nat
\* a day is enough to heat the room from its coldest
ASSUME HeatingAssumption == Slowest * (Comfort - Coldest) < DayLength

VARIABLES
    presence,   \* of each person
    temp,       \* the room's temperature
    warming,    \* ticks since it last rose while heated
    set,        \* the thermostat's setpoint
    seen,       \* what the store knows: {[set, temp]}, {} while unavailable
    last,       \* _last: the last target set
    heat,       \* _heat: {[age, start]} of the heat-up being observed
    rate,       \* reheat_k, 0 while nothing is learned
    ran,        \* run_once of this tick is over
    tod,        \* time of day
    least,      \* the smallest rate in use since the last comfort time
    faults      \* those that happened

room == <<temp, warming>>
engine == <<last, heat, rate, least>>
vars == <<presence, room, set, seen, engine, ran, tod, faults>>

Larger(a, b) == IF a >= b THEN a ELSE b
Smaller(a, b) == IF a <= b THEN a ELSE b
Setpoints == {Larger(Comfort, Frost), Larger(Eco, Frost)}
Actual == {[set |-> set, temp |-> temp]}

\* store.group_present
Present == \E p \in Persons : presence[p] = "home"
Away == Persons # {} /\ \A p \in Persons : presence[p] = "away"

\* minutes_to_time
MinutesToComfort == ((ComfortTime - tod) % DayLength) * Interval

\* faulty: nothing learned, nothing to lead by
RateUnlearned == rate
\* reheat_k, or the default until a value is learned
Rate == IF rate > 0 THEN rate ELSE DefaultRate

\* the predictive part of target(): minutes_to_time <= k * (comfort - current)
Preheating ==
    /\ Away
    /\ \E s \in seen : 20 * MinutesToComfort <= Rate * Larger(0, Comfort - s.temp)

Target == IF Present \/ Preheating THEN Larger(Comfort, Frost) ELSE Larger(Eco, Frost)
Heating == Present \/ Preheating

\* faulty: what was set once is not looked at again
AlreadyByLast == last = {Target}
\* the thermostat shows the target, or it shows nothing and was set to it before
Already ==
    \/ \E s \in seen : s.set = Target
    \/ seen = {} /\ last = {Target}

\* minutes per kelvin in tenths, of a heat-up from h.start to comfort
Measured(h) == (20 * h.age * Interval) \div (Comfort - h.start)
\* faulty: what was learned before keeps its full weight
BlendedOnTop(k) == IF rate = 0 THEN k ELSE (3 * k + 10 * rate) \div 10
\* EWMA_ALPHA = 0.3
Blended(k) == IF rate = 0 THEN k ELSE (3 * k + 7 * rate) \div 10

\* _learn: a heat-up begins, goes on, or is over, completed or not
Learn ==
    IF seen = {} THEN
        /\ heat' = IF Heating THEN heat ELSE {}
        /\ UNCHANGED <<rate, least>>
    ELSE LET cur == (CHOOSE s \in seen : TRUE).temp IN
        IF Heating /\ cur < Comfort - 1 THEN
            /\ heat' = IF heat = {} THEN {[age |-> 0, start |-> cur]} ELSE heat
            /\ UNCHANGED <<rate, least>>
        ELSE
            /\ heat' = {}
            /\ rate' = IF \E h \in heat : h.age * Interval >= 2 /\ Comfort - h.start >= 1
                       THEN Blended(Measured(CHOOSE h \in heat : TRUE))
                       ELSE rate
            /\ least' = Smaller(least, IF rate' > 0 THEN rate' ELSE DefaultRate)

-----------------------------------------------------------------------------
Init ==
    /\ presence \in [Persons -> {"home", "away"}]
    /\ set \in Setpoints
    /\ temp = Comfort /\ warming = 0
    /\ seen = Actual
    /\ last = {} /\ heat = {} /\ rate = 0 /\ least = DefaultRate
    /\ ran = FALSE
    /\ tod = (ComfortTime + 1) % DayLength
    /\ faults = {}

Fault(kind) ==
    /\ kind \in Faults \ faults /\ Cardinality(faults) < MaxFaults
    /\ faults' = faults \cup {kind}

\* run_once, on what the store knows; a group of unknown presence is left alone
Run ==
    /\ ~ran
    /\ ran' = TRUE
    /\ IF ~Present /\ ~Away THEN UNCHANGED <<set, engine, faults>>
       ELSE
         /\ Learn
         /\ IF Already THEN
              /\ last' = {Target}
              /\ UNCHANGED set
              /\ IF seen \in {{}, Actual} THEN UNCHANGED faults ELSE Fault("late")
            ELSE
              \/ /\ set' = IF seen = {} THEN set ELSE Target
                 /\ last' = {Target}
                 /\ IF seen \in {{}, Actual} THEN UNCHANGED faults ELSE Fault("late")
              \/ Fault("failed") /\ UNCHANGED <<set, last>>
    /\ UNCHANGED <<presence, room, seen, tod>>

\* the climate entity's event
Echo ==
    /\ seen \notin {{}, Actual}
    /\ seen' = Actual
    /\ UNCHANGED <<presence, room, set, engine, ran, tod, faults>>

\* the thermostat drops out, and comes back; the service call reaches it only there
Offline ==
    /\ seen # {} /\ Fault("offline")
    /\ seen' = {}
    /\ UNCHANGED <<presence, room, set, engine, ran, tod>>

Online ==
    /\ seen = {}
    /\ seen' = Actual
    /\ UNCHANGED <<presence, room, set, engine, ran, tod, faults>>

\* somebody turns the knob
Manual ==
    /\ Fault("manual")
    /\ set' \in Setpoints \ {set}
    /\ UNCHANGED <<presence, room, seen, engine, ran, tod>>

\* _last and _heat are in memory only, the rate is in the settings
Restart ==
    /\ Fault("restart")
    /\ last' = {} /\ heat' = {}
    /\ UNCHANGED <<presence, room, set, seen, rate, least, ran, tod>>

\* a person comes or goes, or is lost
Moves(p) ==
    /\ \/ /\ presence' = [presence EXCEPT ![p] = IF @ = "home" THEN "away" ELSE "home"]
          /\ UNCHANGED faults
       \/ Fault("unknown") /\ presence' = [presence EXCEPT ![p] = "unknown"]
    /\ UNCHANGED <<room, set, seen, engine, ran, tod>>

\* heated, the room warms in its own time; else it may cool
RoomChanges ==
    \/ /\ set > temp
       /\ temp' = temp + 1 /\ warming' = 0
    \/ /\ set > temp /\ warming < Slowest - 1
       /\ temp' = temp /\ warming' = warming + 1
    \/ /\ set <= temp
       /\ temp' \in {temp, IF set < temp /\ temp > Coldest THEN temp - 1 ELSE temp}
       /\ warming' = 0

Tick ==
    /\ ran
    /\ ran' = FALSE
    /\ tod' = (tod + 1) % DayLength
    /\ RoomChanges
    /\ heat' = {[h EXCEPT !.age = IF @ < MaxAge THEN @ + 1 ELSE MaxAge] : h \in heat}
    /\ least' = IF tod # ComfortTime THEN least ELSE IF rate > 0 THEN rate ELSE DefaultRate
    /\ UNCHANGED <<presence, set, seen, last, rate, faults>>

Next ==
    \/ Run \/ Tick \/ Echo
    \/ Offline \/ Online \/ Manual \/ Restart
    \/ \E p \in Persons : Moves(p)

Spec == Init /\ [][Next]_vars

\* the setback task keeps its cadence, events arrive, the thermostat comes back
Fairness == WF_vars(Run) /\ WF_vars(Tick) /\ WF_vars(Echo) /\ WF_vars(Online)

FairSpec == Spec /\ Fairness

-----------------------------------------------------------------------------
\* Types; the setpoint is always one the configuration names.
TypeOK ==
    /\ presence \in [Persons -> {"home", "away", "unknown"}]
    /\ temp \in Coldest .. Larger(Comfort, Frost) /\ warming \in 0 .. Slowest - 1
    /\ set \in Setpoints
    /\ \A s \in seen : s.set \in Setpoints /\ s.temp \in Coldest .. Larger(Comfort, Frost)
    /\ Cardinality(seen) <= 1 /\ last \in SUBSET Setpoints /\ Cardinality(last) <= 1
    /\ \A h \in heat : h.age \in 0 .. MaxAge /\ h.start \in Coldest .. Comfort - 2
    /\ Cardinality(heat) <= 1 /\ rate \in 0 .. 10 * MaxAge * Interval
    /\ ran \in BOOLEAN /\ tod \in 0 .. DayLength - 1 /\ least \in Nat
    /\ faults \subseteq Faults /\ Cardinality(faults) <= MaxFaults

\* "When anyone is home ... the comfort temperature is restored", and stays: after
\* any failed call, turned knob, restart or time the thermostat was not there.
ComfortRestored == <>[]Present => <>[](set = Larger(Comfort, Frost))

\* the rate of the slowest room
RoomRate == 20 * Slowest * Interval

\* "starts heating early enough": without faults the room of an absent group is at the
\* comfort time as warm as the smallest reheat rate in use that day lets it be, although
\* the preheating stops and starts as the room runs ahead of the rate.  With a rate no
\* faster than the room, as the default, it is within half a kelvin of comfort; what a
\* faster rate lacks of the room's, the room may lack of the way from its coldest, which
\* falls short of "comfort is reached at that time": _learn measures a heat-up up to half
\* a kelvin below comfort, divides by the way to comfort, and takes broken-off ones too.
WarmOnTime ==
    LET m == Smaller(least, RoomRate)
    IN  (tod = ComfortTime /\ Away /\ faults = {}) =>
            RoomRate * (Comfort - temp) < (RoomRate - m) * (Comfort - Coldest) + RoomRate + m

=============================================================================
