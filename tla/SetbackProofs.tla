---------------------------- MODULE SetbackProofs ----------------------------
(***************************************************************************)
(* The setback's types, with every fault, and its promise: the room of an  *)
(* absent group is as warm at the comfort time as the rates in use let it  *)
(* be, for any room, any day and any rates that are learned.               *)
(***************************************************************************)
EXTENDS Setback, FiniteSetTheorems, TLAPS

-----------------------------------------------------------------------------
(***************************************************************************)
(* Arithmetic.                                                             *)
(***************************************************************************)
LEMMA TimesMonotone ==
    ASSUME NEW a \in Int, NEW b \in Int, NEW c \in Nat, a <= b
    PROVE  c * a <= c * b /\ a * c <= b * c
  OBVIOUS

LEMMA TimesSign ==
    ASSUME NEW a \in Int, NEW c \in Nat, a <= 0
    PROVE  c * a <= 0
  OBVIOUS

LEMMA TimesCancel ==
    ASSUME NEW a \in Int, NEW b \in Int, NEW c \in Nat, c * a < c * b
    PROVE  a < b
  <1>1. a >= b => c * a >= c * b
    BY TimesMonotone
  <1>2. c * a \in Int /\ c * b \in Int
    OBVIOUS
  <1>3. QED
    BY <1>1, <1>2

\* The quotient of a heat-up is no more than half of its dividend.
LEMMA QuotientHalves ==
    ASSUME NEW n \in Nat, NEW m \in Nat, NEW c \in Nat, c >= 2, n <= 2 * m
    PROVE  n \div c \in 0 .. m
  <1>1. n \div c \in Nat /\ c * (n \div c) <= n
    OBVIOUS
  <1>2. 2 * (n \div c) <= c * (n \div c)
    BY <1>1, TimesMonotone
  <1>3. QED
    BY <1>1, <1>2

\* Within one day to either side, the remainder is what a clock shows.
LEMMA ClockRemainder ==
    ASSUME NEW n \in Nat \ {0}, NEW a \in Int, -n < a, a <= n
    PROVE  a % n = IF a < 0 THEN a + n ELSE IF a = n THEN 0 ELSE a
  OBVIOUS

-----------------------------------------------------------------------------
(***************************************************************************)
(* Types.  What the engine remembers is there once or not at all.          *)
(***************************************************************************)
Top == Larger(Comfort, Frost)
Singles(S) == {{}} \cup {{x} : x \in S}
Readings == [set : Setpoints, temp : Coldest .. Top]
HeatUps == [age : 0 .. MaxAge, start : Coldest .. Comfort - 2]

TypeInv ==
    /\ presence \in [Persons -> {"home", "away", "unknown"}]
    /\ temp \in Coldest .. Top /\ warming \in 0 .. Slowest - 1
    /\ set \in Setpoints
    /\ seen \in Singles(Readings) /\ last \in Singles(Setpoints)
    /\ heat \in Singles(HeatUps) /\ rate \in 0 .. 10 * MaxAge * Interval
    /\ ran \in BOOLEAN /\ tod \in 0 .. DayLength - 1 /\ least \in Nat
    /\ faults \subseteq Faults /\ IsFiniteSet(faults) /\ Cardinality(faults) <= MaxFaults

LEMMA OneAtMost ==
    ASSUME NEW S, NEW X \in Singles(S)
    PROVE  X \subseteq S /\ Cardinality(X) <= 1
  BY FS_EmptySet, FS_Singleton DEF Singles

LEMMA SetpointsAre ==
    /\ Top \in Setpoints /\ \A s \in Setpoints : s \in Int /\ s <= Top
    /\ Top \in Int /\ Comfort <= Top /\ Coldest <= Top
  <1> DEFINE Low == Larger(Eco, Frost)
  <1>1. /\ Top \in Int /\ Comfort <= Top /\ Coldest <= Top
        /\ Low \in Int /\ Low <= Top
    BY RoomAssumption DEF Top, Larger
  <1>2. Setpoints = {Top, Low}
    BY DEF Setpoints, Top
  <1> HIDE DEF Low
  <1>3. QED
    BY <1>1, <1>2

LEMMA TargetType == Target \in Setpoints
  BY DEF Target, Setpoints

LEMMA ActualType == TypeInv => Actual \in Singles(Readings)
  BY DEF TypeInv, Actual, Readings, Singles

LEMMA FaultType ==
    ASSUME TypeInv, NEW kind, Fault(kind)
    PROVE  /\ faults' \subseteq Faults /\ IsFiniteSet(faults')
           /\ Cardinality(faults') <= MaxFaults /\ faults' # {}
  <1>1. IsFiniteSet(faults) /\ Cardinality(faults) \in Nat
    BY FS_CardinalityType DEF TypeInv
  <1>2. kind \notin faults /\ faults' = faults \cup {kind}
    BY DEF Fault
  <1>3. IsFiniteSet(faults') /\ Cardinality(faults') = Cardinality(faults) + 1
    BY <1>1, <1>2, FS_AddElement
  <1>4. Cardinality(faults) < MaxFaults /\ kind \in Faults
    BY DEF Fault
  <1>5. QED
    BY <1>1, <1>2, <1>3, <1>4, ClockAssumption DEF TypeInv

\* What is measured, and what it is blended into, stays a rate.
LEMMA RateBounded ==
    ASSUME TypeInv, NEW h \in HeatUps
    PROVE  /\ Measured(h) \in 0 .. 10 * MaxAge * Interval
           /\ Blended(Measured(h)) \in 0 .. 10 * MaxAge * Interval
  <1> DEFINE n == 20 * h.age * Interval
             m == 10 * MaxAge * Interval
             c == Comfort - h.start
  <1>1. h.age \in Nat /\ h.age <= MaxAge /\ c \in Nat /\ c >= 2
    BY RoomAssumption, ClockAssumption DEF HeatUps
  <1>2. h.age * Interval <= MaxAge * Interval
    BY <1>1, TimesMonotone, ClockAssumption
  <1>3. n \in Nat /\ m \in Nat /\ n <= 2 * m
    BY <1>1, <1>2, ClockAssumption
  <1> HIDE DEF n, m, c
  <1>4. n \div c \in 0 .. m
    BY <1>1, <1>3, QuotientHalves
  <1>5. Measured(h) \in 0 .. m
    BY <1>4 DEF Measured, n, c
  <1>6. rate \in 0 .. m
    BY DEF TypeInv, m
  <1>7. Blended(Measured(h)) \in 0 .. m
    BY <1>3, <1>5, <1>6 DEF Blended
  <1>8. QED
    BY <1>5, <1>7 DEF m

LEMMA LearnType ==
    ASSUME TypeInv, Learn
    PROVE  /\ heat' \in Singles(HeatUps) /\ rate' \in 0 .. 10 * MaxAge * Interval
           /\ least' \in Nat
  <1>1. CASE seen = {}
    BY <1>1 DEF Learn, TypeInv, Singles
  <1>2. CASE seen # {}
    <2> DEFINE cur == (CHOOSE s \in seen : TRUE).temp
    <2>1. cur \in Coldest .. Top
      BY <1>2 DEF TypeInv, Singles, Readings
    <2> HIDE DEF cur
    <2>2. CASE Heating /\ cur < Comfort - 1
      <3>1. /\ heat' = (IF heat = {} THEN {[age |-> 0, start |-> cur]} ELSE heat)
            /\ UNCHANGED <<rate, least>>
        BY <1>2, <2>2 DEF Learn, cur
      <3>2. [age |-> 0, start |-> cur] \in HeatUps
        BY <2>1, <2>2, SetpointsAre, RoomAssumption, ClockAssumption DEF HeatUps
      <3>3. QED
        BY <3>1, <3>2 DEF TypeInv, Singles
    <2>3. CASE ~(Heating /\ cur < Comfort - 1)
      <3>1. /\ heat' = {}
            /\ rate' = IF \E h \in heat : h.age * Interval >= 2 /\ Comfort - h.start >= 1
                       THEN Blended(Measured(CHOOSE h \in heat : TRUE))
                       ELSE rate
            /\ least' = Smaller(least, IF rate' > 0 THEN rate' ELSE DefaultRate)
        BY <1>2, <2>3 DEF Learn, cur
      <3>2. heat # {} => (CHOOSE h \in heat : TRUE) \in HeatUps
        BY DEF TypeInv, Singles
      <3>3. rate' \in 0 .. 10 * MaxAge * Interval
        BY <3>1, <3>2, RateBounded DEF TypeInv
      <3>4. least' \in Nat
        BY <3>1, <3>3, ClockAssumption DEF TypeInv, Smaller
      <3>5. QED
        BY <3>1, <3>3, <3>4 DEF TypeInv, Singles
    <2>4. QED
      BY <2>2, <2>3
  <1>3. QED
    BY <1>1, <1>2

LEMMA RunType == TypeInv /\ Run => TypeInv'
  <1> SUFFICES ASSUME TypeInv, Run PROVE TypeInv'
    OBVIOUS
  <1>1. /\ ran' = TRUE /\ UNCHANGED <<presence, temp, warming, seen, tod>>
    BY DEF Run, room
  <1>2. CASE ~Present /\ ~Away
    BY <1>1, <1>2 DEF Run, TypeInv, engine
  <1>3. CASE ~(~Present /\ ~Away)
    <2>1. Learn
      BY <1>3 DEF Run
    <2>2. /\ heat' \in Singles(HeatUps) /\ rate' \in 0 .. 10 * MaxAge * Interval
          /\ least' \in Nat
      BY <2>1, LearnType
    <2>3. set' \in Setpoints /\ last' \in Singles(Setpoints)
      BY <1>3, TargetType DEF Run, TypeInv, Singles
    <2>4. UNCHANGED faults \/ \E kind : Fault(kind)
      BY <1>3 DEF Run
    <2>5. /\ faults' \subseteq Faults /\ IsFiniteSet(faults')
          /\ Cardinality(faults') <= MaxFaults
      BY <2>4, FaultType DEF TypeInv
    <2>6. QED
      BY <1>1, <2>2, <2>3, <2>5 DEF TypeInv
  <1>4. QED
    BY <1>2, <1>3

LEMMA TickType == TypeInv /\ Tick => TypeInv'
  <1> SUFFICES ASSUME TypeInv, Tick PROVE TypeInv'
    OBVIOUS
  <1>1. /\ ran' = FALSE /\ UNCHANGED <<presence, set, seen, last, rate, faults>>
        /\ least' \in Nat
    BY ClockAssumption DEF Tick, TypeInv
  <1>2. tod' \in 0 .. DayLength - 1
    BY ClockAssumption DEF Tick, TypeInv
  <1>3. temp' \in Coldest .. Top /\ warming' \in 0 .. Slowest - 1
    <2>1. set \in Int /\ set <= Top /\ Top \in Int /\ Coldest \in Int
      BY SetpointsAre, RoomAssumption DEF TypeInv
    <2>2. temp \in Coldest .. Top /\ warming \in 0 .. Slowest - 1
      BY DEF TypeInv
    <2>3. RoomChanges
      BY DEF Tick
    <2>4. QED
      BY <2>1, <2>2, <2>3, ClockAssumption DEF RoomChanges
  <1>4. heat' \in Singles(HeatUps)
    <2> DEFINE older(h) == [h EXCEPT !.age = IF @ < MaxAge THEN @ + 1 ELSE MaxAge]
    <2>1. \A h \in HeatUps : older(h) \in HeatUps
      BY ClockAssumption DEF HeatUps
    <2>2. heat' = {older(h) : h \in heat}
      BY DEF Tick
    <2> HIDE DEF older
    <2>3. QED
      BY <2>1, <2>2 DEF TypeInv, Singles
  <1>5. QED
    BY <1>1, <1>2, <1>3, <1>4 DEF TypeInv

LEMMA InitType == Init => TypeInv
  <1> SUFFICES ASSUME Init PROVE TypeInv
    OBVIOUS
  <1>1. temp \in Coldest .. Top /\ warming \in 0 .. Slowest - 1
    BY SetpointsAre, RoomAssumption, ClockAssumption DEF Init
  <1>2. tod \in 0 .. DayLength - 1
    BY ClockAssumption DEF Init
  <1>3. seen \in Singles(Readings) /\ set \in Setpoints
    BY <1>1 DEF Init, Actual, Singles, Readings
  <1>4. rate \in 0 .. 10 * MaxAge * Interval
    BY ClockAssumption DEF Init
  <1>5. faults \subseteq Faults /\ IsFiniteSet(faults) /\ Cardinality(faults) <= MaxFaults
    BY FS_EmptySet, ClockAssumption DEF Init
  <1>6. least \in Nat
    BY ClockAssumption DEF Init
  <1>7. QED
    BY <1>1, <1>2, <1>3, <1>4, <1>5, <1>6 DEF Init, TypeInv, Singles

LEMMA StepType == TypeInv /\ [Next]_vars => TypeInv'
  <1> SUFFICES ASSUME TypeInv, [Next]_vars PROVE TypeInv'
    OBVIOUS
  <1>1. CASE Run
    BY <1>1, RunType
  <1>2. CASE Tick
    BY <1>2, TickType
  <1>3. CASE Echo \/ Online
    BY <1>3, ActualType DEF Echo, Online, TypeInv, room, engine
  <1>4. CASE Offline \/ Manual \/ Restart
    <2>1. \E kind : Fault(kind)
      BY <1>4 DEF Offline, Manual, Restart
    <2>2. QED
      BY <1>4, <2>1, FaultType DEF Offline, Manual, Restart, TypeInv, room, engine, Singles
  <1>5. CASE \E p \in Persons : Moves(p)
    <2>1. UNCHANGED faults \/ \E kind : Fault(kind)
      BY <1>5 DEF Moves
    <2>2. /\ faults' \subseteq Faults /\ IsFiniteSet(faults')
          /\ Cardinality(faults') <= MaxFaults
      BY <2>1, FaultType DEF TypeInv
    <2>3. presence' \in [Persons -> {"home", "away", "unknown"}]
      BY <1>5 DEF Moves, TypeInv
    <2>4. QED
      BY <1>5, <2>2, <2>3 DEF Moves, TypeInv, room, engine
  <1>6. CASE UNCHANGED vars
    BY <1>6 DEF vars, room, engine, TypeInv
  <1>7. QED
    BY <1>1, <1>2, <1>3, <1>4, <1>5, <1>6 DEF Next

\* ThermostatEngine: whatever fails, the setpoint is one the configuration names, and
\* what is learned stays within the longest heat-up.
THEOREM TypeCorrect == Spec => []TypeOK
  <1>1. TypeInv => TypeOK
    <2> SUFFICES ASSUME TypeInv PROVE TypeOK
      OBVIOUS
    <2>1. /\ seen \subseteq Readings /\ Cardinality(seen) <= 1
          /\ last \subseteq Setpoints /\ Cardinality(last) <= 1
          /\ heat \subseteq HeatUps /\ Cardinality(heat) <= 1
      BY OneAtMost DEF TypeInv
    <2>2. QED
      BY <2>1 DEF TypeInv, TypeOK, Readings, HeatUps, Top
  <1>2. QED
    BY <1>1, InitType, StepType, PTL DEF Spec

-----------------------------------------------------------------------------
(***************************************************************************)
(* Warm on time.  While nothing goes wrong, the room is never further from *)
(* comfort than it can be heated in the time that is left, but for what    *)
(* the rates in use lack of the room's over the whole way, and one tick:   *)
(* while heating, way and time shrink together, and the engine lets the    *)
(* room cool only as long as the rate it knows leaves it more time.        *)
(***************************************************************************)
Ahead == (ComfortTime - tod) % DayLength
Missing == Comfort - temp
Gap == Larger(0, Missing)
PerTick == 20 * Interval
Way == Comfort - Coldest
Lead == Smaller(least, RoomRate)
InUse == IF rate > 0 THEN rate ELSE DefaultRate
\* how much too late the heating would begin in this tick
Behind == RoomRate * Missing - PerTick * warming - PerTick * Ahead
Lacking == (RoomRate - Lead) * Way + Lead

Known == faults = {} => seen # {} /\ \A p \in Persons : presence[p] # "unknown"
InTime ==
    faults = {} /\ Persons # {} =>
        /\ Behind < Lacking + PerTick
        /\ ran => set = Top \/ Lead * Gap < PerTick * Ahead

IInv == TypeInv /\ least <= InUse /\ Known /\ InTime

\* A smaller rate lacks more.
LEMMA LackingGrows ==
    ASSUME NEW f \in Nat, NEW m \in Nat, NEW n \in Nat, n <= m, m <= f, NEW d \in Nat \ {0}
    PROVE  (f - m) * d + m <= (f - n) * d + n
  <1>1. PICK k \in Nat : m = n + k
    <2>1. m - n \in Nat /\ m = n + (m - n)
      OBVIOUS
    <2>2. QED
      BY <2>1
  <1>2. PICK r \in Nat : f = m + r
    <2>1. f - m \in Nat /\ f = m + (f - m)
      OBVIOUS
    <2>2. QED
      BY <2>1
  <1>3. f - m = r /\ f - n = r + k
    BY <1>1, <1>2
  <1>4. (r + k) * d = r * d + k * d /\ r * d \in Nat /\ k * d \in Nat
    OBVIOUS
  <1>5. k * 1 <= k * d
    BY TimesMonotone
  <1>6. QED
    BY <1>1, <1>3, <1>4, <1>5

\* A room that has cooled by one step while there was time left.
LEMMA CoolsInTime ==
    ASSUME NEW f \in Nat, NEW m \in Nat, m <= f, NEW d \in Nat, NEW g \in Int, NEW gap \in Nat,
           NEW a \in Int, g <= d, g <= gap + 1, m * gap < a
    PROVE  f * g - a < (f - m) * d + m
  <1>1. PICK r \in Nat : f = m + r
    <2>1. f - m \in Nat /\ f = m + (f - m)
      OBVIOUS
    <2>2. QED
      BY <2>1
  <1>2. f * g = m * g + r * g /\ f - m = r
    BY <1>1
  <1>3. r * g <= r * d
    BY TimesMonotone
  <1>4. m * g <= m * (gap + 1) /\ m * (gap + 1) = m * gap + m
    <2>1. gap + 1 \in Int
      OBVIOUS
    <2>2. QED
      BY <2>1, TimesMonotone
  <1>5. m * g \in Int /\ r * g \in Int /\ r * d \in Int /\ m * gap \in Int
    OBVIOUS
  <1>6. QED
    BY <1>2, <1>3, <1>4, <1>5

LEMMA Numbers ==
    ASSUME TypeInv
    PROVE  /\ RoomRate \in Nat /\ PerTick \in Nat \ {0} /\ RoomRate = PerTick * Slowest
           /\ Way \in Nat \ {0} /\ Missing \in Int /\ Missing <= Way
           /\ Gap \in Nat /\ Missing <= Gap
           /\ Lead \in Nat /\ Lead <= RoomRate /\ least \in Nat
           /\ warming \in 0 .. Slowest - 1 /\ Slowest \in Nat \ {0}
           /\ temp \in Int /\ set \in Int /\ Comfort \in Int /\ Comfort <= Top /\ Top \in Int
  <1>1. /\ RoomRate \in Nat /\ PerTick \in Nat \ {0} /\ RoomRate = PerTick * Slowest
        /\ Slowest \in Nat \ {0}
    BY ClockAssumption DEF RoomRate, PerTick
  <1>2. /\ temp \in Int /\ Coldest <= temp /\ set \in Int
        /\ Comfort \in Int /\ Comfort <= Top /\ Top \in Int
    BY SetpointsAre, RoomAssumption DEF TypeInv
  <1>3. Way \in Nat \ {0} /\ Missing \in Int /\ Missing <= Way
    BY <1>2, RoomAssumption DEF Way, Missing
  <1>4. Gap \in Nat /\ Missing <= Gap
    BY <1>3 DEF Gap, Larger
  <1>5. least \in Nat /\ warming \in 0 .. Slowest - 1
    BY DEF TypeInv
  <1>6. Lead \in Nat /\ Lead <= RoomRate
    BY <1>1, <1>5 DEF Lead, Smaller
  <1>7. QED
    BY <1>1, <1>2, <1>3, <1>4, <1>5, <1>6

\* Ticks until the comfort time, from a tick to the next.
LEMMA ClockSteps ==
    ASSUME TypeInv
    PROVE  /\ Ahead \in Nat
           /\ tod = ComfortTime => Ahead = 0
           /\ tod' = (tod + 1) % DayLength =>
                 /\ Ahead' \in Nat /\ Ahead' >= Ahead - 1
                 /\ tod = ComfortTime => Ahead' >= DayLength - 1
  <1> DEFINE Until(t) == IF ComfortTime < t THEN ComfortTime - t + DayLength ELSE ComfortTime - t
  <1>1. /\ DayLength \in Nat \ {0} /\ ComfortTime \in 0 .. DayLength - 1
        /\ tod \in 0 .. DayLength - 1
    BY ClockAssumption DEF TypeInv
  <1>2. ASSUME NEW t \in 0 .. DayLength - 1
        PROVE  (ComfortTime - t) % DayLength = Until(t) /\ Until(t) \in Nat
    <2>1. ComfortTime - t \in Int /\ -DayLength < ComfortTime - t /\ ComfortTime - t < DayLength
      BY <1>1
    <2> DEFINE d == ComfortTime - t
    <2>2. d \in Int /\ -DayLength < d /\ d <= DayLength /\ DayLength \in Nat \ {0}
      BY <1>1, <2>1
    <2> HIDE DEF d
    <2>3. d % DayLength = IF d < 0 THEN d + DayLength ELSE IF d = DayLength THEN 0 ELSE d
      BY <2>2, ClockRemainder
    <2>4. QED
      BY <1>1, <2>1, <2>3 DEF d
  <1>3. Ahead = Until(tod) /\ Until(tod) \in Nat
    BY <1>1, <1>2 DEF Ahead
  <1>4. ASSUME tod' = (tod + 1) % DayLength
        PROVE  /\ Ahead' \in Nat /\ Ahead' >= Ahead - 1
               /\ tod = ComfortTime => Ahead' >= DayLength - 1
    <2> DEFINE n == tod + 1
    <2>1. n \in Int /\ -DayLength < n /\ n <= DayLength
      BY <1>1
    <2> HIDE DEF n
    <2>2. n % DayLength = IF n < 0 THEN n + DayLength ELSE IF n = DayLength THEN 0 ELSE n
      BY <1>1, <2>1, ClockRemainder
    <2>3. tod' = IF tod + 1 = DayLength THEN 0 ELSE tod + 1
      BY <1>1, <1>4, <2>2 DEF n
    <2>4. tod' \in 0 .. DayLength - 1
      BY <1>1, <2>3
    <2>5. Ahead' = Until(tod') /\ Until(tod') \in Nat
      BY <1>2, <2>4 DEF Ahead
    <2>6. QED
      BY <1>1, <1>3, <2>3, <2>5
  <1>5. QED
    BY <1>1, <1>3, <1>4

\* An engine that does not heat has more time than the rate it uses asks for.
LEMMA NotPreheating ==
    ASSUME TypeInv, least <= InUse, Away, ~Preheating, seen = Actual
    PROVE  Lead * Gap < PerTick * Ahead
  <1>1. /\ Gap \in Nat /\ Lead \in Nat /\ PerTick \in Nat /\ Ahead \in Nat
        /\ Interval \in Nat /\ Rate \in Nat
    BY Numbers, ClockSteps, ClockAssumption DEF Rate, TypeInv
  <1>2. Lead <= Rate
    BY Numbers, <1>1, ClockAssumption DEF Lead, Smaller, InUse, Rate
  <1>3. ~(20 * MinutesToComfort <= Rate * Gap)
    BY DEF Preheating, Actual, Missing, Gap
  <1>4. 20 * MinutesToComfort = PerTick * Ahead
    BY <1>1 DEF MinutesToComfort, Ahead, PerTick
  <1>5. Lead * Gap <= Rate * Gap
    BY <1>1, <1>2, TimesMonotone
  <1>6. PerTick * Ahead \in Int /\ Rate * Gap \in Int /\ Lead * Gap \in Int
    BY <1>1
  <1>7. QED
    BY <1>3, <1>4, <1>5, <1>6

\* What is learned may only take away from what is promised.
LEMMA LearnLeads ==
    ASSUME TypeInv, TypeInv', Learn, least <= InUse
    PROVE  least' <= InUse' /\ Lead' <= Lead
  <1>1. least \in Nat /\ least' \in Nat /\ rate' \in Nat /\ RoomRate \in Nat
    BY Numbers, ClockAssumption DEF TypeInv
  <1>2. \/ UNCHANGED <<rate, least>>
        \/ least' = Smaller(least, IF rate' > 0 THEN rate' ELSE DefaultRate)
    BY DEF Learn
  <1>3. least' <= least /\ least' <= InUse'
    BY <1>1, <1>2, ClockAssumption DEF Smaller, InUse
  <1>4. Lead' = Smaller(least', RoomRate)
    BY DEF Lead, RoomRate
  <1>5. QED
    BY <1>1, <1>3, <1>4 DEF Lead, Smaller

\* After a run the thermostat is at comfort, or there is time left.
LEMMA RunInTime ==
    ASSUME IInv, Run, TypeInv', faults' = {}, Persons # {}
    PROVE  /\ Learn
           /\ set' = Top \/ Lead * Gap < PerTick * Ahead
  <1>1. \A kind : ~Fault(kind)
    BY DEF Fault
  <1>2. faults = {}
    BY <1>1 DEF Run
  <1>3. seen # {} /\ \A p \in Persons : presence[p] \in {"home", "away"}
    BY <1>2 DEF IInv, Known, TypeInv
  <1>4. Present \/ Away
    BY <1>3 DEF Present, Away
  <1>5. Learn /\ seen = Actual /\ set' = Target
    BY <1>1, <1>3, <1>4 DEF Run, Already, Actual
  <1>6. CASE Present \/ Preheating
    BY <1>5, <1>6 DEF Target, Top
  <1>7. CASE ~(Present \/ Preheating)
    BY <1>4, <1>5, <1>7, NotPreheating DEF IInv
  <1>8. QED
    BY <1>5, <1>6, <1>7

LEMMA RunKeepsTime ==
    ASSUME IInv, Run, TypeInv', faults' = {}, Persons # {}
    PROVE  /\ (Behind < Lacking + PerTick)'
           /\ set' = Top \/ (Lead * Gap < PerTick * Ahead)'
  <1>1. Learn /\ (set' = Top \/ Lead * Gap < PerTick * Ahead)
    BY RunInTime
  <1>2. Lead' <= Lead /\ Lead' \in Nat
    <2>1. least' \in Nat /\ RoomRate \in Nat
      BY Numbers, ClockAssumption DEF TypeInv, IInv
    <2>2. Lead' = Smaller(least', RoomRate)
      BY DEF Lead, RoomRate
    <2>3. QED
      BY <1>1, <2>1, <2>2, LearnLeads DEF IInv, Smaller
  <1>3. UNCHANGED <<temp, warming, tod>> /\ faults = {}
    BY DEF Run, room, Fault
  <1>4. Behind' = Behind /\ Gap' = Gap /\ Ahead' = Ahead
    BY <1>3 DEF Behind, Missing, Gap, Ahead, RoomRate, PerTick
  <1>5. Behind < Lacking + PerTick
    BY <1>3 DEF IInv, InTime
  <1>6. /\ RoomRate \in Nat /\ Lead \in Nat /\ Lead <= RoomRate /\ Way \in Nat \ {0}
        /\ Gap \in Nat /\ PerTick \in Nat /\ Ahead \in Nat /\ Missing \in Int /\ warming \in Int
    BY Numbers, ClockSteps DEF IInv
  <1>7. Lacking <= (RoomRate - Lead') * Way + Lead'
    BY <1>2, <1>6, LackingGrows DEF Lacking
  <1>8. Lacking' = (RoomRate - Lead') * Way + Lead'
    BY DEF Lacking, RoomRate, Way
  <1>9. Behind \in Int /\ Lacking \in Int /\ (RoomRate - Lead') * Way + Lead' \in Int
    BY <1>2, <1>6 DEF Behind, Lacking
  <1>10. (Behind < Lacking + PerTick)'
    <2>1. PerTick' = PerTick
      BY DEF PerTick
    <2>2. Behind < (RoomRate - Lead') * Way + Lead' + PerTick
      BY <1>5, <1>6, <1>7, <1>9
    <2>3. QED
      BY <1>4, <1>8, <2>1, <2>2
  <1>11. Lead' * Gap <= Lead * Gap /\ Lead' * Gap \in Int /\ Lead * Gap \in Int
    <2>1. PICK l \in Nat : Lead' = l /\ l <= Lead
      BY <1>2
    <2>2. l * Gap <= Lead * Gap /\ l * Gap \in Int /\ Lead * Gap \in Int
      BY <1>6, <2>1, TimesMonotone
    <2>3. QED
      BY <2>1, <2>2
  <1>12. PerTick * Ahead \in Int
    BY <1>6
  <1>13. set' = Top \/ Lead' * Gap < PerTick * Ahead
    BY <1>1, <1>11, <1>12
  <1>14. QED
    BY <1>4, <1>10, <1>13 DEF PerTick

\* A tick that leaves the comfort time behind has a day before it.
LEMMA NextDay ==
    ASSUME TypeInv, TypeInv', Tick, tod = ComfortTime
    PROVE  Behind' <= 0
  <1>1. /\ RoomRate = PerTick * Slowest /\ PerTick \in Nat /\ Slowest \in Nat
        /\ Way \in Nat /\ DayLength \in Nat
    BY Numbers, ClockAssumption
  <1>2. PICK g \in Int : Missing' = g /\ g <= Way
    <2>1. PICK t \in Int : temp' = t /\ Coldest <= t
      BY SetpointsAre, RoomAssumption DEF TypeInv
    <2>2. Missing' = Comfort - t
      BY <2>1 DEF Missing
    <2>3. Comfort - t \in Int /\ Comfort - t <= Comfort - Coldest
      BY <2>1, RoomAssumption
    <2>4. QED
      BY <2>2, <2>3 DEF Way
  <1>3. PICK w \in Nat : warming' = w
    BY ClockAssumption DEF TypeInv
  <1>4. PICK a \in Nat : Ahead' = a /\ a >= DayLength - 1
    BY ClockSteps DEF Tick
  <1>5. Slowest * g <= Slowest * Way
    BY <1>1, <1>2, TimesMonotone
  <1>6. Slowest * Way <= DayLength - 1
    <2>1. Slowest * Way < DayLength
      BY HeatingAssumption DEF Way
    <2>2. Slowest * Way \in Int
      BY <1>1
    <2>3. QED
      BY <1>1, <2>1, <2>2
  <1>7. PerTick * (Slowest * g) <= PerTick * a
    <2>1. Slowest * g \in Int /\ Slowest * Way \in Int
      BY <1>1, <1>2
    <2>2. Slowest * g <= a
      BY <1>1, <1>4, <1>5, <1>6, <2>1
    <2>3. QED
      BY <1>1, <2>1, <2>2, TimesMonotone
  <1>8. RoomRate * g = PerTick * (Slowest * g)
    BY <1>1
  <1>9. PerTick * w \in Nat /\ RoomRate * g \in Int /\ PerTick * a \in Int
    BY <1>1
  <1>10. Behind' = RoomRate * g - PerTick * w - PerTick * a
    BY <1>2, <1>3, <1>4 DEF Behind, RoomRate, PerTick
  <1>11. RoomRate * g - PerTick * w - PerTick * a <= 0
    BY <1>7, <1>8, <1>9
  <1>12. QED
    BY <1>10, <1>11

LEMMA TickInTime ==
    ASSUME IInv, Tick, TypeInv', faults = {}, Persons # {}
    PROVE  (Behind < Lacking + PerTick)'
  <1>1. /\ RoomRate \in Nat /\ PerTick \in Nat \ {0} /\ RoomRate = PerTick * Slowest
        /\ Way \in Nat \ {0} /\ Missing \in Int /\ Gap \in Nat /\ Missing <= Gap
        /\ Lead \in Nat /\ Lead <= RoomRate
        /\ warming \in 0 .. Slowest - 1 /\ Slowest \in Nat \ {0}
        /\ temp \in Int /\ set \in Int /\ Comfort \in Int /\ Comfort <= Top /\ Top \in Int
    BY Numbers DEF IInv
  <1>2. Ahead \in Nat /\ Ahead' \in Nat /\ Ahead' >= Ahead - 1
    BY ClockSteps DEF Tick, IInv
  <1>3. /\ Behind < Lacking + PerTick
        /\ set = Top \/ Lead * Gap < PerTick * Ahead
    BY DEF IInv, InTime, Tick
  <1>4. /\ Behind = RoomRate * Missing - PerTick * warming - PerTick * Ahead
        /\ Behind' = RoomRate * Missing' - PerTick * warming' - PerTick * Ahead'
        /\ Missing = Comfort - temp /\ Missing' = Comfort - temp'
    BY DEF Behind, RoomRate, PerTick, Missing
  <1>5. /\ RoomRate * Missing \in Int /\ PerTick * Ahead \in Nat /\ PerTick * Ahead' \in Nat
        /\ PerTick * warming \in Int /\ Lacking \in Nat
    <2>1. (RoomRate - Lead) * Way \in Nat
      <3>1. RoomRate - Lead \in Nat /\ Way \in Nat
        BY <1>1
      <3>2. QED
        BY <3>1
    <2>2. Lacking \in Nat
      BY <1>1, <2>1 DEF Lacking
    <2>3. PICK a \in Nat : Ahead' = a
      BY <1>2
    <2>4. PerTick * a \in Nat /\ PerTick * Ahead \in Nat
      BY <1>1, <1>2
    <2>5. QED
      BY <1>1, <2>2, <2>3, <2>4
  <1>6. PerTick * Ahead' >= PerTick * Ahead - PerTick
    <2>1. PICK a \in Nat : Ahead' = a /\ Ahead - 1 <= a
      BY <1>2
    <2>2. PerTick * (Ahead - 1) <= PerTick * a
      BY <1>1, <1>2, <2>1, TimesMonotone
    <2>3. PerTick * (Ahead - 1) = PerTick * Ahead - PerTick
      BY <1>1, <1>2
    <2>4. PerTick * a \in Int
      BY <1>1
    <2>5. QED
      BY <1>1, <1>5, <2>1, <2>2, <2>3, <2>4
  <1>7. RoomChanges
    BY DEF Tick
  <1>8. Behind' < Lacking + PerTick
    <2>1. CASE set > temp /\ temp' = temp + 1 /\ warming' = 0
      <3>1. RoomRate * Missing' = RoomRate * Missing - RoomRate
        <4>1. Missing' = Missing - 1
          BY <1>1, <1>4, <2>1
        <4>2. RoomRate * (Missing - 1) = RoomRate * Missing - RoomRate
          BY <1>1
        <4>3. QED
          BY <4>1, <4>2
      <3>2. PerTick * warming <= RoomRate - PerTick
        <4>1. PerTick * warming <= PerTick * (Slowest - 1)
          BY <1>1, TimesMonotone
        <4>2. PerTick * (Slowest - 1) = PerTick * Slowest - PerTick
          BY <1>1
        <4>3. QED
          BY <1>1, <4>1, <4>2
      <3>3. PerTick * warming' = 0
        BY <1>1, <2>1
      <3>4. Behind' <= Behind
        BY <1>1, <1>4, <1>5, <1>6, <3>1, <3>2, <3>3
      <3>5. Behind \in Int /\ Behind' \in Int
        BY <1>1, <1>4, <1>5, <3>1, <3>3
      <3>6. QED
        BY <1>1, <1>3, <1>5, <3>4, <3>5
    <2>2. CASE temp' = temp /\ warming' = warming + 1
      <3>1. Missing' = Missing
        BY <1>4, <2>2
      <3>2. PerTick * warming' = PerTick * warming + PerTick
        <4>1. PerTick * (warming + 1) = PerTick * warming + PerTick
          BY <1>1
        <4>2. QED
          BY <2>2, <4>1
      <3>3. Behind' <= Behind
        BY <1>1, <1>4, <1>5, <1>6, <3>1, <3>2
      <3>4. Behind \in Int /\ Behind' \in Int
        BY <1>1, <1>4, <1>5, <3>1, <3>2
      <3>5. QED
        BY <1>1, <1>3, <1>5, <3>3, <3>4
    <2>3. CASE /\ set <= temp /\ warming' = 0
               /\ temp' \in {temp, IF set < temp /\ temp > Coldest THEN temp - 1 ELSE temp}
      <3>1. PICK t \in Int : temp' = t /\ t >= temp - 1 /\ t >= set /\ Coldest <= t
        <4>1. temp' \in Int /\ Coldest <= temp'
          BY SetpointsAre, RoomAssumption DEF TypeInv
        <4>2. QED
          BY <1>1, <2>3, <4>1
      <3>2. /\ Missing' \in Int /\ Missing' <= Missing + 1 /\ Missing' <= Way
            /\ Missing' = Comfort - t
        BY <1>1, <1>4, <3>1, RoomAssumption DEF Way
      <3>3. PerTick * warming' = 0 /\ RoomRate * Missing' \in Int
        BY <1>1, <2>3, <3>2
      <3>4. CASE set = Top
        <4>1. Missing' <= 0
          BY <1>1, <3>1, <3>2, <3>4
        <4>2. RoomRate * Missing' <= 0
          BY <1>1, <3>2, <4>1, TimesSign
        <4>3. QED
          BY <1>1, <1>4, <1>5, <3>3, <4>2
      <3>5. CASE Lead * Gap < PerTick * Ahead
        <4>1. Missing' <= Gap + 1
          BY <1>1, <3>2
        <4>2. RoomRate * Missing' - PerTick * Ahead < (RoomRate - Lead) * Way + Lead
          BY <1>1, <1>5, <3>2, <3>5, <4>1, CoolsInTime
        <4>3. RoomRate * Missing' - PerTick * Ahead < Lacking
          BY <4>2 DEF Lacking
        <4>4. QED
          BY <1>1, <1>4, <1>5, <1>6, <3>3, <4>3
      <3>6. QED
        BY <1>3, <3>4, <3>5
    <2>4. QED
      BY <1>7, <2>1, <2>2, <2>3 DEF RoomChanges
  <1>9. CASE tod # ComfortTime
    <2>1. least' = least
      BY <1>9 DEF Tick
    <2>2. Lacking' = Lacking /\ PerTick' = PerTick
      BY <2>1 DEF Lacking, Lead, RoomRate, Way, PerTick
    <2>3. QED
      BY <1>8, <2>2
  <1>10. CASE tod = ComfortTime
    <2>1. Behind' <= 0
      BY <1>10, NextDay DEF IInv
    <2>2. Lacking' \in Nat
      <3>1. Lead' \in Nat /\ Lead' <= RoomRate
        <4>1. least' \in Nat
          BY DEF TypeInv
        <4>2. Lead' = Smaller(least', RoomRate)
          BY DEF Lead, RoomRate
        <4>3. PICK l \in Nat : least' = l
          BY <4>1
        <4>4. Smaller(l, RoomRate) \in Nat /\ Smaller(l, RoomRate) <= RoomRate
          BY <1>1 DEF Smaller
        <4>5. QED
          BY <4>2, <4>3, <4>4
      <3>2. PICK l \in Nat : Lead' = l /\ l <= RoomRate
        BY <3>1
      <3>3. RoomRate - l \in Nat /\ Way \in Nat
        BY <1>1, <3>2
      <3>4. (RoomRate - l) * Way \in Nat
        BY <3>3
      <3>5. Lacking' = (RoomRate - l) * Way + l
        BY <3>2 DEF Lacking, RoomRate, Way
      <3>6. QED
        BY <3>2, <3>4, <3>5
    <2>3. Behind' \in Int
      <3>1. Missing' \in Int /\ warming' \in Int
        BY <1>4, SetpointsAre, RoomAssumption, ClockAssumption DEF TypeInv
      <3>2. RoomRate * Missing' \in Int /\ PerTick * warming' \in Int
        BY <1>1, <3>1
      <3>3. QED
        BY <1>4, <1>5, <3>2
    <2>4. PerTick' = PerTick
      BY DEF PerTick
    <2>5. PICK b \in Int, l \in Nat : Behind' = b /\ Lacking' = l /\ b <= 0
      BY <2>1, <2>2, <2>3
    <2>6. b < l + PerTick
      BY <1>1, <2>5
    <2>7. QED
      BY <2>4, <2>5, <2>6
  <1>11. QED
    BY <1>9, <1>10

LEMMA InitIInv == Init => IInv
  <1> SUFFICES ASSUME Init PROVE IInv
    OBVIOUS
  <1>1. TypeInv
    BY InitType
  <1>2. Known /\ least <= InUse
    BY ClockAssumption DEF Init, Known, Actual, InUse
  <1>3. InTime
    <2>1. Missing = 0 /\ warming = 0 /\ ran = FALSE
      BY RoomAssumption DEF Init, Missing
    <2>2. /\ Ahead \in Nat /\ RoomRate \in Nat /\ PerTick \in Nat \ {0} /\ Way \in Nat
          /\ Lead \in Nat /\ Lead <= RoomRate
      BY <1>1, ClockSteps, Numbers
    <2>3. (RoomRate - Lead) * Way \in Nat
      <3>1. RoomRate - Lead \in Nat
        BY <2>2
      <3>2. QED
        BY <2>2, <3>1
    <2>4. RoomRate * Missing = 0 /\ PerTick * warming = 0 /\ PerTick * Ahead \in Nat
      BY <2>1, <2>2
    <2>5. Behind < Lacking + PerTick
      BY <2>2, <2>3, <2>4 DEF Behind, Lacking
    <2>6. QED
      BY <2>1, <2>5 DEF InTime
  <1>4. QED
    BY <1>1, <1>2, <1>3 DEF IInv

LEMMA StepIInv ==
    ASSUME IInv, [Next]_vars
    PROVE  IInv'
  <1>1. TypeInv /\ TypeInv'
    BY StepType DEF IInv
  <1>2. least' <= InUse'
    <2>1. CASE Run
      <3>1. Learn \/ UNCHANGED <<rate, least>>
        BY <2>1 DEF Run, engine
      <3>2. QED
        BY <1>1, <3>1, LearnLeads DEF IInv, InUse
    <2>2. CASE Tick
      <3>1. rate' = rate /\ least' \in {least, InUse}
        BY <2>2 DEF Tick, InUse
      <3>2. InUse' = InUse /\ InUse \in Int
        BY <1>1, <3>1, ClockAssumption DEF InUse, TypeInv
      <3>3. QED
        BY <3>1, <3>2 DEF IInv
    <2>3. CASE ~Run /\ ~Tick
      <3>1. UNCHANGED <<rate, least>>
        BY <2>3 DEF Next, vars, engine, Echo, Offline, Online, Manual, Restart, Moves
      <3>2. QED
        BY <3>1 DEF IInv, InUse
    <2>4. QED
      BY <2>1, <2>2, <2>3
  <1>3. faults' = {} => faults = {}
    BY DEF Next, vars, Run, Tick, Echo, Offline, Online, Manual, Restart, Moves, Fault
  <1>4. Known'
    <2> SUFFICES ASSUME faults' = {}
                 PROVE  seen' # {} /\ \A p \in Persons : presence'[p] # "unknown"
      BY DEF Known
    <2>1. \A kind : ~Fault(kind)
      BY DEF Fault
    <2>2. seen # {} /\ \A p \in Persons : presence[p] # "unknown"
      BY <1>3 DEF IInv, Known
    <2>3. seen' \in {seen, Actual}
      BY <2>1 DEF Next, vars, Run, Tick, Echo, Offline, Online, Manual, Restart, Moves
    <2>4. CASE \E p \in Persons : Moves(p)
      BY <1>1, <2>1, <2>2, <2>3, <2>4 DEF Moves, TypeInv, Actual
    <2>5. CASE ~\E p \in Persons : Moves(p)
      <3>1. presence' = presence
        BY <2>5 DEF Next, vars, Run, Tick, Echo, Offline, Online, Manual, Restart
      <3>2. QED
        BY <2>2, <2>3, <3>1 DEF Actual
    <2>6. QED
      BY <2>4, <2>5
  <1>5. InTime'
    <2> SUFFICES ASSUME faults' = {}, Persons # {}
                 PROVE  /\ (Behind < Lacking + PerTick)'
                        /\ ran' => set' = Top \/ (Lead * Gap < PerTick * Ahead)'
      BY DEF InTime, Top
    <2>1. faults = {}
      BY <1>3
    <2>2. /\ Behind < Lacking + PerTick
          /\ ran => set = Top \/ Lead * Gap < PerTick * Ahead
      BY <2>1 DEF IInv, InTime
    <2>3. CASE Run
      BY <1>1, <2>3, RunKeepsTime
    <2>4. CASE Tick
      <3>1. ~ran'
        BY <2>4 DEF Tick
      <3>2. QED
        BY <1>1, <2>1, <2>4, <3>1, TickInTime
    <2>5. CASE ~Run /\ ~Tick
      <3>1. \A kind : ~Fault(kind)
        BY DEF Fault
      <3>2. UNCHANGED <<temp, warming, tod, ran, set, least>>
        BY <2>5, <3>1 DEF Next, vars, room, engine, Echo, Offline, Online, Manual, Restart, Moves
      <3>3. /\ Behind' = Behind /\ Lacking' = Lacking /\ PerTick' = PerTick
            /\ Lead' = Lead /\ Gap' = Gap /\ Ahead' = Ahead
        BY <3>2 DEF Behind, Lacking, PerTick, Lead, Gap, Ahead, Missing, RoomRate, Way
      <3>4. QED
        BY <2>2, <3>2, <3>3
    <2>6. QED
      BY <2>3, <2>4, <2>5
  <1>6. QED
    BY <1>1, <1>2, <1>4, <1>5 DEF IInv

\* "starts heating early enough": for any room that warms by half a kelvin in Slowest
\* ticks, any day, comfort time, temperatures, default rate and whatever rates are learned
\* from whatever heat-ups: at the comfort time the room lacks no more of the way from its
\* coldest than the smallest rate in use since the day before lacks of the room's.
THEOREM WarmInTime == Spec => []WarmOnTime
  <1>1. IInv => WarmOnTime
    <2> SUFFICES ASSUME IInv, tod = ComfortTime, Away, faults = {}
                 PROVE  RoomRate * Missing < (RoomRate - Lead) * Way + RoomRate + Lead
      BY DEF WarmOnTime, Missing, Way, Lead
    <2>1. /\ RoomRate \in Nat /\ PerTick \in Nat \ {0} /\ RoomRate = PerTick * Slowest
          /\ Way \in Nat \ {0} /\ Missing \in Int /\ Lead \in Nat
          /\ warming \in 0 .. Slowest - 1 /\ Slowest \in Nat \ {0}
      BY Numbers DEF IInv
    <2>2. Ahead = 0
      BY ClockSteps DEF IInv
    <2>3. RoomRate * Missing - PerTick * warming - PerTick * Ahead
            < (RoomRate - Lead) * Way + Lead + PerTick
      BY DEF IInv, InTime, Away, Behind, Lacking
    <2>4. PerTick * warming <= RoomRate - PerTick
      <3>1. PerTick * warming <= PerTick * (Slowest - 1)
        BY <2>1, TimesMonotone
      <3>2. PerTick * (Slowest - 1) = PerTick * Slowest - PerTick
        BY <2>1
      <3>3. QED
        BY <2>1, <3>1, <3>2
    <2>5. /\ RoomRate * Missing \in Int /\ PerTick * warming \in Int /\ PerTick * Ahead = 0
          /\ (RoomRate - Lead) * Way \in Int
      BY <2>1, <2>2
    <2>6. QED
      BY <2>1, <2>3, <2>4, <2>5
  <1>2. QED
    BY <1>1, InitIInv, StepIInv, PTL DEF Spec

=============================================================================
