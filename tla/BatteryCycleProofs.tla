-------------------------- MODULE BatteryCycleProofs --------------------------
(***************************************************************************)
(* The battery's setpoints: within its power whatever the controllers ask  *)
(* for; and, as long as the last controller of the chain has a target for  *)
(* both in every cycle, never a forced charge and a forced discharge at    *)
(* once and none of them beyond the reserve and the cap.                   *)
(***************************************************************************)
EXTENDS BatteryCycle, TLAPS

-----------------------------------------------------------------------------
(***************************************************************************)
(* The first controller of a chain that has a target.                      *)
(***************************************************************************)
LEMMA FirstIs ==
    ASSUME NEW chain, DOMAIN chain = 1 .. 6, NEW entity,
           NEW i \in 1 .. 6, chain[i][entity] # {},
           \A j \in 1 .. 6 : j < i => chain[j][entity] = {}
    PROVE  First(chain, entity) = chain[i][entity]
  <1> DEFINE with == {k \in DOMAIN chain : chain[k][entity] # {}}
             least(k) == \A j \in with : k <= j
  <1>1. i \in with /\ with \subseteq 1 .. 6
    OBVIOUS
  <1>2. least(i)
    OBVIOUS
  <1>3. \A k \in with : least(k) => k = i
    BY <1>1, <1>2
  <1>4. (CHOOSE k \in with : least(k)) = i
    <2> HIDE DEF with, least
    <2>1. QED
      BY <1>1, <1>2, <1>3
  <1>5. First(chain, entity) = IF with = {} THEN {}
                               ELSE chain[CHOOSE k \in with : least(k)][entity]
    BY DEF First
  <1>6. QED
    BY <1>1, <1>4, <1>5

\* Either nobody has a target, or there is a first who has.
LEMMA FirstExists ==
    ASSUME NEW chain, DOMAIN chain = 1 .. 6, NEW entity
    PROVE  \/ First(chain, entity) = {}
           \/ \E i \in 1 .. 6 : First(chain, entity) = chain[i][entity]
  <1>1. CASE \A i \in 1 .. 6 : chain[i][entity] = {}
    <2>1. {k \in DOMAIN chain : chain[k][entity] # {}} = {}
      BY <1>1
    <2>2. QED
      BY <2>1 DEF First
  <1>2. CASE \E i \in 1 .. 6 : chain[i][entity] # {}
    <2>1. \E i \in 1 .. 6 : /\ chain[i][entity] # {}
                            /\ \A j \in 1 .. 6 : j < i => chain[j][entity] = {}
      <3> DEFINE has(i) == chain[i][entity] # {}
      <3>1. \E i \in 1 .. 6 : has(i)
        BY <1>2
      <3> HIDE DEF has
      <3>2. has(1) \/ has(2) \/ has(3) \/ has(4) \/ has(5) \/ has(6)
        BY <3>1
      <3>3. \E i \in 1 .. 6 : has(i) /\ \A j \in 1 .. 6 : j < i => ~has(j)
        BY <3>2
      <3>4. QED
        BY <3>3 DEF has
    <2>2. QED
      BY <2>1, FirstIs
  <1>3. QED
    BY <1>1, <1>2

-----------------------------------------------------------------------------
(***************************************************************************)
(* Types.                                                                  *)
(***************************************************************************)
Target == {{}} \cup {{t} : t \in Int}
Contribution == [charge : Target, discharge : Target]

LEMMA Parameters ==
    /\ Full \in Nat /\ Full > 0 /\ MaxW \in Nat /\ MaxW > 0
    /\ Reserve \in 0 .. Full /\ SocMax \in 0 .. Full /\ Emergency \in 0 .. Full
    /\ SurplusMinSoc \in 0 .. Full /\ PeakLimit \in Nat /\ FeedInLimit \in Nat
    /\ Interval \in Nat /\ Interval > 0
  BY LevelsAssumption, PowersAssumption, SettingsAssumption

LEMMA NothingContributes == Nothing \in Contribution
  BY DEF Nothing, Contribution, Target

LEMMA ChargeContributes ==
    ASSUME NEW a \in Int
    PROVE  [Nothing EXCEPT !.charge = {a}] \in Contribution
  <1>1. {a} \in Target /\ {} \in Target
    BY DEF Target
  <1>2. QED
    BY <1>1 DEF Nothing, Contribution

LEMMA TargetsContribute ==
    ASSUME NEW a \in Int, NEW b \in Int
    PROVE  Targets(a, b) \in Contribution
  <1>1. {a} \in Target /\ {b} \in Target
    BY DEF Target
  <1>2. QED
    BY <1>1 DEF Targets, Contribution

LEMMA Measured ==
    ASSUME TypeOK
    PROVE  BattW \in Int /\ GridW \in Int /\ SurplusSigned \in Int
  <1>1. net \in Int /\ soc \in Int /\ charge \in Int /\ discharge \in Int
    BY Parameters, PowersAssumption DEF TypeOK
  <1>2. BattW \in Int
    BY <1>1 DEF BattW
  <1>3. GridW \in Int
    BY <1>1, <1>2 DEF GridW
  <1>4. SurplusSigned \in Int
    BY <1>2, <1>3 DEF SurplusSigned, Smaller
  <1>5. QED
    BY <1>2, <1>3, <1>4

IsPlan(plan) == plan.mode \in {"idle", "charge", "discharge"} /\ plan.power \in Int

LEMMA ChainType ==
    ASSUME TypeOK, NEW plan, IsPlan(plan)
    PROVE  /\ DOMAIN Chain(plan) = 1 .. 6
           /\ \A i \in 1 .. 6 : Chain(plan)[i] \in Contribution
  <1>1. BattW \in Int /\ GridW \in Int /\ SurplusSigned \in Int /\ charge \in Int /\ MaxW \in Int
        /\ PeakLimit \in Int /\ FeedInLimit \in Int
    BY Measured, Parameters DEF TypeOK
  <1>2. \A w \in Int : Deliverable(w) \in Int
    BY <1>1 DEF Deliverable, Smaller
  <1>3. BatteryCare \in Contribution
    <2>1. Targets(MaxW, 0) \in Contribution
      BY <1>1, TargetsContribute
    <2>2. QED
      BY <2>1, NothingContributes DEF BatteryCare
  <1>4. EssReserve \in Contribution
    <2>1. [Nothing EXCEPT !.charge = {MaxW}] \in Contribution
      BY <1>1, ChargeContributes
    <2>2. QED
      BY <2>1, NothingContributes DEF EssReserve
  <1>5. FeedIn \in Contribution
    <2> DEFINE over == Larger(0, -GridW) - FeedInLimit
    <2>1. over \in Int
      BY <1>1 DEF Larger
    <2>2. [Nothing EXCEPT !.charge = {Deliverable(over)}] \in Contribution
      BY <1>2, <2>1, ChargeContributes
    <2>3. QED
      BY <2>2, NothingContributes DEF FeedIn
  <1>6. PeakShaving \in Contribution
    <2> DEFINE over == GridW - PeakLimit
    <2>1. over \in Int
      BY <1>1
    <2>2. Deliverable(over) \in Int
      BY <1>2, <2>1
    <2>3. Targets(0, Deliverable(over)) \in Contribution
      BY <2>2, TargetsContribute
    <2>4. QED
      BY <2>3, NothingContributes DEF PeakShaving
  <1>7. Optimizing(plan) \in Contribution
    <2>1. Targets(plan.power, 0) \in Contribution /\ Targets(0, plan.power) \in Contribution
      BY TargetsContribute DEF IsPlan
    <2>2. QED
      BY <2>1, NothingContributes DEF Optimizing
  <1>8. Modulation \in Contribution
    <2>1. Follow \in Int
      BY <1>1, <1>2 DEF Follow, Larger
    <2>2. Targets(MaxW, 0) \in Contribution /\ Targets(0, MaxW) \in Contribution
          /\ Targets(Follow, 0) \in Contribution
      BY <1>1, <2>1, TargetsContribute
    <2>3. QED
      BY <2>2, NothingContributes, Zenon DEF Modulation
  <1>9. QED
    BY <1>3, <1>4, <1>5, <1>6, <1>7, <1>8 DEF Chain

\* What is written lies within the battery's power.
LEMMA WrittenType ==
    ASSUME NEW target \in Target, NEW old \in 0 .. MaxW, NEW barred \in BOOLEAN
    PROVE  Written(target, old, barred) \in 0 .. MaxW
  <1>1. MaxW \in Nat
    BY Parameters
  <1>2. CASE target = {}
    BY <1>2 DEF Written
  <1>3. CASE target # {}
    <2>1. PICK t \in Int : target = {t}
      BY <1>3 DEF Target
    <2>2. (CHOOSE x \in target : TRUE) = t
      BY <2>1
    <2>3. Larger(0, Deliverable(t)) \in 0 .. MaxW /\ 0 \in 0 .. MaxW
      BY <1>1 DEF Larger, Deliverable, Smaller
    <2>4. QED
      BY <1>1, <1>3, <2>2, <2>3 DEF Written
  <1>4. QED
    BY <1>2, <1>3

\* A target of nothing, or a bound of nothing, is written as nothing.
LEMMA WrittenZero ==
    ASSUME NEW target, NEW old, NEW barred, target # {}, barred \/ target = {0}
    PROVE  Written(target, old, barred) = 0
  <1>1. target = {0} => (CHOOSE x \in target : TRUE) = 0
    OBVIOUS
  <1>2. Larger(0, Deliverable(0)) = 0
    BY Parameters DEF Larger, Deliverable, Smaller
  <1>3. QED
    BY <1>1, <1>2 DEF Written

LEMMA FirstType ==
    ASSUME TypeOK, NEW plan, IsPlan(plan), NEW entity \in {"charge", "discharge"}
    PROVE  First(Chain(plan), entity) \in Target
  <1>1. {} \in Target
    BY DEF Target
  <1>2. \A c \in Contribution : c[entity] \in Target
    BY DEF Contribution
  <1>3. DOMAIN Chain(plan) = 1 .. 6 /\ \A i \in 1 .. 6 : Chain(plan)[i][entity] \in Target
    BY <1>2, ChainType
  <1>4. QED
    BY <1>1, <1>3, FirstExists

\* The cycle, with the plan it worked with.
LEMMA CycleWrites ==
    ASSUME TypeOK, Cycle
    PROVE  \E plan : /\ IsPlan(plan)
                     /\ charge' = Written(First(Chain(plan), "charge"), charge, NoCharge)
                     /\ discharge' = Written(First(Chain(plan), "discharge"), discharge,
                                             NoDischarge)
                     /\ opted' = IF OptimizerDue THEN plan.mode ELSE opted
  <1>1. \A p \in Plans : IsPlan(p)
    BY Parameters DEF Plans, IsPlan
  <1>2. IsPlan([mode |-> "idle", power |-> 0])
    BY DEF IsPlan
  <1>3. QED
    BY <1>1, <1>2 DEF Cycle

LEMMA InitType == Init => TypeOK
  <1> SUFFICES ASSUME Init PROVE TypeOK
    OBVIOUS
  <1>1. on \in Settings /\ net \in Nets /\ price \in Prices /\ stale \in BOOLEAN
        /\ careDue \in BOOLEAN /\ drifted \in BOOLEAN
    BY DEF Init
  <1>2. soc \in 0 .. Full /\ opted \in {"idle", "charge", "discharge"}
    BY DEF Init
  <1>3. charge \in 0 .. MaxW /\ discharge \in 0 .. MaxW /\ sinceOpt \in 0 .. Interval - 1
    BY Parameters DEF Init
  <1>4. QED
    BY <1>1, <1>2, <1>3 DEF TypeOK

LEMMA CycleType == TypeOK /\ Cycle => TypeOK'
  <1> SUFFICES ASSUME TypeOK, Cycle PROVE TypeOK'
    OBVIOUS
  <1>1. PICK plan : /\ IsPlan(plan)
                    /\ charge' = Written(First(Chain(plan), "charge"), charge, NoCharge)
                    /\ discharge' = Written(First(Chain(plan), "discharge"), discharge,
                                            NoDischarge)
                    /\ opted' = IF OptimizerDue THEN plan.mode ELSE opted
    BY CycleWrites
  <1>2. charge \in 0 .. MaxW /\ discharge \in 0 .. MaxW
    BY DEF TypeOK
  <1>3. NoCharge \in BOOLEAN /\ NoDischarge \in BOOLEAN
    BY DEF NoCharge, NoDischarge
  <1>4. charge' \in 0 .. MaxW /\ discharge' \in 0 .. MaxW
    BY <1>1, <1>2, <1>3, FirstType, WrittenType
  <1>5. opted' \in {"idle", "charge", "discharge"}
    BY <1>1 DEF IsPlan, TypeOK
  <1>6. sinceOpt' \in 0 .. Interval - 1
    BY Parameters DEF Cycle, TypeOK
  <1>7. careDue' \in BOOLEAN /\ drifted' \in BOOLEAN /\ UNCHANGED <<on, net, price, stale, soc>>
    BY DEF Cycle
  <1>8. QED
    BY <1>4, <1>5, <1>6, <1>7 DEF TypeOK

LEMMA OthersType ==
    ASSUME TypeOK,
           \/ SocRises \/ SocFalls \/ NetChanges \/ PriceChanges \/ StaleChanges
           \/ CareFallsDue \/ UNCHANGED vars
    PROVE  TypeOK' /\ UNCHANGED <<on, charge, discharge>>
  <1>1. UNCHANGED <<on, charge, discharge, sinceOpt, opted>>
    BY DEF SocRises, SocFalls, NetChanges, PriceChanges, StaleChanges, CareFallsDue, vars
  <1>2. net' \in Nets /\ price' \in Prices /\ stale' \in BOOLEAN /\ careDue' \in BOOLEAN
        /\ drifted' \in BOOLEAN
    BY DEF SocRises, SocFalls, NetChanges, PriceChanges, StaleChanges, CareFallsDue, vars, TypeOK
  <1>3. soc' \in 0 .. Full
    BY Parameters DEF SocRises, SocFalls, NetChanges, PriceChanges, StaleChanges, CareFallsDue,
                      vars, TypeOK
  <1>4. QED
    BY <1>1, <1>2, <1>3 DEF TypeOK

LEMMA StepType == TypeOK /\ [Next]_vars => TypeOK'
  BY CycleType, OthersType DEF Next

\* Whatever the controllers ask for, the setpoints stay within the battery's power.
THEOREM TypeCorrect == Spec => []TypeOK
  <1>1. Init => TypeOK
    BY InitType
  <1>2. TypeOK /\ [Next]_vars => TypeOK'
    BY StepType
  <1>3. QED
    BY <1>1, <1>2, PTL DEF Spec

-----------------------------------------------------------------------------
(***************************************************************************)
(* Settings under which the last controller has a target for both          *)
(* setpoints in every cycle.  Under the others a setpoint nobody has a     *)
(* target for stays as it was, and none of what follows holds.             *)
(***************************************************************************)
AlwaysSteered ==
    \A s \in Settings : "modulation" \in s \/ ("tariff" \in s /\ "optimizer" \notin s)

\* What a controller contributes that has a target for both.
Steers(c) == c.charge # {} /\ c.discharge # {}

LEMMA ModulationSteers ==
    ASSUME AlwaysSteered, TypeOK
    PROVE  Steers(Modulation) /\ (Modulation.charge = {0} \/ Modulation.discharge = {0})
  <1>1. "modulation" \in on \/ GridCharge
    BY DEF AlwaysSteered, TypeOK, GridCharge
  <1>2. /\ Steers(Targets(MaxW, 0)) /\ Targets(MaxW, 0).discharge = {0}
        /\ Steers(Targets(0, MaxW)) /\ Targets(0, MaxW).charge = {0}
        /\ Steers(Targets(Follow, 0)) /\ Targets(Follow, 0).discharge = {0}
    BY DEF Targets, Steers
  <1>3. Modulation \in {Targets(MaxW, 0), Targets(0, MaxW), Targets(Follow, 0)}
    BY <1>1, Zenon DEF Modulation
  <1>4. QED
    BY <1>2, <1>3

LEMMA ChainIs ==
    ASSUME NEW plan
    PROVE  /\ DOMAIN Chain(plan) = 1 .. 6
           /\ Chain(plan)[1] = BatteryCare /\ Chain(plan)[2] = EssReserve
           /\ Chain(plan)[3] = FeedIn /\ Chain(plan)[4] = PeakShaving
           /\ Chain(plan)[5] = Optimizing(plan) /\ Chain(plan)[6] = Modulation
  BY DEF Chain

\* Every cycle writes both setpoints.
LEMMA AlwaysWritten ==
    ASSUME AlwaysSteered, TypeOK, NEW plan, NEW entity \in {"charge", "discharge"}
    PROVE  First(Chain(plan), entity) # {}
  <1> DEFINE chain == Chain(plan)
             has(i) == chain[i][entity] # {}
  <1>1. DOMAIN chain = 1 .. 6 /\ has(6)
    BY ChainIs, ModulationSteers DEF Steers
  <1>2. \E i \in 1 .. 6 : has(i) /\ \A j \in 1 .. 6 : j < i => ~has(j)
    <2>1. has(6)
      BY <1>1
    <2> HIDE DEF has
    <2>2. QED
      BY <2>1
  <1> HIDE DEF chain
  <1>3. PICK i \in 1 .. 6 : has(i) /\ \A j \in 1 .. 6 : j < i => chain[j][entity] = {}
    BY <1>2
  <1>4. First(chain, entity) = chain[i][entity]
    BY <1>1, <1>3, FirstIs
  <1>5. QED
    BY <1>3, <1>4 DEF chain

\* The first controller that has a target for both decides both.
LEMMA DecidesBoth ==
    ASSUME NEW plan, NEW i \in 1 .. 6, Steers(Chain(plan)[i]),
           \A j \in 1 .. 6 : j < i => Chain(plan)[j] = Nothing
    PROVE  /\ First(Chain(plan), "charge") = Chain(plan)[i].charge
           /\ First(Chain(plan), "discharge") = Chain(plan)[i].discharge
  <1>1. DOMAIN Chain(plan) = 1 .. 6
    BY ChainIs
  <1>2. Nothing.charge = {} /\ Nothing.discharge = {}
    BY DEF Nothing
  <1>3. First(Chain(plan), "charge") = Chain(plan)[i]["charge"]
    BY <1>1, <1>2, FirstIs DEF Steers
  <1>4. First(Chain(plan), "discharge") = Chain(plan)[i]["discharge"]
    BY <1>1, <1>2, FirstIs DEF Steers
  <1>5. QED
    BY <1>3, <1>4

-----------------------------------------------------------------------------
(***************************************************************************)
(* Never both, and the bounds of the reserve.                              *)
(***************************************************************************)
LEMMA NeverBothCycle ==
    ASSUME AlwaysSteered, TypeOK, Cycle, "feed_in" \notin on
    PROVE  charge' = 0 \/ discharge' = 0
  <1>1. PICK plan : /\ IsPlan(plan)
                    /\ charge' = Written(First(Chain(plan), "charge"), charge, NoCharge)
                    /\ discharge' = Written(First(Chain(plan), "discharge"), discharge,
                                            NoDischarge)
    BY CycleWrites
  <1> DEFINE chain == Chain(plan)
  <1>2. FeedIn = Nothing
    BY Zenon DEF FeedIn
  <1>3. \A a, b : Targets(a, b).charge = {a} /\ Targets(a, b).discharge = {b}
                  /\ Steers(Targets(a, b))
    BY DEF Targets, Steers
  \* a controller that steers both, one of them to nothing, and decides both
  <1>4. ASSUME NEW i \in 1 .. 6, \A j \in 1 .. 6 : j < i => chain[j] = Nothing,
               Steers(chain[i]), chain[i].charge = {0} \/ chain[i].discharge = {0}
        PROVE  charge' = 0 \/ discharge' = 0
    <2>1. /\ First(chain, "charge") = chain[i].charge
          /\ First(chain, "discharge") = chain[i].discharge
      BY <1>4, DecidesBoth
    <2>2. First(chain, "charge") # {} /\ First(chain, "discharge") # {}
      BY <1>4, <2>1 DEF Steers
    <2>3. QED
      BY <1>1, <1>4, <2>1, <2>2, WrittenZero
  <1>5. CASE BatteryCare # Nothing
    <2>1. BatteryCare = Targets(MaxW, 0)
      BY <1>5 DEF BatteryCare
    <2>2. chain[1] = Targets(MaxW, 0) /\ \A j \in 1 .. 6 : ~(j < 1)
      BY <2>1, ChainIs
    <2>3. QED
      BY <1>3, <1>4, <2>2
  <1>6. CASE EssReserve # Nothing
    <2>1. "reserve" \in on /\ Emergency > 0 /\ soc < Emergency
      BY <1>6 DEF EssReserve
    <2>2. NoDischarge
      BY <2>1, Parameters DEF NoDischarge, Floor, Larger, TypeOK
    <2>3. First(chain, "discharge") # {}
      BY AlwaysWritten
    <2>4. QED
      BY <1>1, <2>2, <2>3, WrittenZero
  <1>7. CASE BatteryCare = Nothing /\ EssReserve = Nothing /\ PeakShaving # Nothing
    <2>1. \E w : PeakShaving = Targets(0, w)
      BY <1>7 DEF PeakShaving
    <2>2. PICK w : chain[4] = Targets(0, w)
      BY <2>1, ChainIs
    <2>3. \A j \in 1 .. 6 : j < 4 => chain[j] = Nothing
      BY <1>2, <1>7, ChainIs
    <2>4. QED
      BY <1>3, <1>4, <2>2, <2>3
  <1>8. CASE BatteryCare = Nothing /\ EssReserve = Nothing /\ PeakShaving = Nothing
    <2>1. \A j \in 1 .. 6 : j < 5 => chain[j] = Nothing
      BY <1>2, <1>8, ChainIs
    <2>2. CASE Optimizing(plan) # Nothing
      <3>1. chain[5] \in {Targets(plan.power, 0), Targets(0, plan.power)}
        BY <2>2, ChainIs DEF Optimizing
      <3>2. QED
        BY <1>3, <1>4, <2>1, <3>1
    <2>3. CASE Optimizing(plan) = Nothing
      <3>1. \A j \in 1 .. 6 : j < 6 => chain[j] = Nothing
        BY <2>1, <2>3, ChainIs
      <3>2. Steers(chain[6]) /\ (chain[6].charge = {0} \/ chain[6].discharge = {0})
        BY ModulationSteers, ChainIs
      <3>3. QED
        BY <1>4, <3>1, <3>2
    <2>4. QED
      BY <2>2, <2>3
  <1>9. QED
    BY <1>5, <1>6, <1>7, <1>8

\* The battery is never told to charge and to discharge at once, whichever strategies
\* meet and whatever the optimizer plans: an emergency charge, which leaves the discharge
\* setpoint to the others, comes with the reserve's bound on it.
THEOREM ChargeOrDischarge ==
    ASSUME AlwaysSteered
    PROVE  Spec => []NeverBoth
  <1>1. Init => TypeOK /\ NeverBoth
    BY InitType DEF Init, NeverBoth
  <1>2. TypeOK /\ NeverBoth /\ [Next]_vars => (TypeOK /\ NeverBoth)'
    <2> SUFFICES ASSUME TypeOK, NeverBoth, [Next]_vars PROVE NeverBoth'
      BY StepType
    <2>1. CASE Cycle
      <3>1. on' = on
        BY <2>1 DEF Cycle
      <3>2. QED
        BY <2>1, <3>1, NeverBothCycle DEF NeverBoth
    <2>2. CASE ~Cycle
      <3>1. UNCHANGED <<on, charge, discharge>>
        BY <2>2, OthersType DEF Next
      <3>2. QED
        BY <3>1 DEF NeverBoth
    <2>3. QED
      BY <2>1, <2>2
  <1>3. QED
    BY <1>1, <1>2, PTL DEF Spec

\* A bound of nothing reaches the setpoint, for something is written to it.
LEMMA BoundsHeld ==
    ASSUME AlwaysSteered, TypeOK, Cycle
    PROVE  (NoDischarge => discharge' = 0) /\ (NoCharge => charge' = 0)
  <1>1. PICK plan : /\ IsPlan(plan)
                    /\ charge' = Written(First(Chain(plan), "charge"), charge, NoCharge)
                    /\ discharge' = Written(First(Chain(plan), "discharge"), discharge,
                                            NoDischarge)
    BY CycleWrites
  <1>2. First(Chain(plan), "charge") # {} /\ First(Chain(plan), "discharge") # {}
    BY AlwaysWritten
  <1>3. QED
    BY <1>1, <1>2, WrittenZero

\* EssReserveController: a cycle that finds the battery at the reserve or below leaves it
\* without a forced discharge, whichever controller asks for one.
THEOREM ReserveIsHeld ==
    ASSUME AlwaysSteered
    PROVE  Spec => ReserveHeld
  <1>1. Init => TypeOK
    BY InitType
  <1>2. TypeOK /\ [Next]_vars => TypeOK'
    BY StepType
  <1>3. TypeOK /\ [Next]_vars =>
          [Cycled /\ "reserve" \in on /\ soc <= Floor /\ Floor > 0 => discharge' = 0]_vars
    BY BoundsHeld DEF Cycled, NoDischarge
  <1>4. QED
    BY <1>1, <1>2, <1>3, PTL DEF Spec, ReserveHeld

\* EssReserveController: a cycle that finds the battery at its cap leaves it without a
\* forced charge, unless a battery care is due.
THEOREM SocMaxIsHeld ==
    ASSUME AlwaysSteered
    PROVE  Spec => SocMaxHeld
  <1>1. Init => TypeOK
    BY InitType
  <1>2. TypeOK /\ [Next]_vars => TypeOK'
    BY StepType
  <1>3. TypeOK /\ [Next]_vars =>
          [Cycled /\ "reserve" \in on /\ soc >= SocMax /\ SocMax < Full /\ ~CareActive
              => charge' = 0]_vars
    BY BoundsHeld DEF Cycled, NoCharge
  <1>4. QED
    BY <1>1, <1>2, <1>3, PTL DEF Spec, SocMaxHeld

-----------------------------------------------------------------------------
(***************************************************************************)
(* What holds under all settings, also those that leave a setpoint to      *)
(* nobody.                                                                 *)
(***************************************************************************)
NoneStarted ==
    [][ /\ "reserve" \in on /\ soc <= Floor /\ Floor > 0 => discharge' \in {0, discharge}
        /\ "reserve" \in on /\ soc >= SocMax /\ SocMax < Full /\ ~CareActive
              => charge' \in {0, charge} ]_vars

\* EssReserveController: whatever is configured, no step gives the battery at its reserve
\* another discharge, or at its cap another charge: the setpoint becomes 0 or, when no
\* controller has a target, stays what an earlier cycle left.
THEOREM BoundsStartNothing == Spec => NoneStarted
  <1>1. ASSUME TypeOK, Cycle
        PROVE  /\ NoDischarge => discharge' \in {0, discharge}
               /\ NoCharge => charge' \in {0, charge}
    <2>1. PICK plan : /\ charge' = Written(First(Chain(plan), "charge"), charge, NoCharge)
                      /\ discharge' = Written(First(Chain(plan), "discharge"), discharge,
                                              NoDischarge)
      BY <1>1, CycleWrites
    <2>2. ASSUME NEW target, NEW old, NEW barred, barred
          PROVE  Written(target, old, barred) \in {0, old}
      BY <2>2, Zenon DEF Written
    <2>3. NoDischarge => discharge' \in {0, discharge}
      BY <2>1, <2>2, Zenon
    <2>4. NoCharge => charge' \in {0, charge}
      BY <2>1, <2>2, Zenon
    <2>5. QED
      BY <2>3, <2>4
  <1>2. Init => TypeOK
    BY InitType
  <1>3. TypeOK /\ [Next]_vars => TypeOK'
    BY StepType
  <1>4. TypeOK /\ [Next]_vars =>
          [ /\ "reserve" \in on /\ soc <= Floor /\ Floor > 0 => discharge' \in {0, discharge}
            /\ "reserve" \in on /\ soc >= SocMax /\ SocMax < Full /\ ~CareActive
                  => charge' \in {0, charge} ]_vars
    <2> SUFFICES ASSUME TypeOK, Next
                 PROVE  /\ "reserve" \in on /\ soc <= Floor /\ Floor > 0
                              => discharge' \in {0, discharge}
                        /\ "reserve" \in on /\ soc >= SocMax /\ SocMax < Full /\ ~CareActive
                              => charge' \in {0, charge}
      OBVIOUS
    <2>1. CASE Cycle
      BY <1>1, <2>1 DEF NoDischarge, NoCharge
    <2>2. CASE ~Cycle
      <3>1. UNCHANGED <<on, charge, discharge>>
        BY <2>2, OthersType DEF Next
      <3>2. QED
        BY <3>1
    <2>3. QED
      BY <2>1, <2>2
  <1>5. QED
    BY <1>2, <1>3, <1>4, PTL DEF Spec, NoneStarted

=============================================================================
