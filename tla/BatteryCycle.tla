---------------------------- MODULE BatteryCycle ----------------------------
(***************************************************************************)
(* One storage battery under the controllers of ControlEngine.FULL_CHAIN   *)
(* that command it, cycle after cycle, with the house and the grid it acts *)
(* on: battery care, reserve, feed-in limit, peak shaving, optimizer and   *)
(* PV-surplus modulation with tariff arbitrage.                            *)
(*                                                                         *)
(* CommandSet shows how commands are resolved; here, where the only bounds *)
(* are the device's and the reserve's, an entity is written with the       *)
(* target of the first controller that has one, clamped.  An entity nobody *)
(* has a target for keeps the setpoint it had.  The master switch          *)
(* (control_enabled) is on; the battery has no charge limit of its own     *)
(* and no PV inverter can be curtailed.                                    *)
(*                                                                         *)
(* Powers are whole units, the state of charge a level; w_per_unit is 1,   *)
(* the modulation gains are Kp = 0, Ki = 1.                                *)
(***************************************************************************)
EXTENDS Integers, Sequences

CONSTANTS
    Nets,         \* house load minus PV (< 0: surplus)
    Prices,       \* current price, ct
    CheapPrices,  \* those tariff_cheap_now calls cheap
    MaxW,         \* max_w of the battery, charging and discharging
    Full,         \* the SoC level that stands for 99 % and more
    Reserve, SocMax,          \* grid_soc_min, grid_soc_max
    Emergency,                \* emergency_reserve_soc
    ChargeMaxCt, DischargeMinCt,   \* tariff thresholds
    PeakLimit, FeedInLimit,   \* caps on import and export
    CareCycle,    \* soh_cycle_days > 0
    SurplusMinSoc,   \* SoC up to which the battery charges first
    Interval,     \* TARIFF_INTERVAL in control cycles
    Settings      \* the sets of switched-on strategies and options

Options == {"care", "reserve", "feed_in", "peak", "optimizer", "tariff", "modulation",
            "loads_first"}

ASSUME LevelsAssumption ==
    /\ Full \in Nat \ {0}
    /\ Reserve \in 0 .. Full /\ SocMax \in 0 .. Full /\ Emergency \in 0 .. Full
    /\ SurplusMinSoc \in 0 .. Full
ASSUME PowersAssumption ==
    /\ Nets \subseteq Int /\ MaxW \in Nat \ {0}
    /\ PeakLimit \in Nat /\ FeedInLimit \in Nat
ASSUME TariffAssumption ==
    /\ Prices \subseteq Int /\ CheapPrices \subseteq Prices
    /\ ChargeMaxCt \in Int /\ DischargeMinCt \in Int
ASSUME SettingsAssumption ==
    /\ CareCycle \in BOOLEAN
    /\ Interval \in Nat \ {0} /\ Settings \subseteq SUBSET Options

VARIABLES
    on,         \* the settings, chosen once
    net,        \* house load minus PV
    price,
    stale,      \* signal_stale of the balance sensors
    soc,        \* state of charge
    charge,     \* the battery's charge setpoint
    discharge,  \* its discharge setpoint
    careDue,    \* the last full charge is soh_cycle_days ago, or unknown
    sinceOpt,   \* cycles since the optimizer ran
    opted,      \* what the optimizer decided then
    drifted     \* the SoC has moved since the last cycle

vars == <<on, net, price, stale, soc, charge, discharge, careDue, sinceOpt, opted, drifted>>

Larger(a, b) == IF a >= b THEN a ELSE b
Smaller(a, b) == IF a <= b THEN a ELSE b

\* what the battery's max_w leaves of a wanted power
UnlimitedPower(w) == w      \* (faulty: no limit)
Deliverable(w) == Smaller(MaxW, w)

\* the battery's own electronics: nothing into a full one, nothing out of an
\* empty one
BattW == (IF soc < Full THEN charge ELSE 0) - (IF soc > 0 THEN discharge ELSE 0)

GridW == net + BattW        \* > 0: import

\* surplus_signal
SurplusSigned ==
    LET divert == "loads_first" \in on /\ (SurplusMinSoc = 0 \/ soc >= SurplusMinSoc)
    IN  IF divert THEN BattW - GridW ELSE Smaller(0, BattW) - GridW

-----------------------------------------------------------------------------
\* What a controller contributes: a target per setpoint, {} for none.
Nothing == [charge |-> {}, discharge |-> {}]
Targets(c, d) == [charge |-> {c}, discharge |-> {d}]

Expensive == "tariff" \in on /\ price \notin CheapPrices

\* _storage_inputs: due, and not full right now
CareActive == CareCycle /\ careDue /\ soc < Full

CareChargeOnly ==            \* (faulty: leaves the discharge setpoint alone)
    IF "care" \in on /\ CareActive THEN [Nothing EXCEPT !.charge = {MaxW}] ELSE Nothing
BatteryCare ==
    IF "care" \in on /\ CareActive THEN Targets(MaxW, 0) ELSE Nothing

Floor == Larger(Reserve, Emergency)

\* EssReserveController: the two hi = 0 bounds ...
DischargeBelowFloor ==       \* (faulty: the floor itself is not protected)
    "reserve" \in on /\ Floor > 0 /\ soc < Floor
NoDischarge == "reserve" \in on /\ Floor > 0 /\ soc <= Floor
CapDuringCare ==             \* (faulty: the cap is not lifted for the care)
    "reserve" \in on /\ SocMax < Full /\ soc >= SocMax
ChargeAtCap ==               \* (faulty: charges on at the cap)
    "reserve" \in on /\ ~CareActive /\ SocMax < Full /\ soc > SocMax
NoCharge == "reserve" \in on /\ ~CareActive /\ SocMax < Full /\ soc >= SocMax

\* ... and the recharge of the emergency backup
NotWhileExpensive ==         \* (faulty: however low, waits for a cheap hour)
    IF "reserve" \in on /\ Emergency > 0 /\ soc < Emergency /\ ~Expensive
    THEN [Nothing EXCEPT !.charge = {MaxW}]
    ELSE Nothing
EssReserve ==
    IF /\ "reserve" \in on /\ Emergency > 0 /\ soc < Emergency
       /\ ~Expensive \/ 2 * soc < Emergency
    THEN [Nothing EXCEPT !.charge = {MaxW}]
    ELSE Nothing

\* plan_feed_in_limit
FeedIn ==
    LET over == Larger(0, -GridW) - FeedInLimit
    IN  IF "feed_in" \in on /\ FeedInLimit > 0 /\ over > 0 /\ soc < SocMax
        THEN [Nothing EXCEPT !.charge = {Deliverable(over)}]
        ELSE Nothing

PeakShaving ==
    LET over == GridW - PeakLimit
    IN  IF "peak" \in on /\ PeakLimit > 0 /\ over > 0 /\ soc > Reserve
        THEN Targets(0, Deliverable(over))
        ELSE Nothing

\* OptimizingController; plan_optimized_charge works on forecasts, so any of
\* its plans that the SoC allows may come out
OptimizerDue == "optimizer" \in on /\ sinceOpt >= Interval - 1
Plans ==
    {[mode |-> "idle", power |-> 0]}
    \cup {[mode |-> "charge", power |-> p] : p \in IF soc < SocMax THEN 1 .. MaxW ELSE {}}
    \cup {[mode |-> "discharge", power |-> p] : p \in IF soc > Reserve THEN 1 .. MaxW ELSE {}}

Optimizing(plan) ==
    CASE plan.mode = "charge"    -> Targets(plan.power, 0)
      [] plan.mode = "discharge" -> Targets(0, plan.power)
      [] OTHER                   -> Nothing

\* _mods: threshold arbitrage unless the optimizer owns the battery
GridCharge == "tariff" \in on /\ "optimizer" \notin on

\* battery_tariff_mode
TariffCharges ==
    \/ Reserve > 0 /\ soc < Reserve
    \/ price <= ChargeMaxCt /\ soc < SocMax
TariffDischarges ==
    DischargeMinCt > 0 /\ soc > Reserve /\ price >= DischargeMinCt

\* decide_modulation for the idle battery: measured power plus the surplus step
Follow ==
    IF stale THEN charge ELSE Larger(0, Deliverable(charge + SurplusSigned))

Modulation ==
    CASE ~("modulation" \in on \/ GridCharge)                     -> Nothing
      [] GridCharge /\ TariffCharges                              -> Targets(MaxW, 0)
      [] GridCharge /\ ~TariffCharges /\ TariffDischarges         -> Targets(0, MaxW)
      [] OTHER                                                    -> Targets(Follow, 0)

Chain(plan) ==
    <<BatteryCare, EssReserve, FeedIn, PeakShaving, Optimizing(plan), Modulation>>

-----------------------------------------------------------------------------
First(chain, entity) ==
    LET with == {i \in DOMAIN chain : chain[i][entity] # {}}
    IN  IF with = {} THEN {}
        ELSE chain[CHOOSE i \in with : \A j \in with : i <= j][entity]

\* a target is clamped to the device and the reserve's bound and written
Written(target, old, barred) ==
    IF target = {} THEN old
    ELSE IF barred THEN 0
    ELSE Larger(0, Deliverable(CHOOSE t \in target : TRUE))

Init ==
    /\ on \in Settings
    /\ net \in Nets /\ price \in Prices
    /\ stale = FALSE
    /\ soc \in 0 .. Full
    /\ charge = 0 /\ discharge = 0
    /\ careDue \in BOOLEAN
    /\ sinceOpt = Interval - 1
    /\ opted = "idle"
    /\ drifted = FALSE

\* run_cycle with the image, the chain and apply_commands
Cycle ==
    /\ \E plan \in IF OptimizerDue THEN Plans ELSE {[mode |-> "idle", power |-> 0]} :
         LET chain == Chain(plan)
         IN  /\ charge' = Written(First(chain, "charge"), charge, NoCharge)
             /\ discharge' = Written(First(chain, "discharge"), discharge, NoDischarge)
             /\ opted' = IF OptimizerDue THEN plan.mode ELSE opted
    /\ sinceOpt' = IF sinceOpt >= Interval - 1 THEN 0 ELSE sinceOpt + 1
    /\ careDue' = (careDue /\ ~(CareCycle /\ soc = Full))
    /\ drifted' = FALSE
    /\ UNCHANGED <<on, net, price, stale, soc>>

\* the battery's level follows its power, at most one level between two cycles
SocRises ==
    /\ BattW > 0 /\ soc < Full /\ ~drifted
    /\ soc' = soc + 1 /\ drifted' = TRUE
    /\ UNCHANGED <<on, net, price, stale, charge, discharge, careDue, sinceOpt, opted>>

SocFalls ==
    /\ BattW < 0 /\ soc > 0 /\ ~drifted
    /\ soc' = soc - 1 /\ drifted' = TRUE
    /\ UNCHANGED <<on, net, price, stale, charge, discharge, careDue, sinceOpt, opted>>

NetChanges ==
    /\ \E n \in Nets \ {net} : net' = n
    /\ UNCHANGED <<on, price, stale, soc, charge, discharge, careDue, sinceOpt, opted, drifted>>

PriceChanges ==
    /\ \E p \in Prices \ {price} : price' = p
    /\ UNCHANGED <<on, net, stale, soc, charge, discharge, careDue, sinceOpt, opted, drifted>>

StaleChanges ==
    /\ stale' = ~stale
    /\ UNCHANGED <<on, net, price, soc, charge, discharge, careDue, sinceOpt, opted, drifted>>

\* soh_cycle_days have passed
CareFallsDue ==
    /\ CareCycle /\ ~careDue
    /\ careDue' = TRUE
    /\ UNCHANGED <<on, net, price, stale, soc, charge, discharge, sinceOpt, opted, drifted>>

Next ==
    \/ Cycle
    \/ SocRises \/ SocFalls
    \/ NetChanges \/ PriceChanges \/ StaleChanges
    \/ CareFallsDue

Spec == Init /\ [][Next]_vars

\* the cycle task keeps running, and a battery that is charged gets fuller
Fairness == WF_vars(Cycle) /\ WF_vars(SocRises)

FairSpec == Spec /\ Fairness

-----------------------------------------------------------------------------
\* Types: in particular the setpoints stay within the battery's power.
TypeOK ==
    /\ on \in Settings
    /\ net \in Nets /\ price \in Prices /\ stale \in BOOLEAN
    /\ soc \in 0 .. Full
    /\ charge \in 0 .. MaxW /\ discharge \in 0 .. MaxW
    /\ careDue \in BOOLEAN
    /\ sinceOpt \in 0 .. Interval - 1
    /\ opted \in {"idle", "charge", "discharge"}
    /\ drifted \in BOOLEAN

Cycled == <<Cycle>>_vars

\* EssReserveController: "Below the configured reserve SoC the battery may not
\* be force-discharged by ANY controller": a cycle that finds the battery at the
\* floor leaves it with no forced discharge.
ReserveHeld ==
    [][Cycled /\ "reserve" \in on /\ soc <= Floor /\ Floor > 0 => discharge' = 0]_vars

\* "above the max SoC it may not be force-charged", but for a battery care that
\* is due.
SocMaxHeld ==
    [][Cycled /\ "reserve" \in on /\ soc >= SocMax /\ SocMax < Full /\ ~CareActive
        => charge' = 0]_vars

\* "Laden aus (Entladen)", "Entladen aus": the battery is never told to charge
\* and to discharge at once, whichever strategies meet in a cycle; only the
\* feed-in limit leaves the discharge setpoint to others.
NeverBoth == "feed_in" \notin on => charge = 0 \/ discharge = 0

\* CHANGELOG on the emergency reserve: the battery "wird auf diesen Ladezustand
\* gehalten/geladen".  It is filled again to half the reserve even while the
\* tariff stays expensive.
Starved == soc < Emergency - soc
BackupRefilled == ("reserve" \in on /\ Starved) ~> ~Starved

\* A care cycle that is due ends with a full battery, against reserve caps,
\* tariffs and peaks.
CareCompletes == ("care" \in on /\ careDue) ~> ~careDue

=============================================================================
