------------------------------ MODULE DayLoads ------------------------------
(***************************************************************************)
(* A load that follows the clock, the price and the plug: an appliance     *)
(* shifted into cheap hours (cheap_now, decide_tariff_actions), a wallbox  *)
(* with its gate (evcs_gate) above the surplus switch, and a wallbox the   *)
(* battery supports (plan_charge_support).  Several controllers of one     *)
(* cycle may command its relay; the first in the chain wins.               *)
(*                                                                         *)
(* A tick is one control cycle, and all times are counted in ticks: the    *)
(* code's windows of minutes are several, TARIFF_INTERVAL is TariffEvery.  *)
(* Power is counted in units larger than the switching margins of 50 W.    *)
(* Calls are executed at once: SwitchControl has their delays and faults.  *)
(***************************************************************************)
EXTENDS Integers, Sequences, FiniteSets

CONSTANTS
    Settings,    \* the load, chosen once
    Never,       \* deadline of a load without "latest start"
    Day,         \* ticks per day
    Window,      \* DEADLINE_FORCE_WINDOW_MIN
    TariffEvery, \* TARIFF_INTERVAL in cycles
    DayPrices,   \* price lists of a day, of equally long slots
    PublishAt,   \* when tomorrow's prices appear
    Avail,       \* surplus left by everything else
    Nominal,     \* rated power of the load
    Limit,       \* limit_max, and the vehicle's target_soc
    MaxSoc,      \* of the battery
    Reserve,     \* its grid_soc_min, 0 for none
    MaxSkips     \* bound: cycles left out while not connected

ASSUME DayLoadsAssumption ==
    /\ Day \in Nat \ {0} /\ Window \in Nat /\ PublishAt \in 1 .. Day - 1
    /\ TariffEvery \in Nat \ {0}
    /\ Nominal \in Nat \ {0} /\ Limit \in Nat \ {0}
    /\ MaxSoc \in Nat /\ Reserve \in 0 .. MaxSoc /\ MaxSkips \in Nat
    /\ Avail \subseteq Int /\ DayPrices \subseteq Seq(Int) \ {<<>>}
    /\ Never \in Int /\ Never \notin 0 .. Day - 1
    /\ Settings \subseteq
         [kind : {"tariff", "wallbox", "supported"}, mode : {"dynamic", "ht_nt", "static"},
          ntStart : 0 .. Day - 1, ntEnd : 0 .. Day - 1, deadline : {Never} \cup (0 .. Day - 1),
          minRun : Nat, minOff : Nat, interruptible : BOOLEAN, fromGrid : BOOLEAN,
          linked : BOOLEAN, hyst : Nat, support : Nat, modulated : BOOLEAN]

VARIABLES
    load,       \* its setting
    now,        \* time of day
    today,      \* the price entity's list of today
    tomorrow,   \* and of tomorrow, <<>> while not published
    avail,
    connected,  \* the car is plugged in
    level,      \* temperature or state of charge
    latch,      \* _sat_state
    on,         \* the relay
    runFor,     \* time since last_on
    offFor,     \* time since last_off
    soc,        \* of the battery
    dis,        \* its discharge setpoint
    sinceTariff, \* ticks since _last_run of the tariff controller
    ran,        \* the cycle of this tick has run
    skips,
    owed,       \* ticks the load has been due and ready
    late,       \* those of them it was off
    drawing     \* ticks it has been drawing power nobody granted

clock == <<now, today, tomorrow>>
inputs == <<load, avail, connected, level, soc>>
relay == <<on, runFor, offFor>>
observed == <<owed, late, drawing>>
vars == <<clock, inputs, relay, latch, dis, sinceTariff, ran, skips, observed>>

Least(a, b) == IF a < b THEN a ELSE b
Most(a, b) == IF a > b THEN a ELSE b
\* which controller's input lists hold the load
IsWallbox == load.kind \in {"wallbox", "supported"}
BatteryBacked == load.kind = "supported"
Shifted == load.kind = "tariff"

-----------------------------------------------------------------------------
(***************************************************************************)
(* The tariff.                                                             *)
(***************************************************************************)
\* index of the most expensive cheap slot, from 0
Rank(n) == Most(0, (n * 33) \div 100 - 1)

PriceNow == today[(now * Len(today)) \div Day + 1]

\* _in_window
InWindow(start, end) ==
    IF start <= end THEN start <= now /\ now < end ELSE start <= now \/ now < end

\* faulty: the price has to be below that of the slot with that rank
CheapBelow(known) ==
    /\ Len(known) >= 3
    /\ Cardinality({i \in DOMAIN known : known[i] <= PriceNow}) <= Rank(Len(known))
\* the price is at most that of the slot with that rank, if there are enough slots
CheapAmong(known) ==
    /\ Len(known) >= 3
    /\ Cardinality({i \in DOMAIN known : known[i] < PriceNow}) <= Rank(Len(known))

\* cheap_now
Cheap ==
    \/ load.mode = "dynamic" /\ CheapAmong(today \o tomorrow)
    \/ load.mode = "ht_nt" /\ InWindow(load.ntStart, load.ntEnd)

-----------------------------------------------------------------------------
(***************************************************************************)
(* What the controllers read.                                              *)
(***************************************************************************)
\* _deadline_due
Due(deadline) == deadline # Never /\ deadline <= now /\ now < deadline + Window

\* _device_satisfied: stops at the limit, releases below the deadband
Satisfied == level >= (IF latch THEN Limit - load.hyst ELSE Limit)

\* the limit the wallbox stops at: the linked vehicle's, or its own
Charged == IF load.linked THEN level >= Limit ELSE Satisfied

Draws == IF on THEN Nominal ELSE 0
Surplus == avail - Draws
Battery == IF soc > 0 THEN dis ELSE 0
Grid == Draws - avail - Battery

AtReserve == Reserve > 0 /\ soc <= Reserve
Budget == IF BatteryBacked /\ ~AtReserve THEN load.support ELSE 0
Blocked == ~connected \/ (~load.linked /\ Satisfied)

Nothing == "nothing"
OnIf(b) == IF b THEN "on" ELSE "off"
Rested == offFor >= load.minOff
Ran == runFor >= load.minRun

-----------------------------------------------------------------------------
(***************************************************************************)
(* What each controller asks of the relay.                                 *)
(***************************************************************************)
\* faulty: the battery's reserve does not end the support
WantAtReserve ==
    /\ ~Blocked
    /\ IF on THEN Surplus + load.support >= 0 \/ ~Ran
       ELSE Surplus + Budget >= Nominal /\ Rested
\* plan_charge_support: whether a supported load should be on
Want ==
    /\ ~Blocked
    /\ IF on THEN (Surplus + Budget >= 0 /\ ~AtReserve) \/ ~Ran
       ELSE Surplus + Budget >= Nominal /\ Rested

ChargeSupport ==
    IF BatteryBacked /\ ~load.fromGrid /\ Want # on THEN OnIf(Want) ELSE Nothing

\* faulty: the battery is asked for the load's whole power
TotalNominal ==
    IF BatteryBacked /\ (IF load.fromGrid THEN on /\ ~Blocked ELSE Want)
    THEN Nominal ELSE 0
\* the power the battery is to contribute
Total ==
    IF BatteryBacked /\ (IF load.fromGrid THEN on /\ ~Blocked ELSE Want)
    THEN Budget ELSE 0

\* evcs_gate
Gate ==
    CASE ~IsWallbox -> Nothing
      [] IsWallbox /\ (~connected \/ Charged) -> "off"
      [] OTHER -> IF Due(load.deadline) \/ load.fromGrid THEN "on" ELSE Nothing

\* decide_action for this load alone; a linked vehicle's limits are not its own
Switch ==
    LET sated == ~load.linked /\ Satisfied
        due == ~load.linked /\ Due(load.deadline)
    IN  CASE load.kind # "wallbox" -> Nothing
          [] load.kind = "wallbox" /\ ~on ->
                IF ~sated /\ Rested /\ (due \/ Surplus >= Nominal) THEN "on" ELSE Nothing
          [] OTHER ->
                IF Ran /\ (sated \/ (Surplus < 0 /\ load.interruptible)) THEN "off" ELSE Nothing

\* faulty: the deadline only helps while the tariff is cheap
TariffShiftCheap ==
    LET want == Cheap /\ ~Satisfied
    IN  CASE ~Shifted -> Nothing
          [] Shifted /\ ~on -> IF want /\ Rested THEN "on" ELSE Nothing
          [] OTHER -> IF ~want /\ Ran /\ (load.interruptible \/ Satisfied)
                      THEN "off" ELSE Nothing
\* decide_tariff_actions
TariffShift ==
    LET want == (Cheap \/ Due(load.deadline)) /\ ~Satisfied
    IN  CASE ~Shifted -> Nothing
          [] Shifted /\ ~on -> IF want /\ Rested THEN "on" ELSE Nothing
          [] OTHER -> IF ~want /\ Ran /\ (load.interruptible \/ Satisfied)
                      THEN "off" ELSE Nothing

\* tariff_due: every other controller runs in every cycle
TariffDue == sinceTariff >= TariffEvery

\* FULL_CHAIN, and CommandSet.add: the first writer wins
FirstOf(c, d) == IF c # Nothing THEN c ELSE d
Command ==
    FirstOf(ChargeSupport, FirstOf(Gate, FirstOf(Switch, IF TariffDue THEN TariffShift ELSE Nothing)))
NextOn == IF Command = Nothing THEN on ELSE Command = "on"

-----------------------------------------------------------------------------
Init ==
    /\ load \in Settings
    /\ now = 0 /\ today \in (IF load.mode = "dynamic" THEN DayPrices ELSE {<<0>>})
    /\ tomorrow = <<>>
    /\ avail \in (IF IsWallbox THEN Avail ELSE {0})
    /\ connected = ~IsWallbox
    /\ level = 0 /\ latch = FALSE
    /\ on = FALSE /\ runFor = load.minRun /\ offFor = load.minOff
    /\ soc \in (IF BatteryBacked THEN 0 .. MaxSoc ELSE {0})
    /\ dis = 0 /\ sinceTariff = TariffEvery /\ ran = FALSE /\ skips = 0
    /\ owed = 0 /\ late = 0 /\ drawing = 0

\* run_cycle
Cycle ==
    /\ ~ran /\ ran' = TRUE
    /\ on' = NextOn
    /\ runFor' = IF on' /\ ~on THEN 0 ELSE runFor
    /\ offFor' = IF on /\ ~on' THEN 0 ELSE offFor
    /\ latch' = Satisfied
    /\ dis' = CASE Total > 0 -> Least(Total, Most(0, Grid))
                [] Total = 0 /\ load.modulated -> 0
                [] OTHER -> dis
    /\ sinceTariff' = IF TariffDue THEN 0 ELSE sinceTariff
    /\ UNCHANGED <<clock, inputs, skips, observed>>

\* the client is not connected: no cycle
Skip ==
    /\ ~ran /\ ran' = TRUE
    /\ skips < MaxSkips /\ skips' = skips + 1
    /\ UNCHANGED <<clock, inputs, relay, latch, dis, sinceTariff, observed>>

\* the price entity: tomorrow's list appears in the course of the day
PricesMove ==
    IF load.mode # "dynamic" THEN UNCHANGED <<today, tomorrow>>
    ELSE CASE now' = 0 -> /\ today' \in (IF tomorrow = <<>> THEN DayPrices ELSE {tomorrow})
                          /\ tomorrow' = <<>>
           [] now' = PublishAt -> today' = today /\ tomorrow' \in DayPrices \cup {<<>>}
           [] OTHER -> UNCHANGED <<today, tomorrow>>

LoadMoves ==
    /\ connected' \in (IF IsWallbox THEN BOOLEAN ELSE {TRUE})
    /\ CASE on /\ connected -> level' = Least(level + 1, Limit + 1)
         [] ~(on /\ connected) /\ IsWallbox /\ connected' /\ ~connected -> level' = 0
         [] ~on /\ ~IsWallbox -> level' \in {level, Most(0, level - 1)}
         [] OTHER -> UNCHANGED level

BatteryMoves ==
    IF ~BatteryBacked THEN UNCHANGED soc
    ELSE soc' \in (IF dis > 0 THEN {Most(0, soc - 1)} ELSE {soc, Least(soc + 1, MaxSoc)})

Ready == connected /\ ~(IF IsWallbox THEN Charged ELSE Satisfied)
Granted == Due(load.deadline) \/ load.fromGrid \/ Surplus + Budget >= 0

Tick ==
    /\ ran /\ ran' = FALSE
    /\ now' = (now + 1) % Day
    /\ PricesMove /\ LoadMoves /\ BatteryMoves
    /\ avail' \in (IF IsWallbox THEN Avail ELSE {0})
    /\ runFor' = IF on THEN Least(runFor + 1, load.minRun) ELSE runFor
    /\ offFor' = IF on THEN offFor ELSE Least(offFor + 1, load.minOff)
    /\ sinceTariff' = Least(sinceTariff + 1, TariffEvery)
    /\ owed' = IF Due(load.deadline) /\ Ready THEN owed + 1 ELSE 0
    /\ late' = IF Due(load.deadline) /\ Ready THEN (IF on THEN late ELSE late + 1) ELSE 0
    /\ drawing' = IF IsWallbox /\ on /\ ~Granted THEN drawing + 1 ELSE 0
    /\ UNCHANGED <<load, on, latch, dis, skips>>

Next == Cycle \/ Skip \/ Tick

Spec == Init /\ [][Next]_vars
FairSpec == Spec /\ WF_vars(Tick) /\ SF_vars(Cycle)

-----------------------------------------------------------------------------
\* Types.
TypeOK ==
    /\ load \in Settings /\ now \in 0 .. Day - 1
    /\ today \in Seq(Int) /\ tomorrow \in Seq(Int) /\ today # <<>>
    /\ avail \in Avail \cup {0} /\ connected \in BOOLEAN
    /\ level \in 0 .. Limit + 1 /\ latch \in BOOLEAN
    /\ on \in BOOLEAN /\ runFor \in 0 .. load.minRun /\ offFor \in 0 .. load.minOff
    /\ soc \in 0 .. MaxSoc /\ dis \in 0 .. load.support
    /\ sinceTariff \in 0 .. TariffEvery /\ ran \in BOOLEAN /\ skips \in 0 .. MaxSkips
    /\ owed \in Nat /\ late \in Nat /\ drawing \in Nat

\* charge support may switch the load off whatever the gate says
Overruled == BatteryBacked /\ ~load.fromGrid

\* Of the time a load is due and ready, whatever price and surplus are, a shifted load is
\* off only for its pause and the cadence of the tariff controller (decide_tariff_actions),
\* a wallbox only for the cycles left out (evcs_gate: "a charge deadline forces ON").  A
\* wallbox the battery supports is promised less: charge support precedes the gate, knows
\* no deadline and may switch it off in every second cycle; only half the time is sure.
DeadlineHonoured ==
    /\ Shifted => late <= load.minOff + TariffEvery - 1 + MaxSkips
    /\ IsWallbox /\ ~Overruled => late <= MaxSkips
    /\ Overruled => 2 * late <= owed + 1 + MaxSkips

\* A wallbox that nobody has granted the grid draws from it no longer than its minimum
\* run time: supported by the battery or not, the load is shed (plan_charge_support,
\* decide_action).
GridSpared == load.interruptible => drawing <= load.minRun + MaxSkips

\* Each publication of prices may postpone a shifted load, but not for ever: on a dynamic
\* tariff it runs again and again until it is satisfied.
TariffServed ==
    Shifted /\ load.mode = "dynamic" => []<>(on \/ Satisfied)
=============================================================================
