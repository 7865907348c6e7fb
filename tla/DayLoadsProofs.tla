---------------------------- MODULE DayLoadsProofs ----------------------------
(***************************************************************************)
(* A load that is due runs, and a wallbox does not draw what nobody has    *)
(* granted: for any settings, prices, surplus, battery and plug.           *)
(***************************************************************************)
EXTENDS DayLoads, TLAPS

-----------------------------------------------------------------------------
(***************************************************************************)
(* Types.                                                                  *)
(***************************************************************************)
LEMMA SettingFields ==
    ASSUME load \in Settings
    PROVE  /\ load.kind \in {"tariff", "wallbox", "supported"}
           /\ load.mode \in {"dynamic", "ht_nt", "static"}
           /\ load.minRun \in Nat /\ load.minOff \in Nat
           /\ load.interruptible \in BOOLEAN /\ load.fromGrid \in BOOLEAN
           /\ load.linked \in BOOLEAN /\ load.modulated \in BOOLEAN
           /\ load.hyst \in Nat /\ load.support \in Nat
  BY DayLoadsAssumption

LEMMA Values ==
    ASSUME TypeOK
    PROVE  /\ Satisfied \in BOOLEAN /\ Want \in BOOLEAN /\ NextOn \in BOOLEAN
           /\ Budget \in 0 .. load.support /\ Surplus \in Int /\ Grid \in Int
           /\ Total \in 0 .. load.support
  <1>1. load \in Settings /\ on \in BOOLEAN /\ avail \in Int /\ soc \in Nat
    BY DayLoadsAssumption DEF TypeOK
  <1>2. load.support \in Nat /\ dis \in Nat
    BY <1>1, SettingFields DEF TypeOK
  <1>3. Budget \in 0 .. load.support
    BY <1>2 DEF Budget
  <1>4. Draws \in Nat /\ Battery \in Nat
    BY <1>1, <1>2, DayLoadsAssumption DEF Draws, Battery
  <1>5. Surplus \in Int /\ Grid \in Int
    BY <1>1, <1>4 DEF Surplus, Grid
  <1>6. Satisfied \in BOOLEAN /\ Want \in BOOLEAN /\ NextOn \in BOOLEAN
    <2>1. Satisfied \in BOOLEAN
      BY DEF Satisfied
    <2>2. Want \in BOOLEAN
      BY Zenon DEF Want
    <2>3. NextOn \in BOOLEAN
      BY <1>1 DEF NextOn
    <2>4. QED
      BY <2>1, <2>2, <2>3
  <1>7. Total \in 0 .. load.support
    BY <1>2, <1>3 DEF Total
  <1>8. QED
    BY <1>3, <1>5, <1>6, <1>7

LEMMA InitType == Init => TypeOK
  <1> SUFFICES ASSUME Init PROVE TypeOK
    OBVIOUS
  <1>1. load \in Settings
    BY DEF Init
  <1>2. today \in Seq(Int) /\ today # <<>> /\ tomorrow \in Seq(Int)
    <2>1. <<0>> \in Seq(Int) /\ <<0>> # <<>> /\ <<>> \in Seq(Int)
      OBVIOUS
    <2>2. today \in DayPrices \/ today = <<0>>
      BY DEF Init
    <2>3. QED
      BY <2>1, <2>2, DayLoadsAssumption DEF Init
  <1>3. load.minRun \in Nat /\ load.minOff \in Nat /\ load.support \in Nat
    BY <1>1, SettingFields
  <1>4. now \in 0 .. Day - 1 /\ level \in 0 .. Limit + 1
    BY DayLoadsAssumption DEF Init
  <1>5. avail \in Avail \cup {0} /\ soc \in 0 .. MaxSoc
    BY DayLoadsAssumption DEF Init
  <1>6. runFor \in 0 .. load.minRun /\ offFor \in 0 .. load.minOff /\ dis \in 0 .. load.support
    BY <1>3 DEF Init
  <1>7. /\ skips \in 0 .. MaxSkips /\ owed \in Nat /\ late \in Nat /\ drawing \in Nat
        /\ sinceTariff \in 0 .. TariffEvery
    BY DayLoadsAssumption DEF Init
  <1>8. connected \in BOOLEAN /\ latch \in BOOLEAN /\ on \in BOOLEAN /\ ran \in BOOLEAN
    BY DEF Init, IsWallbox
  <1>9. QED
    BY <1>1, <1>2, <1>4, <1>5, <1>6, <1>7, <1>8 DEF TypeOK

LEMMA CycleType == TypeOK /\ Cycle => TypeOK'
  <1> SUFFICES ASSUME TypeOK, Cycle PROVE TypeOK'
    OBVIOUS
  <1>1. /\ UNCHANGED <<clock, inputs, skips, observed>>
        /\ load \in Settings /\ load.minRun \in Nat /\ load.minOff \in Nat
        /\ load.support \in Nat
    BY SettingFields DEF Cycle, TypeOK
  <1>2. on' \in BOOLEAN /\ latch' \in BOOLEAN /\ ran' \in BOOLEAN
    BY Values DEF Cycle
  <1>3. runFor' \in 0 .. load.minRun /\ offFor' \in 0 .. load.minOff
    BY <1>1 DEF Cycle, TypeOK
  <1>4. dis' \in 0 .. load.support
    <2>1. dis \in 0 .. load.support /\ Total \in 0 .. load.support /\ Grid \in Int
      BY Values DEF TypeOK
    <2>2. Total > 0 => Least(Total, Most(0, Grid)) \in 0 .. load.support
      BY <1>1, <2>1 DEF Least, Most
    <2>3. dis' \in {Least(Total, Most(0, Grid)), 0, dis} /\ (~(Total > 0) => dis' \in {0, dis})
      BY DEF Cycle
    <2>4. QED
      BY <1>1, <2>1, <2>2, <2>3
  <1>5. sinceTariff' \in 0 .. TariffEvery
    BY DayLoadsAssumption DEF Cycle, TypeOK
  <1>6. QED
    BY <1>1, <1>2, <1>3, <1>4, <1>5 DEF TypeOK, clock, inputs, observed

LEMMA TickType == TypeOK /\ Tick => TypeOK'
  <1> SUFFICES ASSUME TypeOK, Tick PROVE TypeOK'
    OBVIOUS
  <1>1. /\ UNCHANGED <<load, on, latch, dis, skips>> /\ ran' = FALSE
        /\ load \in Settings /\ load.minRun \in Nat /\ load.minOff \in Nat
    BY SettingFields DEF Tick, TypeOK
  <1>2. now' \in 0 .. Day - 1 /\ avail' \in Avail \cup {0}
    BY DayLoadsAssumption DEF Tick, TypeOK
  <1>3. today' \in Seq(Int) /\ today' # <<>> /\ tomorrow' \in Seq(Int)
    <2>1. PricesMove /\ <<>> \in Seq(Int) /\ DayPrices \subseteq Seq(Int) \ {<<>>}
      BY DayLoadsAssumption DEF Tick
    <2>2. QED
      BY <2>1 DEF PricesMove, TypeOK
  <1>4. connected' \in BOOLEAN /\ level' \in 0 .. Limit + 1
    <2>1. LoadMoves /\ level \in 0 .. Limit + 1 /\ Limit \in Nat
      BY DayLoadsAssumption DEF Tick, TypeOK
    <2>2. level' \in {level, 0, Least(level + 1, Limit + 1), Most(0, level - 1)}
      BY <2>1 DEF LoadMoves
    <2>3. Least(level + 1, Limit + 1) \in 0 .. Limit + 1 /\ Most(0, level - 1) \in 0 .. Limit + 1
      BY <2>1 DEF Least, Most
    <2>4. connected' \in BOOLEAN
      BY <2>1 DEF LoadMoves
    <2>5. 0 \in 0 .. Limit + 1
      BY <2>1
    <2>6. QED
      BY <2>1, <2>2, <2>3, <2>4, <2>5
  <1>5. soc' \in 0 .. MaxSoc
    <2>1. BatteryMoves /\ soc \in 0 .. MaxSoc /\ MaxSoc \in Nat
      BY DayLoadsAssumption DEF Tick, TypeOK
    <2>2. Most(0, soc - 1) \in 0 .. MaxSoc /\ Least(soc + 1, MaxSoc) \in 0 .. MaxSoc
      BY <2>1 DEF Least, Most
    <2>3. QED
      BY <2>1, <2>2 DEF BatteryMoves
  <1>6. runFor' \in 0 .. load.minRun /\ offFor' \in 0 .. load.minOff
    <2>1. Least(runFor + 1, load.minRun) \in 0 .. load.minRun
      BY <1>1 DEF TypeOK, Least
    <2>2. Least(offFor + 1, load.minOff) \in 0 .. load.minOff
      BY <1>1 DEF TypeOK, Least
    <2>3. QED
      BY <2>1, <2>2 DEF Tick, TypeOK
  <1>7. /\ owed' \in Nat /\ late' \in Nat /\ drawing' \in Nat
        /\ sinceTariff' \in 0 .. TariffEvery
    BY DayLoadsAssumption DEF Tick, TypeOK, Least
  <1>8. QED
    BY <1>1, <1>2, <1>3, <1>4, <1>5, <1>6, <1>7 DEF TypeOK

LEMMA StepType == TypeOK /\ [Next]_vars => TypeOK'
  <1> SUFFICES ASSUME TypeOK, [Next]_vars PROVE TypeOK'
    OBVIOUS
  <1>1. CASE Skip
    <2>1. skips' \in 0 .. MaxSkips
      BY <1>1, DayLoadsAssumption DEF Skip, TypeOK
    <2>2. QED
      BY <1>1, <2>1 DEF Skip, TypeOK, clock, inputs, relay, observed
  <1>2. CASE UNCHANGED vars
    BY <1>2 DEF vars, TypeOK, clock, inputs, relay, observed
  <1>3. QED
    BY <1>1, <1>2, CycleType, TickType DEF Next

\* The relay, its records, the battery's setpoint and the prices keep their types for any
\* settings and any inputs.
THEOREM TypeCorrect == Spec => []TypeOK
  BY InitType, StepType, PTL DEF Spec

-----------------------------------------------------------------------------
(***************************************************************************)
(* Deadlines.  Every tick a due and ready load is off has been paid for:   *)
(* by a tick of its pause or of the tariff controller's cadence, by a      *)
(* cycle that was left out, or, for a wallbox charge support may switch    *)
(* off, by a tick it was on.                                               *)
(***************************************************************************)
\* the next tick counts as late
Waiting == ran /\ ~on /\ Due(load.deadline) /\ Ready

ShiftPaid ==
    /\ late <= load.minOff + TariffEvery - 1 + skips
    /\ ~ran /\ ~on => /\ late <= offFor + sinceTariff - 1 + skips
                      /\ offFor < load.minOff => late <= offFor + skips
    /\ Waiting =>
          /\ late + 1 <= Least(offFor + 1, load.minOff)
                           + Least(sinceTariff + 1, TariffEvery) - 1 + skips
          /\ offFor + 1 < load.minOff => late + 1 <= offFor + 1 + skips

GatePaid == late <= skips /\ (Waiting => late + 1 <= skips)

SharedPaid ==
    /\ 2 * late <= owed + 1 + skips
    /\ ~ran /\ on => 2 * late <= owed + skips
    /\ Waiting => 2 * late <= owed + skips

DuePaid ==
    /\ ~ran => sinceTariff >= 1
    /\ Shifted => ShiftPaid
    /\ IsWallbox /\ ~Overruled => GatePaid
    /\ Overruled => SharedPaid

\* What _device_satisfied has latched stays satisfied when it is asked again.
LEMMA SatisfiedStays ==
    ASSUME TypeOK, latch' = Satisfied, UNCHANGED <<level, load>>, Satisfied
    PROVE  Satisfied'
  <1>1. level \in Int /\ Limit \in Int /\ load.hyst \in Nat
    BY SettingFields, DayLoadsAssumption DEF TypeOK
  <1>2. level >= Limit - load.hyst
    BY <1>1 DEF Satisfied
  <1>3. QED
    BY <1>2 DEF Satisfied

LEMMA ReadyBefore ==
    ASSUME TypeOK, Cycle, Ready'
    PROVE  Ready
  <1>1. latch' = Satisfied /\ UNCHANGED <<level, load, connected>>
    BY DEF Cycle, inputs
  <1>2. Satisfied => Satisfied'
    BY <1>1, SatisfiedStays
  <1>3. (IsWallbox' <=> IsWallbox) /\ (Charged => Charged')
    BY <1>1, <1>2 DEF IsWallbox, Charged
  <1>4. QED
    BY <1>1, <1>2, <1>3 DEF Ready

\* The gate switches a wallbox that is due on, and keeps it on unless charge support
\* overrules it; a shifted load waits for its pause and the tariff controller.
LEMMA DueDecision ==
    ASSUME TypeOK, Due(load.deadline), Ready
    PROVE  /\ IsWallbox /\ ~on => NextOn
           /\ IsWallbox /\ ~Overruled => NextOn
           /\ Shifted /\ on => NextOn
           /\ Shifted /\ ~on /\ Rested /\ TariffDue => NextOn
  <1>1. /\ load.kind \in {"tariff", "wallbox", "supported"} /\ on \in BOOLEAN
        /\ Want \in BOOLEAN
    BY SettingFields, Values DEF TypeOK
  <1>2. CASE IsWallbox
    <2>1. connected /\ ~Charged /\ ~Shifted
      BY <1>2 DEF IsWallbox, Shifted, Ready
    <2>2. Gate = "on"
      BY <1>2, <2>1 DEF Gate
    <2>3. ~on => ChargeSupport \in {Nothing, "on"}
      BY <1>1 DEF ChargeSupport, OnIf
    <2>4. ~Overruled => ChargeSupport = Nothing
      BY DEF ChargeSupport, Overruled
    <2>5. ~on \/ ~Overruled => Command = "on"
      BY <2>2, <2>3, <2>4 DEF Command, FirstOf, Nothing
    <2>6. QED
      BY <2>1, <2>5 DEF NextOn, Nothing
  <1>3. CASE ~IsWallbox
    <2>1. Shifted /\ ~BatteryBacked /\ load.kind # "wallbox"
      BY <1>1, <1>3 DEF IsWallbox, BatteryBacked, Shifted
    <2>2. ChargeSupport = Nothing /\ Gate = Nothing /\ Switch = Nothing
      BY <1>3, <2>1 DEF ChargeSupport, Gate, Switch
    <2>3. Command = IF TariffDue THEN TariffShift ELSE Nothing
      BY <2>2 DEF Command, FirstOf
    <2>4. ~Satisfied
      BY <1>3 DEF Ready
    <2>5. on => TariffShift = Nothing
      BY <2>1, <2>4 DEF TariffShift
    <2>6. ~on /\ Rested => TariffShift = "on"
      BY <2>1, <2>4 DEF TariffShift
    <2>7. QED
      BY <1>3, <2>3, <2>5, <2>6 DEF NextOn, Nothing
  <1>4. QED
    BY <1>2, <1>3

\* What the counters are.
LEMMA Counters ==
    ASSUME TypeOK
    PROVE  /\ late \in Nat /\ owed \in Nat /\ skips \in Nat
           /\ load.minOff \in Nat /\ offFor \in 0 .. load.minOff
           /\ TariffEvery \in Nat \ {0} /\ sinceTariff \in 0 .. TariffEvery
           /\ on \in BOOLEAN /\ ran \in BOOLEAN
  BY SettingFields, DayLoadsAssumption DEF TypeOK

LEMMA KindsStay ==
    ASSUME UNCHANGED load
    PROVE  /\ Shifted' <=> Shifted
           /\ IsWallbox' <=> IsWallbox
           /\ Overruled' <=> Overruled
  BY DEF Shifted, IsWallbox, Overruled, BatteryBacked

LEMMA CycleDue ==
    ASSUME TypeOK, DuePaid, Cycle
    PROVE  DuePaid'
  <1>1. /\ UNCHANGED <<load, now, skips, late, owed>> /\ ~ran /\ ran'
        /\ on' = NextOn /\ on \in BOOLEAN /\ NextOn \in BOOLEAN
        /\ sinceTariff' = IF TariffDue THEN 0 ELSE sinceTariff
        /\ sinceTariff >= 1
    BY Values DEF Cycle, inputs, clock, observed, TypeOK, DuePaid
  <1>2. Waiting' => ~NextOn /\ Due(load.deadline) /\ Ready
    BY <1>1, ReadyBefore DEF Waiting, Due
  <1>3. Overruled => IsWallbox
    BY DEF Overruled, BatteryBacked, IsWallbox
  <1>4. ASSUME Shifted PROVE ShiftPaid'
    <2>1. ShiftPaid
      BY <1>4 DEF DuePaid
    <2>2. ASSUME Waiting'
          PROVE  /\ ~on /\ offFor' = offFor /\ ~(Rested /\ TariffDue)
      <3>1. ~on
        BY <1>1, <1>2, <1>4, <2>2, DueDecision
      <3>2. QED
        BY <1>1, <1>2, <1>4, <2>2, <3>1, DueDecision DEF Cycle
    <2>3. ASSUME Waiting'
          PROVE  /\ late + 1 <= Least(offFor + 1, load.minOff)
                                  + Least(sinceTariff' + 1, TariffEvery) - 1 + skips
                 /\ offFor + 1 < load.minOff => late + 1 <= offFor + 1 + skips
      <3>1. /\ late <= offFor + sinceTariff - 1 + skips
            /\ offFor < load.minOff => late <= offFor + skips
        BY <1>1, <2>1, <2>2, <2>3 DEF ShiftPaid
      <3>2. CASE TariffDue
        <4>1. offFor < load.minOff /\ sinceTariff' = 0
          BY <1>1, <2>2, <2>3, <3>2, Counters DEF Rested
        <4>2. QED
          BY <3>1, <4>1, Counters DEF Least
      <3>3. CASE ~TariffDue
        <4>1. sinceTariff < TariffEvery /\ sinceTariff' = sinceTariff
          BY <1>1, <3>3, Counters DEF TariffDue
        <4>2. QED
          BY <1>1, <3>1, <4>1, Counters DEF Least
      <3>4. QED
        BY <3>2, <3>3
    <2>4. QED
      BY <1>1, <2>1, <2>2, <2>3 DEF ShiftPaid
  <1>5. ASSUME IsWallbox, ~Overruled PROVE GatePaid'
    <2>1. ~Waiting'
      BY <1>2, <1>5, DueDecision
    <2>2. QED
      BY <1>1, <1>5, <2>1 DEF DuePaid, GatePaid
  <1>6. ASSUME Overruled PROVE SharedPaid'
    <2>1. SharedPaid
      BY <1>6 DEF DuePaid
    <2>2. Waiting' => on
      BY <1>1, <1>2, <1>3, <1>6, DueDecision
    <2>3. QED
      BY <1>1, <2>1, <2>2 DEF SharedPaid
  <1>7. QED
    BY <1>1, <1>4, <1>5, <1>6, KindsStay DEF DuePaid

LEMMA SkipDue ==
    ASSUME TypeOK, DuePaid, Skip
    PROVE  DuePaid'
  <1>1. /\ UNCHANGED <<load, now, late, owed, on, offFor, level, latch, connected, sinceTariff>>
        /\ ~ran /\ ran' /\ skips' = skips + 1
    BY DEF Skip, inputs, clock, relay, observed
  <1>2. Waiting' => ~on
    BY <1>1 DEF Waiting
  <1>3. ASSUME Shifted PROVE ShiftPaid'
    <2>1. ShiftPaid
      BY <1>3 DEF DuePaid
    <2>2. late <= load.minOff + TariffEvery - 1 + (skips + 1)
      BY <2>1, Counters DEF ShiftPaid
    <2>3. ~on => /\ late <= offFor + sinceTariff - 1 + skips
                 /\ offFor < load.minOff => late <= offFor + skips
      BY <1>1, <2>1 DEF ShiftPaid
    <2>4. ~on => /\ late + 1 <= Least(offFor + 1, load.minOff)
                                  + Least(sinceTariff + 1, TariffEvery) - 1 + (skips + 1)
                 /\ offFor + 1 < load.minOff => late + 1 <= offFor + 1 + (skips + 1)
      BY <2>3, Counters DEF Least
    <2>5. QED
      BY <1>1, <1>2, <2>2, <2>4 DEF ShiftPaid
  <1>4. ASSUME IsWallbox, ~Overruled PROVE GatePaid'
    BY <1>1, <1>4, Counters DEF DuePaid, GatePaid
  <1>5. ASSUME Overruled PROVE SharedPaid'
    <2>1. SharedPaid
      BY <1>5 DEF DuePaid
    <2>2. 2 * late <= owed + 1 + (skips + 1) /\ 2 * late <= owed + (skips + 1)
      BY <2>1, Counters DEF SharedPaid
    <2>3. QED
      BY <1>1, <2>2 DEF SharedPaid
  <1>6. QED
    BY <1>1, <1>3, <1>4, <1>5, KindsStay DEF DuePaid

LEMMA TickDue ==
    ASSUME TypeOK, DuePaid, Tick
    PROVE  DuePaid'
  <1>1. /\ UNCHANGED <<load, on, skips>> /\ ran /\ ~ran'
        /\ sinceTariff' = Least(sinceTariff + 1, TariffEvery)
    BY DEF Tick
  <1>2. sinceTariff' >= 1
    BY <1>1, Counters DEF Least
  <1>3. ~on => offFor' = Least(offFor + 1, load.minOff)
    BY DEF Tick
  <1>4. \/ Waiting /\ late' = late + 1 /\ owed' = owed + 1
        \/ on /\ late' = late /\ owed' = owed + 1
        \/ late' = 0 /\ owed' = 0
    BY <1>1 DEF Tick, Waiting
  <1>5. ~Waiting'
    BY <1>1 DEF Waiting
  <1>6. offFor' \in Nat /\ sinceTariff' \in Nat
    BY TickType, SettingFields, <1>2, Counters, DayLoadsAssumption DEF TypeOK
  <1>7. ASSUME Shifted PROVE ShiftPaid'
    <2>1. ShiftPaid
      BY <1>7 DEF DuePaid
    <2>2. CASE Waiting /\ late' = late + 1
      <3>1. ~on
        BY <2>2 DEF Waiting
      <3>2. /\ late + 1 <= offFor' + sinceTariff' - 1 + skips
            /\ offFor + 1 < load.minOff => late + 1 <= offFor + 1 + skips
        BY <1>1, <1>3, <2>1, <2>2, <3>1 DEF ShiftPaid
      <3>3. offFor' <= load.minOff /\ sinceTariff' <= TariffEvery
        BY <1>1, <1>3, <3>1, Counters DEF Least
      <3>4. offFor' < load.minOff => offFor' = offFor + 1 /\ offFor + 1 < load.minOff
        BY <1>3, <3>1, Counters DEF Least
      <3>5. late + 1 <= load.minOff + TariffEvery - 1 + skips
        BY <1>6, <3>2, <3>3, Counters
      <3>6. QED
        BY <1>1, <1>5, <2>2, <3>2, <3>4, <3>5 DEF ShiftPaid
    <2>3. CASE on /\ late' = late
      BY <1>1, <1>5, <2>1, <2>3 DEF ShiftPaid
    <2>4. CASE late' = 0
      <3>1. /\ 0 <= load.minOff + TariffEvery - 1 + skips
            /\ 0 <= offFor' + sinceTariff' - 1 + skips
            /\ 0 <= offFor' + skips
        BY <1>2, <1>6, Counters
      <3>2. QED
        BY <1>1, <1>5, <2>4, <3>1 DEF ShiftPaid
    <2>5. QED
      BY <1>4, <2>2, <2>3, <2>4
  <1>8. ASSUME IsWallbox, ~Overruled PROVE GatePaid'
    <2>1. GatePaid
      BY <1>8 DEF DuePaid
    <2>2. QED
      BY <1>1, <1>4, <1>5, <2>1, Counters DEF GatePaid
  <1>9. ASSUME Overruled PROVE SharedPaid'
    <2>1. SharedPaid
      BY <1>9 DEF DuePaid
    <2>2. CASE Waiting /\ late' = late + 1 /\ owed' = owed + 1
      <3>1. ~on /\ 2 * late <= owed + skips
        BY <2>1, <2>2 DEF SharedPaid, Waiting
      <3>2. 2 * (late + 1) <= (owed + 1) + 1 + skips
        BY <3>1, Counters
      <3>3. QED
        BY <1>1, <1>5, <2>2, <3>1, <3>2 DEF SharedPaid
    <2>3. CASE on /\ late' = late /\ owed' = owed + 1
      <3>1. 2 * late <= (owed + 1) + skips /\ 2 * late <= (owed + 1) + 1 + skips
        BY <2>1, Counters DEF SharedPaid
      <3>2. QED
        BY <1>1, <1>5, <2>3, <3>1 DEF SharedPaid
    <2>4. CASE late' = 0 /\ owed' = 0
      <3>1. 2 * 0 <= 0 + 1 + skips /\ 2 * 0 <= 0 + skips
        BY Counters
      <3>2. QED
        BY <1>1, <1>5, <2>4, <3>1 DEF SharedPaid
    <2>5. QED
      BY <1>4, <2>2, <2>3, <2>4
  <1>10. QED
    BY <1>1, <1>2, <1>7, <1>8, <1>9, KindsStay DEF DuePaid

\* decide_tariff_actions, evcs_gate: a due and ready load is off no longer than its pause,
\* the tariff cadence and the cycles left out allow, and a supported wallbox no more than
\* half the time, for any load, window, cadence, price list and battery.
THEOREM DeadlinesHonoured == Spec => []DeadlineHonoured
  <1>1. Init => DuePaid
    <2> SUFFICES ASSUME Init PROVE DuePaid
      OBVIOUS
    <2>1. /\ load.minOff \in Nat /\ TariffEvery \in Nat \ {0} /\ ~ran /\ ~on
          /\ late = 0 /\ owed = 0 /\ skips = 0
          /\ offFor = load.minOff /\ sinceTariff = TariffEvery
      BY SettingFields, DayLoadsAssumption DEF Init
    <2>2. ~Waiting
      BY <2>1 DEF Waiting
    <2>3. ShiftPaid /\ GatePaid /\ SharedPaid
      BY <2>1, <2>2 DEF ShiftPaid, GatePaid, SharedPaid
    <2>4. QED
      BY <2>1, <2>3 DEF DuePaid
  <1>2. TypeOK /\ DuePaid /\ [Next]_vars => DuePaid'
    <2> SUFFICES ASSUME TypeOK, DuePaid, [Next]_vars PROVE DuePaid'
      OBVIOUS
    <2>1. CASE UNCHANGED vars
      <3>1. /\ UNCHANGED <<load, now, level, latch, connected, on, ran, skips, offFor,
                            sinceTariff, owed, late>>
        BY <2>1 DEF vars, clock, inputs, relay, observed
      <3>2. Waiting' <=> Waiting
        BY <3>1 DEF Waiting, Due, Ready, IsWallbox, Charged, Satisfied
      <3>3. (ShiftPaid' <=> ShiftPaid) /\ (GatePaid' <=> GatePaid) /\ (SharedPaid' <=> SharedPaid)
        BY <3>1, <3>2 DEF ShiftPaid, GatePaid, SharedPaid
      <3>4. QED
        BY <3>1, <3>3, KindsStay DEF DuePaid
    <2>2. QED
      BY <2>1, CycleDue, SkipDue, TickDue DEF Next
  <1>3. TypeOK /\ DuePaid => DeadlineHonoured
    <2> SUFFICES ASSUME TypeOK, DuePaid PROVE DeadlineHonoured
      OBVIOUS
    <2>1. skips \in 0 .. MaxSkips /\ MaxSkips \in Nat
      BY DayLoadsAssumption DEF TypeOK
    <2>2. QED
      BY <2>1, Counters DEF DuePaid, ShiftPaid, GatePaid, SharedPaid, DeadlineHonoured
  <1>4. QED
    BY TypeCorrect, <1>1, <1>2, <1>3, PTL DEF Spec

-----------------------------------------------------------------------------
(***************************************************************************)
(* The grid.  Every tick a wallbox draws what nobody has granted has been  *)
(* paid for by a tick of its minimum run time or by a left-out cycle.      *)
(***************************************************************************)
\* what Granted says of a load that is on
GrantedOn == Due(load.deadline) \/ load.fromGrid \/ (avail - Nominal) + Budget >= 0

DrawPaid ==
    /\ ~IsWallbox => drawing = 0
    /\ load.interruptible /\ IsWallbox =>
          /\ drawing <= load.minRun + skips
          /\ ~ran => IF on THEN drawing <= runFor + skips ELSE drawing = 0
          /\ ran /\ on /\ ~GrantedOn =>
                \/ drawing + 1 <= runFor + skips
                \/ runFor < load.minRun /\ drawing <= runFor + skips

LEMMA GrantedIs == on => (Granted <=> GrantedOn)
  BY DEF Granted, GrantedOn, Surplus, Draws

LEMMA Shed ==
    ASSUME TypeOK, load.interruptible, IsWallbox, on, Ran, ~GrantedOn
    PROVE  ~NextOn
  <1>1. /\ ~Due(load.deadline) /\ ~load.fromGrid
        /\ Surplus \in Int /\ Budget \in Nat /\ Surplus + Budget < 0
    <2>1. Budget \in 0 .. load.support /\ Surplus \in Int /\ load.support \in Nat
      BY Values, SettingFields DEF TypeOK
    <2>2. QED
      BY <2>1 DEF GrantedOn, Surplus, Draws
  <1>2. Gate \in {Nothing, "off"}
    BY <1>1 DEF Gate
  <1>3. CASE BatteryBacked
    <2>1. ~Want
      BY <1>1 DEF Want
    <2>2. ChargeSupport = "off"
      BY <1>1, <1>3, <2>1 DEF ChargeSupport, OnIf
    <2>3. QED
      BY <2>2 DEF NextOn, Command, FirstOf, Nothing
  <1>4. CASE ~BatteryBacked
    <2>1. load.kind = "wallbox" /\ ChargeSupport = Nothing
      BY <1>4 DEF IsWallbox, BatteryBacked, ChargeSupport
    <2>2. Surplus < 0
      BY <1>1
    <2>3. Switch = "off"
      BY <2>1, <2>2 DEF Switch
    <2>4. Command = "off"
      BY <1>2, <2>1, <2>3 DEF Command, FirstOf, Nothing
    <2>5. QED
      BY <2>4 DEF NextOn, Nothing
  <1>5. QED
    BY <1>3, <1>4

LEMMA StartGranted ==
    ASSUME TypeOK, IsWallbox, ~on, NextOn
    PROVE  GrantedOn
  <1>1. Budget \in Nat /\ Surplus = avail /\ avail \in Int /\ Nominal \in Nat
    <2>1. Budget \in 0 .. load.support /\ load.support \in Nat
      BY Values, SettingFields DEF TypeOK
    <2>2. QED
      BY <2>1, DayLoadsAssumption DEF TypeOK, Surplus, Draws
  <1>2. Command = "on"
    BY DEF NextOn
  <1>3. TariffShift = Nothing
    BY DEF IsWallbox, TariffShift, Shifted
  <1>4. ChargeSupport = "on" \/ Gate = "on" \/ Switch = "on"
    BY <1>2, <1>3 DEF Command, FirstOf, Nothing
  <1>5. CASE ChargeSupport = "on"
    <2>1. Want
      BY <1>5 DEF ChargeSupport, OnIf, Nothing
    <2>2. Surplus + Budget >= Nominal
      BY <2>1 DEF Want
    <2>3. QED
      BY <1>1, <2>2 DEF GrantedOn
  <1>6. CASE Gate = "on"
    BY <1>6 DEF Gate, GrantedOn, Nothing
  <1>7. CASE Switch = "on"
    <2>1. Due(load.deadline) \/ Surplus >= Nominal
      BY <1>7 DEF Switch, Nothing
    <2>2. QED
      BY <1>1, <2>1 DEF GrantedOn
  <1>8. QED
    BY <1>4, <1>5, <1>6, <1>7

LEMMA CycleDraw ==
    ASSUME TypeOK, DrawPaid, Cycle
    PROVE  DrawPaid'
  <1>1. /\ UNCHANGED <<load, now, avail, soc, skips, drawing>> /\ ~ran /\ ran' = TRUE
        /\ on' = NextOn /\ on \in BOOLEAN /\ NextOn \in BOOLEAN
    BY Values DEF Cycle, inputs, clock, observed, TypeOK
  <1>2. drawing \in Nat /\ skips \in Nat /\ runFor \in 0 .. load.minRun /\ load.minRun \in Nat
    BY SettingFields, DayLoadsAssumption DEF TypeOK
  <1>3. (IsWallbox' <=> IsWallbox) /\ (GrantedOn' <=> GrantedOn)
    BY <1>1 DEF IsWallbox, GrantedOn, Due, Budget, BatteryBacked, AtReserve
  <1>4. ASSUME load.interruptible, IsWallbox, on', ~GrantedOn
        PROVE  on /\ runFor' = runFor /\ runFor < load.minRun
    <2>1. on
      BY <1>1, <1>4, StartGranted
    <2>2. ~Ran
      BY <1>1, <1>4, <2>1, Shed
    <2>3. QED
      BY <1>2, <2>1, <2>2 DEF Cycle, Ran
  <1>5. QED
    BY <1>1, <1>2, <1>3, <1>4 DEF DrawPaid

LEMMA SkipDraw ==
    ASSUME TypeOK, DrawPaid, Skip
    PROVE  DrawPaid'
  <1>1. /\ UNCHANGED <<load, now, avail, soc, drawing, on, runFor>>
        /\ ~ran /\ ran' = TRUE /\ skips' = skips + 1
    BY DEF Skip, inputs, clock, relay, observed
  <1>2. drawing \in Nat /\ skips \in Nat /\ runFor \in 0 .. load.minRun /\ load.minRun \in Nat
    BY SettingFields, DayLoadsAssumption DEF TypeOK
  <1>3. IsWallbox' <=> IsWallbox
    BY <1>1 DEF IsWallbox
  <1>4. CASE load.interruptible /\ IsWallbox
    <2>1. drawing <= load.minRun + (skips + 1)
      BY <1>2, <1>4 DEF DrawPaid
    <2>2. on => drawing + 1 <= runFor + (skips + 1)
      BY <1>1, <1>2, <1>4 DEF DrawPaid
    <2>3. QED
      BY <1>1, <1>3, <1>4, <2>1, <2>2 DEF DrawPaid
  <1>5. CASE ~(load.interruptible /\ IsWallbox)
    BY <1>1, <1>3, <1>5 DEF DrawPaid
  <1>6. QED
    BY <1>4, <1>5

LEMMA TickDraw ==
    ASSUME TypeOK, DrawPaid, Tick
    PROVE  DrawPaid'
  <1>1. UNCHANGED <<load, on, skips>> /\ ran /\ ran' = FALSE
    BY DEF Tick
  <1>2. /\ drawing \in Nat /\ skips \in Nat /\ runFor \in 0 .. load.minRun /\ load.minRun \in Nat
        /\ on \in BOOLEAN
    BY SettingFields, DayLoadsAssumption DEF TypeOK
  <1>3. IsWallbox' <=> IsWallbox
    BY <1>1 DEF IsWallbox
  <1>4. PICK d \in Nat, r \in Nat : drawing' = d /\ runFor' = r
    BY TickType DEF TypeOK
  <1>5. CASE load.interruptible /\ IsWallbox /\ on /\ ~GrantedOn
    <2>1. d = drawing + 1 /\ r = Least(runFor + 1, load.minRun)
      BY <1>4, <1>5, GrantedIs DEF Tick
    <2>2. \/ drawing + 1 <= runFor + skips
          \/ runFor < load.minRun /\ drawing <= runFor + skips
      BY <1>1, <1>5 DEF DrawPaid
    <2>3. d <= r + skips
      BY <1>2, <2>1, <2>2 DEF Least
    <2>4. r <= load.minRun
      BY <1>2, <2>1 DEF Least
    <2>5. d <= load.minRun + skips
      BY <1>2, <1>4, <2>3, <2>4
    <2>6. QED
      BY <1>1, <1>3, <1>4, <1>5, <2>3, <2>5 DEF DrawPaid
  <1>6. CASE ~(IsWallbox /\ on /\ ~GrantedOn)
    <2>1. d = 0
      BY <1>4, <1>6, GrantedIs DEF Tick
    <2>2. d <= r + skips /\ d <= load.minRun + skips
      BY <1>2, <1>4, <2>1
    <2>3. QED
      BY <1>1, <1>3, <1>4, <2>1, <2>2 DEF DrawPaid
  <1>7. CASE ~load.interruptible /\ IsWallbox
    BY <1>1, <1>3, <1>7 DEF DrawPaid
  <1>8. QED
    BY <1>5, <1>6, <1>7

\* plan_charge_support, decide_action: whatever the sun, the battery and the plug do, an
\* interruptible wallbox sheds what nobody has granted after its minimum run time.
THEOREM GridIsSpared == Spec => []GridSpared
  <1>1. Init => DrawPaid
    <2> SUFFICES ASSUME Init PROVE DrawPaid
      OBVIOUS
    <2>1. load.minRun \in Nat
      BY SettingFields DEF Init
    <2>2. QED
      BY <2>1 DEF Init, DrawPaid
  <1>2. TypeOK /\ DrawPaid /\ [Next]_vars => DrawPaid'
    <2> SUFFICES ASSUME TypeOK, DrawPaid, [Next]_vars PROVE DrawPaid'
      OBVIOUS
    <2>1. CASE UNCHANGED vars
      BY <2>1 DEF vars, clock, inputs, relay, observed, DrawPaid, IsWallbox, GrantedOn, Due, Budget,
                  BatteryBacked, AtReserve
    <2>2. QED
      BY <2>1, CycleDraw, SkipDraw, TickDraw DEF Next
  <1>3. TypeOK /\ DrawPaid => GridSpared
    <2> SUFFICES ASSUME TypeOK, DrawPaid, load.interruptible
                 PROVE  drawing <= load.minRun + MaxSkips
      BY DEF GridSpared
    <2>1. /\ drawing \in Nat /\ skips \in 0 .. MaxSkips /\ MaxSkips \in Nat
          /\ load.minRun \in Nat
      BY SettingFields, DayLoadsAssumption DEF TypeOK
    <2>2. drawing = 0 \/ drawing <= load.minRun + skips
      BY DEF DrawPaid
    <2>3. QED
      BY <2>1, <2>2
  <1>4. QED
    BY TypeCorrect, <1>1, <1>2, <1>3, PTL DEF Spec

=============================================================================
