------------------------------- MODULE History -------------------------------
(***************************************************************************)
(* The energy history and what is read from it: the recorder that appends  *)
(* a row per interval and purges old ones (main._recorder, record_state,   *)
(* purge_old), the cost of the actual operation and of the baselines it is *)
(* compared with (Store.savings), and the load profile the consumption     *)
(* forecast is made of (build_load_profile, LoadProfile.predict).          *)
(*                                                                         *)
(* A tick is one recording interval and one hour of the day.  Energies are *)
(* multiples of Loss * Loss, so that charging and discharging, which divide *)
(* and multiply by Loss, stay exact.                                       *)
(***************************************************************************)
EXTENDS Integers, Sequences, FiniteSets, Functions

CONSTANTS
    Readings,     \* what a row may say: [pv, house, grid, price]
    NoPrice,      \* price_ct is null
    CurPrice,     \* current_price_ct when the page asks
    Feed,         \* feed_in_ct
    Day,          \* ticks per day
    Week,         \* days per week
    Workdays,     \* of them, not at the weekend
    Retentions,   \* what retention_days is set to, in ticks
    PurgeEvery,   \* PURGE_INTERVAL
    Shown,        \* range_s of the page
    Past,         \* history_days of the forecast
    Battery,      \* batt_kwh
    MaxCharge,    \* half of it per hour
    PvFactor,     \* pv_kw relative to the observed peak
    Loss,         \* 1/CE = 1/DE
    CheapUntil,   \* hour the cheap window ends
    PeakFrom,     \* hour the expensive window begins
    Low, Normal, High,  \* its prices
    SinkPower,    \* sink_cap_w
    SinkDay,      \* sink_kwh_day
    MaxMissed,    \* bound: ticks without a row
    Horizon       \* bound: ticks

MaxDt == 2

ASSUME HistoryAssumption ==
    /\ Loss \in Nat \ {0} /\ PvFactor \in Nat /\ Battery \in Nat /\ MaxCharge \in Nat
    /\ MaxCharge % (Loss * Loss) = 0 /\ Battery % Loss = 0
    /\ \A f \in Readings :
          /\ f.pv \in Nat /\ f.house \in Nat /\ f.grid \in Int /\ f.price \in Int \cup {NoPrice}
          /\ f.pv % (Loss * Loss) = 0 /\ f.house % (Loss * Loss) = 0
    /\ NoPrice \notin Int /\ {CurPrice, Feed, Low, Normal, High} \subseteq Int
    /\ Day \in Nat \ {0} /\ Week \in Nat \ {0} /\ Workdays \in 0 .. Week
    /\ Shown \in Nat /\ Retentions \subseteq Nat
    /\ Past \in Nat /\ PurgeEvery \in Nat
    /\ SinkPower \in Nat /\ SinkDay \in Nat /\ MaxMissed \in Nat /\ Horizon \in Nat

VARIABLES
    now,
    reading,    \* what flows in this tick
    rows,       \* the table energy_state, ordered by ts
    sincePurge, \* since the last purge
    missed,
    taken,      \* every row ever written
    purged      \* history: no purge deleted a row this young or younger

historyVars == <<now, reading, rows, sincePurge, missed, taken, purged>>

Least(a, b) == IF a < b THEN a ELSE b
Most(a, b) == IF a > b THEN a ELSE b

-----------------------------------------------------------------------------
(***************************************************************************)
(* The spans between the rows of a window.                                 *)
(***************************************************************************)
\* WHERE ts >= cutoff; the table is ordered by ts
Since(list, cutoff) ==
    LET older == {i \in DOMAIN list : list[i].ts < cutoff}
    IN  SubSeq(list, Cardinality(older) + 1, Len(list))

\* faulty: a hole counts in full
WholeGap(list, i) == list[i + 1].ts - list[i].ts
\* what a row says holds until the next row, but no longer than MaxDt
Gap(list, i) == Least(list[i + 1].ts - list[i].ts, MaxDt)

Span(r, dt) ==
    [ts |-> r.ts, dt |-> dt, pv |-> r.pv * dt, house |-> r.house * dt,
     import |-> Most(r.grid, 0) * dt, export |-> Most(-r.grid, 0) * dt,
     price |-> IF r.price = NoPrice THEN CurPrice ELSE r.price]
Spans(list) == [i \in 1 .. Most(Len(list) - 1, 0) |-> Span(list[i], Gap(list, i))]

ActualCost(spans) ==
    SumFunction([i \in DOMAIN spans |-> spans[i].import * spans[i].price - spans[i].export * Feed])
FullFeedCost(spans) ==
    SumFunction([i \in DOMAIN spans |-> spans[i].house * spans[i].price - spans[i].pv * Feed])
SelfUsed(s) == Least(s.pv, s.house)
DirectCost(spans) ==
    SumFunction([i \in DOMAIN spans |-> (spans[i].house - SelfUsed(spans[i])) * spans[i].price
                                - (spans[i].pv - SelfUsed(spans[i])) * Feed])

\* what a sink of SinkPower, and of SinkDay per day unless that is 0, takes up
Absorb(acc, s) ==
    LET today == IF acc.day = s.ts \div Day THEN acc.today ELSE 0
        offered == Least(s.pv - SelfUsed(s), SinkPower * s.dt)
        taking == IF SinkDay > 0 THEN Least(offered, Most(0, SinkDay - today)) ELSE offered
    IN  [day |-> s.ts \div Day, today |-> today + taking, total |-> acc.total + taking,
         saved |-> acc.saved + taking * (s.price - Feed)]
Sink(spans) ==
    LET sunk[k \in 0 .. Len(spans)] ==
            IF k = 0 THEN [day |-> -1, today |-> 0, total |-> 0, saved |-> 0]
            ELSE Absorb(sunk[k - 1], spans[k])
    IN  sunk[Len(spans)]

(***************************************************************************)
(* The baseline "dynamic": a battery walked over the spans.                *)
(***************************************************************************)
CheapHour(s) == s.ts % Day < CheapUntil
TariffPrice(s) ==
    CASE CheapHour(s) -> Low
      [] ~CheapHour(s) /\ s.ts % Day >= PeakFrom -> High
      [] OTHER -> Normal

\* faulty: the battery gives what it has stored, without losses
DrawnLossless(soc, s, deficit) == Least(deficit, Least(MaxCharge * s.dt, soc))
Drawn(soc, s, deficit) == Least(deficit, Least(MaxCharge * s.dt, soc \div Loss))

Charged(soc, s, offered) == Least(offered, Least(MaxCharge * s.dt, (Battery - soc) * Loss))

Walk(acc, s) ==
    LET surplus == PvFactor * s.pv - s.house
        step == CASE surplus >= 0 ->
                       LET chg == Charged(acc.soc, s, surplus)
                       IN  [soc |-> acc.soc + chg \div Loss, import |-> 0, export |-> surplus - chg]
                  [] surplus < 0 /\ CheapHour(s) ->
                       LET chg == IF Low * Loss * Loss < Normal
                                  THEN Charged(acc.soc, s, MaxCharge * s.dt) ELSE 0
                       IN  [soc |-> acc.soc + chg \div Loss, import |-> chg - surplus, export |-> 0]
                  [] OTHER ->
                       LET dis == Drawn(acc.soc, s, -surplus)
                       IN  [soc |-> acc.soc - dis * Loss, import |-> -surplus - dis, export |-> 0]
    IN  [soc |-> step.soc, import |-> acc.import + step.import, export |-> acc.export + step.export,
         cost |-> acc.cost + step.import * TariffPrice(s) - step.export * Feed]
Dynamic(spans) ==
    LET walked[k \in 0 .. Len(spans)] ==
            IF k = 0 THEN [soc |-> 0, import |-> 0, export |-> 0, cost |-> 0]
            ELSE Walk(walked[k - 1], spans[k])
    IN  walked[Len(spans)]

\* savings: the actual cost and that of each baseline
Savings ==
    LET spans == Spans(Since(rows, now - Shown))
    IN  [actual |-> ActualCost(spans), full_feed |-> FullFeedCost(spans),
         direct |-> DirectCost(spans), surplus_sink |-> DirectCost(spans) - Sink(spans).saved,
         absorbed |-> Sink(spans).total, dynamic |-> Dynamic(spans)]

-----------------------------------------------------------------------------
(***************************************************************************)
(* The load profile.                                                       *)
(***************************************************************************)
\* (day class, hour)
Bucket(ts) == <<(ts \div Day) % Week >= Workdays, ts % Day>>

\* faulty: samples lose the same weight in every tick
LinearWeight(ts, at) == Past + 2 - Most(0, at - ts)
PowerOfTwo[k \in 0 .. Past + 1] == IF k = 0 THEN 1 ELSE 2 * PowerOfTwo[k - 1]
\* half-life one tick, scaled to integers
Weight(ts, at) == PowerOfTwo[Past + 1 - Most(0, at - ts)]

\* a weighted mean of some rows, as a fraction
Mean(list, some, at) ==
    [sum |-> SumFunction([i \in some |-> Weight(list[i].ts, at) * list[i].house]),
     weight |-> SumFunction([i \in some |-> Weight(list[i].ts, at)])]

\* LoadProfile.predict: the bucket of the hour, or else the overall mean
Predict(list, at, ts) ==
    LET own == {i \in DOMAIN list : Bucket(list[i].ts) = Bucket(ts)}
    IN  Mean(list, IF own = {} THEN DOMAIN list ELSE own, at)

\* forecast_consumption: every hour from the next one on
Forecast(list, at) == [ts \in at + 1 .. at + Day * Week + 1 |-> Predict(list, at, ts)]

-----------------------------------------------------------------------------
HistoryInit ==
    /\ now = 0 /\ reading \in Readings /\ rows = <<>> /\ taken = <<>>
    /\ sincePurge = PurgeEvery /\ missed = 0 /\ purged = 0

\* faulty: rows are dated by the half hour
RowDatedLate == [ts |-> now - (now % 2), pv |-> reading.pv, house |-> reading.house, grid |-> reading.grid,
                 price |-> reading.price]
\* record_state
Row == [ts |-> now, pv |-> reading.pv, house |-> reading.house, grid |-> reading.grid, price |-> reading.price]

TimePasses ==
    /\ now < Horizon /\ now' = now + 1
    /\ reading' \in Readings

\* faulty: the row at the cutoff goes too
PurgedThrough(list, days) == Since(list, now - days + 1)
\* purge_old: what is left of the table under a retention of some days
Purged(list, days) == Since(list, now - days)

\* once in PurgeEvery, with the retention set by then; a purge that fails is not repeated
Purge(list) ==
    \/ /\ sincePurge < PurgeEvery /\ sincePurge' = sincePurge + 1
       /\ rows' = list /\ UNCHANGED purged
    \/ /\ sincePurge >= PurgeEvery /\ sincePurge' = 0
       /\ \/ \E days \in Retentions :
                rows' = Purged(list, days) /\ purged' = Most(purged, now - days)
          \/ rows' = list /\ UNCHANGED purged

\* _recorder: writes the balance, and purges when it is time
Record ==
    /\ TimePasses
    /\ taken' = Append(taken, Row)
    /\ Purge(Append(rows, Row))
    /\ UNCHANGED missed

\* the insert fails, and is only logged
Drop ==
    /\ TimePasses
    /\ missed < MaxMissed /\ missed' = missed + 1
    /\ Purge(rows)
    /\ UNCHANGED taken

\* not connected, or the agent is down and forgets when it last purged
Miss ==
    /\ TimePasses
    /\ missed < MaxMissed /\ missed' = missed + 1
    /\ sincePurge' \in {Least(sincePurge + 1, PurgeEvery), PurgeEvery}
    /\ UNCHANGED <<rows, taken, purged>>

\* a page asks for savings or forecast, and only reads
Ask == UNCHANGED historyVars

HistoryNext == Record \/ Drop \/ Miss \/ Ask

HistorySpec == HistoryInit /\ [][HistoryNext]_historyVars

-----------------------------------------------------------------------------
\* Types; the table is ordered.
HistoryTypeOK ==
    /\ now \in 0 .. Horizon /\ reading \in Readings /\ missed \in 0 .. MaxMissed
    /\ sincePurge \in 0 .. PurgeEvery /\ purged \in 0 .. now
    /\ rows \in Seq([ts : Nat, pv : Nat, house : Nat, grid : Int, price : Int \cup {NoPrice}])
    /\ \A i, j \in DOMAIN rows : i < j => rows[i].ts < rows[j].ts

\* What was due to be deleted is out of some retention that was set.
OnlyExpired == purged = 0 \/ \E days \in Retentions : purged <= now - days

\* The actual cost is that of every row in the range but those some purge was due to delete
\* (the page's range of a year exceeds the default retention of 90 days: what is older than
\* that is missing from the sum without a word); a hole counts for at most one interval
\* more than it would without a hole.
ActualExact(sav) ==
    LET range == Since(taken, Most(now - Shown, purged))
        Counted(i) == IF range[i + 1].ts > range[i].ts + 1 THEN 2 ELSE 1
        CostOf(r) == Most(r.grid, 0) * (IF r.price = NoPrice THEN CurPrice ELSE r.price)
                     - Most(-r.grid, 0) * Feed
    IN  sav.actual =
          SumFunction([i \in 1 .. Len(range) - 1 |-> Counted(i) * CostOf(range[i])])

\* Whatever was recorded, the simulated battery keeps within its capacity and neither
\* creates energy nor loses track of it: what it took in and has not given back is at
\* least what it holds (savings: round-trip losses CE, DE).
BatteryBalances(sav) ==
    LET spans == Spans(Since(rows, now - Shown))
        sim == sav.dynamic
        kept == PvFactor * SumFunction([i \in DOMAIN spans |-> spans[i].pv]) + sim.import
                - SumFunction([i \in DOMAIN spans |-> spans[i].house]) - sim.export
    IN  sim.soc \in 0 .. Battery /\ kept >= Loss * sim.soc

\* The sink takes no more than its storage holds per day, and self-consumption never
\* costs more than feeding everything in as long as buying is dearer than selling.
BaselinesOrdered(sav) ==
    LET spans == Spans(Since(rows, now - Shown))
        days == {spans[i].ts \div Day : i \in DOMAIN spans}
    IN  /\ SinkDay > 0 => sav.absorbed <= SinkDay * Cardinality(days)
        /\ (\A i \in DOMAIN spans : spans[i].price >= Feed) =>
              /\ sav.surplus_sink <= sav.direct
              /\ sav.direct <= sav.full_feed

\* Together: what the page shows as saved is what was recorded, and the scenarios it is
\* compared with are physically possible.
SavingsSound ==
    /\ OnlyExpired
    /\ \A sav \in {Savings} : ActualExact(sav) /\ BatteryBalances(sav) /\ BaselinesOrdered(sav)

Off(mean, w) == LET d == mean.sum - w * mean.weight IN IF d < 0 THEN -d ELSE d

Dated(list, ts) ==
    {list[i] : i \in {j \in DOMAIN list : list[j].ts < now /\ Bucket(list[j].ts) = Bucket(ts)}}

\* The forecast of an hour that has samples, before and after a row is written.
Follows ==
    LET old == Since(rows, now - Past)
        new == Since(rows', now - Past)
        before == Forecast(old, now - 1)
        after == Forecast(new, now)
    IN  \A ts \in DOMAIN before \cap DOMAIN after :
          Dated(old, ts) # {} /\ Dated(old, ts) = Dated(new, ts) =>
            IF Bucket(ts) = Bucket(now)
            THEN Off(after[ts], reading.house) * before[ts].weight
                   <= Off(before[ts], reading.house) * after[ts].weight
            ELSE before[ts].sum * after[ts].weight = after[ts].sum * before[ts].weight

\* What is recorded in an hour never moves the forecast of that hour away from it, and
\* leaves the forecast of every other hour that has samples as it was an hour ago, unless
\* samples drop out of the history (build_load_profile: "recent days count more"; all
\* weights decay alike).
ForecastFollows == [][taken' # taken => Follows]_historyVars
=============================================================================
