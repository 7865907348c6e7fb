# Smart Energy Agent: a verification project

TLA+ models of the Smart Energy Agent (SEA), a Home Assistant add-on that
switches and modulates loads, batteries and heating according to PV surplus,
tariff and forecasts.  Paths are relative to `src/`; the Python package is
`src/smart_energy_agent/`.  `PROJECT.json` maps every definition that models code to
the lines it models.

## 1. The system

One asyncio process.  All tasks share one event loop; state is only lost or
interleaved at an `await`.

| Component | State | Operations | Talks to |
|---|---|---|---|
| **Home Assistant connection** (`ha_client.py`, `main._on_connected`) | `_ws`, `_connected`, `_pending` (futures by message id), receive and ping task | `run_forever`, `_connect_once`, `_receive_loop`, `_ping_loop`, `_command`, `_dispatch`, `_teardown` | Home Assistant by websocket; the store by `on_event` |
| **Agent** (`main.py`) | the tasks | `_on_connected` (initial fetches, subscription), `_on_state_changed`, `_cycle` (control), `_recorder`, setback and solar-forecast loops | all |
| **Control engine** (`control.py`, `ControlEngine`) | last run of each controller, the day's staged energy and last full charges (saved every 300 s) | `build_image`, `run_cycle`, the chain of controllers | reads the store, fills a `CommandSet`, writes by service call |
| **Control core** (`control_core.py`) | `ProcessImage`, `CommandSet` (constraints, switches, `current_priority`), apply cache in the store | `add`, `constrain`, `_resolve`, `Cycle.run`, `apply_commands` | controllers, Home Assistant |
| **Controllers** (`control.py`) | stateless, one `process` each | battery care, reserve, feed-in limit, peak shaving, optimizer, charge support, modulation, EV charging, heat pump, staged loads, tariff shift, surplus switching, rules | the image in, commands out |
| **Rules** (`rules.py`) | stored rules | `evaluate` (JSONLogic), `apply_actions`, `RuleController.process` | the command set, under a priority of its own |
| **Store: configuration** (`store.py`) | `energy_config.json`, `settings.json` (vehicles, priorities, strategies) | `set_full_config`, `import_prefs`, `set_vehicles`, `strategy_devices`, `move_strategy_priority`, load and save | web requests, control engine |
| **Store: live data** (`store.py`, `aggregator.py`) | latest states, samples per sensor, satisfied latches, runtime records of switched loads, apply cache | `observe_config_state`, `signal_rate`, `_aligned_live`, `balance`, `signal_stale`, `_device_satisfied`, `note_switch` | events in, process image out |
| **Store: history** (`store.py`, `forecast.py`) | table `energy_state` | `record_state`, `purge_old`, `savings`, `consumption_forecast` | recorder, web requests, optimizer |
| **Tariff** (`tariff.py`) | none | `cheap_now`, `parse_price_forecast` | price entity in, tariff shifting and reserve out |
| **Thermostat setback** (`thermostat.py`) | last target per climate | `run_once`, learning of the reheat rate | store, climate service calls |
| **Discovery, suggestions, setup catalogue, web UI** | derived | request-driven | store, Home Assistant |

How a control cycle runs (every `CONTROL_INTERVAL` = 10 s, only while
connected): `build_image` takes a snapshot of the store; every controller of
the chain, from the highest priority to the rules, adds switch commands (first
writer per entity wins) and numeric constraints; the command set resolves them
to at most one write per entity; `apply_commands` sends what is not an
unchanged repetition (until a keepalive of 55 s), awaits the answer, and only
then notes the switch in the runtime record and the apply cache.  Meanwhile
states arrive in the store, and the guards of the next cycle read both.

### What is hard here

* **Interleaving.** A service call is executed by Home Assistant before it is
  answered, and its `state_changed` event may come before or after the answer.
  The runtime record is written at the answer, the guards read the event.
* **Lost answers and restarts.** Runtime records and apply cache exist in memory
  only; a lost answer leaves both without the switch that happened.
* **Connection teardown.** Four kinds of task share the socket and `_pending`.
  A request may be registered after the socket broke, a ping may time out while
  its pong is under way, and the setup awaits answers before the receive task is.
* **Composition of strategies.** Seven controllers command the same battery.
  Whether their bounds and targets end up where each documents they do is a
  property of the chain and of many cycles, not of a controller.
* **Feedback.** Discharging changes the grid power that decided the discharge.
* **Several reasons for one relay.** Charge support, wallbox gate, surplus switch and
  tariff shift may each command a wallbox or an appliance; minimum times, the
  satisfied latch, latest starts and the battery's reserve enter each of them
  differently.
* **Sensors of different pace.** The balance is formed from averages over samples that
  are late, old or missing, and a modulating load feeds back into it.
* **Two files, one meaning.** Priorities are stored under ids that another file holds;
  devices come and go, ids are given anew, and each file may fail to be written.
* **Numeric edges.** Rounding after clamping, empty intervals, limits of 0 that
  mean "off".

Section 6 says where each is listed; `PROJECT.json` lists them as hazards with
the line where they bite.

### What makes each component correct

* Connection: nobody waits for ever; the session comes back; a request never
  outlives its socket; a heartbeat that was answered does not end the link.
* Control core: a write respects the actuator's limits and every bound that can
  be respected; its value comes from the highest-ranked target; a bound alone
  starts nothing; a later controller never takes over an earlier one's entity.
* Surplus switching: minimum run time, minimum off time and the daily limit hold
  at the relay, not only in the records; a suppressed command is one that would
  change nothing; lasting surplus is used; what the store believes is what the relay is.
* Relay groups: the stages that run are the ones the surplus supports, from the
  bottom up; the day's minimum is delivered; the SG-Ready pair shows the signal
  that was asked for.
* Battery: the reserve is never force-discharged, the cap never force-charged,
  the emergency backup refilled, care finished.
* Wallbox and appliance: a due load runs; a load nobody has granted the grid is shed;
  cheap hours that move do not starve a load.
* Configuration: devices keep their ids and their order, over restarts too.
* Signals: once the flows are steady the balance is exact; nothing follows a number
  that is known to be old.
* History: what is shown as saved is what was recorded, compared with scenarios that
  are possible; the forecast follows what is recorded.

## 2. Modules

| Module | Models | Composed with |
|---|---|---|
| `CommandSet` | `CommandSet.add`, `constrain`, `_resolve`, the controller loop and the rules' own priorities | `CommandSetProofs` extends it |
| `SwitchControl` | `decide_action`, `apply_commands` for switches, `note_switch`, the store's view of a relay, and Home Assistant's side of a service call | `SwitchControlProofs` extends it |
| `RelayLoads` | `plan_stages`, `staged_force`, `plan_sg_ready`, and the group of calls `apply_commands` makes for them | `RelayLoadsProofs` extends it |
| `DayLoads` | `cheap_now`, `decide_tariff_actions`, `evcs_gate`, `plan_charge_support`, `decide_action` for a linked wallbox, `_device_satisfied`, and the chain that decides between them | first writer as in `CommandSet`; `DayLoadsProofs` extends it |
| `Signals` | `_note_sample`, `signal_rate`, `_align_window`, `_aligned_value`, `signal_stale`, `balance_from_config`, `surplus_signal`, the frozen or following modulation | `StoreProofs` extends it |
| `Setup` | `set_full_config`, `_sanitize_config`, `import_prefs`, `_migrate_config`, `set_vehicles`, `strategy_devices`, `move_strategy_priority`, both files | `StoreProofs` extends it, `Signals` and `History`; its specification is `SetupSpec`, with `setupVars`, so that one module can extend all three |
| `History` | `record_state`, `purge_old`, `_recorder`, `savings`, `build_load_profile`, `forecast_consumption` | `StoreProofs` extends it; its specification is `HistorySpec`, with `historyVars` |
| `BatteryCycle` | the six controllers that command a battery, the battery and the grid meter | resolves as `CommandSet` does; `BatteryCycleProofs` extends it |
| `Setback` | `ThermostatEngine.run_once`, `target`, `_learn`, `minutes_to_time`, `group_present`, and a room that warms and cools | `SetbackProofs` extends it |
| `HAClient` | `run_forever`, `_connect_once`, `_teardown`, the receive and ping loops, `_command`, and `main._on_connected` | implements `ConnectionPromise` |
| `ConnectionPromise` | the abstract specification: a caller asks, and is released by an answer or by the end of the link | instantiated by `HAClient` |
| `MC*` | the small instances TLC checks | |
| `*Proofs` | theorems and their proofs | extend the module they are about |

Operators marked "faulty" stand beside the definition they corrupt.  They are
used by no specification; each shows, put in that definition's place, that a
property notices the mistake (`PROJECT.json`, "mutants").

### CommandSet

One behaviour is one cycle.  `phase = "process"`: the controller `at` adds
switch commands (`AddSwitch`, enabled only for an entity without one: the first
writer wins) and constraints (`Constrain`, `AddTarget`) under
`current_priority = Chain + 1 - at`; `StartRule`/`EndRule` are the rule
controller's change of that priority and its `finally`.  A controller that raises
leaves what it had added, so `NextController` is enabled at any moment.
`phase = "resolve"`: the loop of `_resolve` over an entity's constraints, one
iteration per `ResolveNext`, from `(-priority, index)` on: `Narrow`, then
`TakeTarget`; when none is left, `Write` clamps and rounds.  `round(x, 2)` is
modelled on integers with `Grain` fine units per hundredth, a tie falling on
either side.

### SwitchControl

`relay` is Home Assistant's switch, `seen` the store's copy.  A `Cycle` decides on
`seen` and the runtime record and starts at most one `call`, unless `Suppressed`
by the cache.  `Execute` is Home Assistant running the call; `Echo` the
`state_changed` event, before or after `Reply`, in which `note_switch` and the
cache entry are written.  `Reject`, `LoseReply`, `Manual`, `Restart` and
`SkipCycle` (not connected) may intervene.  `Outage` is a broken link during which
somebody switches the load: the snapshot fetched by the next session does not
replace a state the store already has (`_seed_live_from_snapshot`), so the load
is in `missed` until it really changes again.  `onFor`, `offFor` and `dayStarts`
record what the relay really did; the guards are checked against them and not
against the engine's own record.  A tick is a `CONTROL_INTERVAL`; ages saturate at
`MaxAge`, those of the cache at `Keepalive`.

### RelayLoads

One device, a rod of `N` stages or a pump with two relays.  `Cycle` plans the
changed stages (or the pair) from `seen` into `queue`; `Suppress`, `Send` and
`Fail` take one command each, as the loop of `apply_commands` does, with states
arriving (`Echo`) in between.  The signed surplus contains what the stages really
draw, the plan adds back what it believes they draw.  `today` is the engine's
estimate of the day's energy, `delivered` the real one, `file` what `_persist_state`
has saved of it.  `Restart` ends the process between two cycles ("restart") or amid
the calls of one ("killed").

### DayLoads

One load, of one of the kinds the control engine sorts devices into: `tariff`
(shifted into cheap hours), `wallbox`, or `supported` (a wallbox the battery helps).
Each controller that may command its relay is an operator that returns what it asks
for, in the terms of the code's inputs; `Command` is that of the first in the chain that
asks for something (`FirstOf`).  `Cycle` is `run_cycle` for this relay and, for a supported load, the
battery's discharge setpoint.  A tick is one cycle, and the day, its windows and its prices
are counted in ticks; the tariff controller runs in every `TariffEvery`-th cycle
(`TARIFF_INTERVAL` is 30 of `CONTROL_INTERVAL`), and `sinceTariff` are
the ticks since it last did.  `latch` is `_sat_state`; for a wallbox with a linked vehicle
the vehicle's target counts at the gate.  `owed`, `late` and `drawing` count what the
properties are about: the ticks of its window a load has been due and ready, those of them
it was off, and the ticks it has drawn what nobody granted.  `late` is not reset when the
load goes on: a load that flaps stays late.  Calls are executed at once; `SwitchControl`
has their delays and losses.

### Signals

`samples` is a sensor's deque, each sample with the gap to the one before; `age` the
time since the latest.  `Reading` is `_aligned_live`: the average over the common
window, or the last number.  `Report`, `Offline` and `FallSilent` are what a sensor may
do, `Change` what really flows, and `Cycle` the modulating load that follows the surplus
(with `kp = 0`, `ki = 1`) or is frozen.  A living sensor reports a change within `Delay`
and is heard of every `MaxGap`.  `quiet` and `unheard` compare what is known with what
flows; no operator of the code reads them.

### Setup

`config` and `vehicles` are the documents as the store holds them, `loads` the stored
priorities under the ids' keys, `disk` both files.  The actions are the requests of the
page with the documents it posts, `Normalize` what each control cycle and each
listing does, and `Restart`.  A write replaces a file as a whole or fails, which is
only logged (`unsaved`).  A file of an older version (`Migrated`) has no ids: they are
given on each start and written with the next save.  Instances and vehicles together are
`Positions`, the list `controllable_devices` walks; `Ahead` is the key it is sorted by,
`Place` the index in the sorted list, and `Listed` the list itself.

### History

`rows` is the table, `taken` every row ever written.  `Record` appends and, once in
`PurgeEvery`, deletes what is older than the retention that is set by then, any of
`Retentions`, or fails to; `Drop` is an insert that failed, `Miss` a time without the agent
or its connection.  `purged` is the latest cutoff of a purge.  A retention below the range
shown is the normal case: it is 90 days unless set (`const.py:33`), and the savings page
offers a year.  `Savings`
and `Forecast` are what a page that asks would get; they are functions of `rows` and
the properties speak of them.  Energies are chosen such that the losses of the
simulated battery divide them, so all amounts are exact integers; the forecast's means
are kept as fractions.  Prices are any integers, negative ones included.

### BatteryCycle

`Cycle` is the whole of `build_image`, the chain and the writes: each controller
contributes at most one target per setpoint, the first in the chain wins
(`CommandSet!TargetOwner` for distinct priorities), `EssReserveController`'s two
`hi = 0` bounds clamp it, and a setpoint nobody has a target for stays as it was
written in an earlier cycle.  The battery moves its level by at most one between
cycles; `GridW` contains the battery's own power, as the meter does.  What the
optimizer plans is open: any plan the SoC allows.

### Setback

A tick is one `run_once` of one thermostat.  `set` is its setpoint, `temp` the room;
`seen` what the store knows of both, nothing while the entity is unavailable.  `Run`
learns, then compares the target with what it has seen and calls, and the call may
fail.  Rates are in tenths of a minute per kelvin as `set_thermostat_reheat` rounds
them, temperatures in half kelvins (the tolerance of `_learn`).  The room takes one to
`Slowest` ticks for half a kelvin while it is heated, and may cool at any pace up to
half a kelvin a tick otherwise.  `least` remembers the smallest rate that was in use since
the last comfort time; no operator of the code reads it.

### HAClient

`phase` is where `run_forever` is: from dialling through authentication and the
awaits of `_on_connected` to the await of the receive task and the teardown.  A
request is named by who made it; `pending` are the registered futures, `waiting`
those who await one.  `Drop` may break the link at any moment; then sends raise,
the receive task ends (`RecvEnds`) and, once `run_forever` awaits it, the
teardown fails every future.  `inflight` is what is on the wire in either
direction.

## 3. Runs

| Run | Specification, bounds | Shows |
|---|---|---|
| `CommandSet` | two entities, chain of 2 and a rule priority above it, at most 3 constraints | `BoundsHonoured`, `TargetOwner` |
| `SwitchGuards` | one heater with every guard and a latest start, a day of 4 ticks, no faults | `MinTimesKept`, `MaxStartsKept` at the relay; `SuppressionHarmless` |
| `SwitchServed` | two loads, one fault of any kind | `SurplusServed` |
| `RelayLoads` | rods without guards, with a minimum, with minimum and latest start, and a pump; 3 stages, 3 surplus levels, one fault of any kind | `BottomUp`, `DailyMinimum`, `StagesFollowUnharmed`, `SignalSettles` |
| `Battery` | 5 load levels, SoC 0..4, five combinations of strategies | `ReserveHeld`, `SocMaxHeld`, `NeverBoth`, `BackupRefilled`, `CareCompletes` |
| `DayLoads` | eleven settings, a day of 8 ticks, a due window of 5, a tariff controller every second cycle, three or six price slots, one skipped cycle | `DeadlineHonoured`, `GridSpared`, `TariffServed` |
| `Signals` | a grid and a battery sensor, up to 3 samples each, one change and one fault, averaging on or off | `SteadyExact`, `WrongNotFollowed` |
| `Setup` | two loads, one vehicle, one imported and one migrated device, one failed write or restart | `RestartFindsAll`, `OrderStays` |
| `History` | 7 ticks of 3 readings, days of 3 ticks, weeks of 3 days, up to 2 holes, a range of 5 and a retention of 2 or 6 at each purge | `SavingsSound`, `ForecastFollows` |
| `Setback` | one person, 4 half kelvins from eco (lifted by frost protection) to comfort, a day of 9 ticks, one fault of any kind | `WarmOnTime`, `ComfortRestored` |
| `HAClient` | two callers, two fetches | `WaitersRegistered`, `KeepsPromise`, `CallersReleasedAfterSetup`, `SessionsReturn` |

Each also checks its module's `TypeOK` (`SetupTypeOK`), but for `SwitchServed`.

**Why the bounds are enough.**  In `CommandSet` three constraints are the fewest in
which a dropped bound, a narrowed interval and a target of another owner meet;
the theorems of section 5 hold for any number.  In `SwitchControl` time matters
through differences only, and ages saturate above every guard; `SwitchGuards` has one
load, and section 5 proves its properties for any number; two loads give one
that is waiting and one that competes.  In `RelayLoads` three stages are
the fewest with one that is neither the first nor the last; `Keepalive` 3 lets
two cycles pass in which a command is suppressed.  In `BatteryCycle` the load
changes exceed the battery's power on both sides, the levels put one below, at
and above each of reserve, emergency reserve and cap, and the five settings
contain each strategy with the ones it competes with.  In
`Setback` the way to comfort takes up to 8 of 9 ticks, the longest `HeatingAssumption`
allows, and 2 days are enough to learn a rate below the room's from a short heat-up; rooms
at the very bound of `WarmOnTime` are reached.  A second person would only split `Away` into its members.
In `DayLoads` the settings contain each kind with and without a latest start, a link, an
allowance of the grid and a minimum time longer than a tick; a day of 8 ticks holds a
window, and the publication of prices, on either side of midnight; two cycles are the
shortest cadence that makes a due load wait for the tariff controller, and each bound of
`DeadlineHonoured` is reached.  In `Signals` three
samples give two intervals, of which the median is one, and a window that holds some
of them.  In `Setup` a load, a load that returns and a vehicle are the fewest with a
neighbour that leaves and a third that must keep its place; ids meet with two.  In
`History` a purge cuts the range shown and one does not, the window of the page passes
within the seven ticks, and the hours of a workday come back on the next one, while the
weekend's are another bucket.
In `HAClient` the second
caller is what another task may do while the first waits; messages are named by
owner, so nothing is counted.

**One fault.**  `MaxFaults = 1` lets one fault happen at any moment of a behaviour;
the liveness properties then say that it is repaired.  Two at once have been
run for `SwitchControl` without the guards up to the limit of time, not as part
of the project.

### A run in which TLC refutes what the repository says

`SetupHang`, `CallersReleased`: `_connect_once` awaits `on_connected` before the receive
task.  If the link breaks while `on_connected` awaits an answer, the receive task ends
unnoticed, no teardown happens, and everyone waits for ever, although
`ha_client.py:142` fails the requests "so callers don't hang forever".

### Observed while modelling, no run of their own

* `note_switch` resets `starts` on a new day, but `decide_action` reads the counter
  before: a load that is off with its starts used up is never started by surplus
  again, and "max starts per day" (`control.py:12`) becomes max starts until the next
  deadline start or restart.
* The snapshot of a new session does not replace a state the store already has
  (`_seed_live_from_snapshot`), although `live_state` promises the "latest cached raw
  state": a load switched during an outage stays unknown until it switches again.
* With peak shaving as the only strategy of a battery nobody takes the discharge
  setpoint back once the import is under the cap, and at the reserve a bound alone
  writes nothing: an old discharge goes on below the reserve, and beside a charge of the
  optimizer.  `ReserveHeld`, `SocMaxHeld` and `NeverBoth` hold where the modulation or the
  tariff steers the battery in every cycle (section 5, `AlwaysSteered`).
* A thermostat "starts heating early enough [...] so comfort is reached at that time"
  (`thermostat.py:7-9`) holds for the default rate at most, in a room no slower than it.
  `_learn` measures a heat-up up to half a kelvin below comfort
  (`thermostat.py:75`) and divides by the whole way to comfort (`79-81`), so the rate learned
  from an undisturbed heat-up lacks half a kelvin of the room's, a third of one of 1.5 K, and
  the preheating begins that much too late.  It also takes every end of heating for a completed
  heat-up, also the one it causes itself when preheating stops because the room is ahead of
  the rate; the next comfort time then finds a cold room.  `WarmOnTime` states what
  remains: the room lacks no more of its way than the rate lacks of the room's.
* `evcs_gate` promises "a hard override" and that "a charge deadline forces ON"
  (`control.py:491-495`), but charge support comes before it in the chain and the first
  writer wins: charge support abstains only when the relay is as it wants, and knows no
  deadline.  A due wallbox without surplus is switched on by the gate and off by the
  support from cycle to cycle, with no regard to `min_off_s`, and one whose linked vehicle
  is full is switched on again under surplus.  `DeadlineHonoured` promises such a wallbox
  half of its due time, and that is what it gets at worst.
* A due shifted appliance waits for the next run of the tariff controller, up to
  `TARIFF_INTERVAL` after its latest start or its pause.
* The savings page offers ranges up to a year (`web.py:25`), the history is kept for 90
  days unless set (`const.py:33`): what was purged is missing from the sums, of the actual
  cost and of the baselines alike, and the page does not say so.  `SavingsSound` says
  which rows are counted, and that none is missing that every retention set would keep.
* A purge that failed is not tried again before the next day.
* With a limit sensor that is unavailable `_device_satisfied` is false, whatever the
  latch was.  A latest start near midnight has only the minutes to it.
* `cheap_max_ct` is read by `cheap_now` but `set_settings` never stores it.  With equal
  start and end of the low tariff `cheap_now` never sees it and `current_price_ct`
  always does.  With tariff shifting on a static tariff every hour is `expensive`.
* An "unavailable" event counts as a sample: it resets the age, and modulation goes on
  following the number that is held.  A sensor with fewer than two samples is never
  stale.  With averaging off an unavailable sensor counts as 0.  `WrongNotFollowed`
  leaves unavailable sensors out.
* A vehicle's id is given again after it was deleted, and with it the stored priority
  and strategy settings of its predecessor, although "a newly added device lands last"
  (`store.py:826`).  A device that was away may return at another place.
* The docstring of `savings` has the simulated battery "held for the expensive window"
  (`store.py:2130`), but it is discharged by every deficit outside the cheap one.
  Rows without a price are valued at the price of the moment the page asks.
* The page posts the whole setback document and so overwrites rates learned since it
  was loaded.
* Home Assistant answers a ping with a `pong`, which resolves no future: `_ping_loop`
  times out and closes a living socket (`Pong`, `PingTimeout` in `HAClient`; the
  comment in `_dispatch` says "handled implicitly").  The session returns after the
  backoff (`SessionsReturn`).
* After one failed call the running stages of a rod need not be the lowest ones, and
  `plan_stages` takes their number for an index: stage 3 is commanded on again and
  again, stage 1 stays off under full surplus.  The same gap remains when the process
  is killed while it switches stages off, which it does from the lowest one up.
  `StagesFollowUnharmed`, `BottomUp` and `DailyMinimum` therefore hold without these.
* With the reserve controller alone the emergency recharge is not taken back either:
  the charge setpoint stays until another strategy writes it, past the SoC cap.
* The setback engine overwrites a setpoint turned by hand at its next run; the concept
  (`EnergyAgent_Konzept.md:386`) gives the hand priority.
* A switch rule's higher priority has no effect: the first writer keeps a switch.
* A load started by its deadline may be shed for import as soon as its minimum
  run time is over, and started again while the window lasts.
* Peak shaving takes the excess from the already shaved import: under a steady
  load the discharge alternates between the excess and 0 when the surplus
  modulation runs on the same battery.  The feed-in limit does the same on export.
* With the feed-in limit, charge and discharge may both be positive
  (`NeverBoth` excludes it): it sets charge only.
* Setpoints of the optimizer last one cycle when surplus modulation is on; it runs
  every `TARIFF_INTERVAL` and the modulation every cycle.
* The SoC cap is lifted when a care charge is due although its strategy is off.
* A refused request of the initial fetch leaves a session that is connected but not
  subscribed (`FetchOver` in `HAClient`).
* The SG-Ready pair passes through `[1,1]`, forced on, on its way from `[0,1]` to
  `[1,0]`.

## 4. Fairness

The control task keeps its cadence: WF or SF of `Cycle`.  `SwitchControl` needs SF
for `Cycle`, because `SkipCycle` (not connected) competes with it: the client is
connected again and again, which is `HAClient`'s `SessionsReturn`.  Home Assistant
may reject a call, but not every one (SF `Execute`), answers those it ran (WF
`Reply`), and delivers events (WF `Echo`) but for those lost in an outage; in
`RelayLoads` every call is answered or raises, within the tick.  Time passes.  A
battery that is charged gets fuller (WF `SocRises`); nothing makes it emptier.
In `DayLoads` time passes (WF `Tick`) and, though cycles may be left out, they run
again and again (SF `Cycle`).  `Signals`, `Setup`, `History` and `CommandSet` have safety
properties only and state no fairness.  In `Setback` the setback task runs, events arrive, and a thermostat that dropped out
comes back (WF `Run`, `Tick`, `Echo`, `Online`).  In `HAClient` the asyncio tasks run
(WF of each task's next step), a connection is accepted and authenticated again and
again (SF `Dial`, `AuthOk`), the requests of the setup are answered or refused, but not
every subscription is refused (SF `Answer("subscribe")`); no fairness is asked of `Drop`, of a
refusal or of the callers' requests, and `SessionsReturn` and
`CallersReleasedAfterSetup` state the links that survive the setup as their hypothesis.

## 5. Proofs

The `*Proofs` modules are checked by TLAPS.  Each theorem holds for every value of the
constants that satisfies the module's assumption and, where it has one, the hypothesis
named in its `ASSUME`.  Each proof has the same plan: a type invariant, an inductive
invariant as a conjunction of named parts, one lemma per action or part, and a last step
that joins them.

* **CommandSet.**  The loop invariant says, of an entity being resolved, that the
  interval lies in the device's and is not empty; that every constraint already
  visited is ranked above every one left; that any value that satisfies all the
  bounds visited lies in the interval, and hence the interval honours each
  satisfiable one; and that the target is that of the highest-ranked constraint
  visited that has one.  It is needed because each property speaks of the value
  after the loop.  `DeviceLimits`, `HardConstraints`, `PriorityDecides` and
  `ReserveNeverStarts` follow when nothing is left; `OwnersStay` is an action
  property over the growing sequence of constraints.  Assumptions: a device
  interval is not empty, `Grain` is positive, bounds are integers or infinite.
* **SwitchControl.**  `TypeCorrect` holds with every fault.  The other theorems assume
  `Faults = {}`: a manual switch, a lost answer or a restart does break the guards as
  seen at the relay, since the engine cannot know.  The guards read the records, and
  a record is dated from the answer of a call, the relay's own age from its
  execution.  `IInv` therefore says that no record is older than the relay's age
  (`OffAges`, `OnAges`) and that a cache entry is the relay's state (`CacheTrue`), each
  but for the load whose executed call is unanswered; that what `decide_action` checked
  still holds when its call is executed (`SentGuarded`: records only grow older while
  it is under way); and that each surplus start of the day is in the record or about to
  be (`StartsCounted`), where midnight clears both sides.  `PauseKept`, `RuntimeKept` and
  their conjunction `TimesKept` are action properties: only `Execute` switches a relay.  The number of loads, their
  configurations and the delays of calls and events are arbitrary.
* **HAClient.**  `IInv` joins `WaitersRegistered` with `Quiet`, which says that
  between a teardown and the next handshake there is no task, no open socket and
  nobody waiting: only with it does a teardown that forgets every entry
  release everyone.  `PromiseKept` maps each step to a step of
  `ConnectionPromise` or a stutter.  Assumptions: callers, fetches and the client's
  own requests are disjoint.

* **RelayLoads.**  `StagesBottomUp` needs more than `BottomUp`, which speaks of the
  moments between two cycles only.  `Rows` says that, as long as no call failed and nobody
  else switched, the relays with what is still queued amount to a row of stages from the
  bottom up (`Settles`), and that the cache never remembers another state than the
  relay's: a suppressed call would have changed nothing.  `MinimumDelivered` needs the
  books of the day (`Books`): the file never counts more than the engine, the engine never
  counts more than was delivered by a tick of all stages, what is missing still fits in
  what is left of the day, and once it only just fits all stages are commanded
  (`Secured`).  Hypothesis `Feasible`: the minimum fits in a day of all stages, and a
  latest start is a minute of the day; without it the code cannot deliver either.  Restarts
  between cycles may be any number; of days with skipped cycles nothing is claimed.
* **BatteryCycle.**  `ReserveIsHeld`, `SocMaxIsHeld` and `ChargeOrDischarge` rest on the
  order of the chain: the first controller with a target decides (`FirstIs`), every one but
  the emergency recharge and the feed-in limit sets both targets, and the recharge comes
  with the reserve's bound on the other.  Hypothesis `AlwaysSteered`: in each setting the
  last controller has a target for both setpoints, that is surplus modulation, or tariff
  arbitrage that no optimizer replaces.  Otherwise a setpoint that nobody has a target for
  stays (section 3, Observed).  `BoundsStartNothing` is what remains without the
  hypothesis: at a bound a setpoint becomes 0 or stays, and never another value.
* **Setback.**  `WarmInTime` is about real numbers of minutes rounded to rates.  `InTime`
  is an account in the units of the room's own rate: how much too late the heating would
  begin in this tick (`Behind`) is less than what the smallest rate in use lacks over the
  whole way (`Lacking`) and one tick, and whenever the engine lets the room cool, the
  smallest rate in use would not begin either.  A rate that is learned in between only
  makes `Lacking` larger (`LackingGrows`, `LearnLeads`); a room that cools while it may is
  not yet behind (`CoolsInTime`); at the comfort time the account starts anew, which is
  where `HeatingAssumption`, that a day is enough to heat the room from its coldest, is needed
  (`NextDay`).  Nothing is assumed of the default rate or of the rates that are learned.
* **DayLoads.**  Both theorems are accounts.  `DuePaid`: every tick a due and ready load
  has been off since its window began is paid for: for a shifted load by a tick of its
  pause, of the tariff controller's cadence, or a cycle that was left out (`ShiftPaid`; it
  may be off in the cadence only after the pause, so each is paid once); for a wallbox by a
  cycle that was left out (`GatePaid`); for one the charge support overrules by a tick it
  was on, or such a cycle (`SharedPaid`).  `DrawPaid`: every tick a wallbox has drawn what
  nobody granted is a tick of its minimum run time or a cycle that was left out.  No
  hypothesis beyond the module's assumption; price lists, windows, cadence, limits and
  supports are arbitrary.
* **Signals.**  `WrongIsNotFollowed`: a sensor that is not off has been wrong no longer
  than unheard (`Heard`), and the median of the gaps exists and is no longer than the
  longest (`IntervalIsAGap`, `LongestGapBounds`).  `BalanceIsExact` is the argument for
  the alignment of the window: a sample that shows something else than what flows is at
  least as old as the flows have been shown (`Outdated`), so once that is longer than the
  cap of the window none of them is averaged.  A new sample and the one that falls out of
  a full deque leave the ages of the others as they are (`OlderAppend`, `OlderTail`).
  Hypotheses: everything is measured, and once (`MeasuredOnce`: with two PV sensors that
  each show all of the PV the sum is not the PV), and ages are counted beyond the cap.

* **Setup.**  The invariant says that both lists hold an id and a device once, that an id
  which is a device is that device's (`OwnIds`: what the page gives cannot be taken by
  another), and that each file says what its list says unless its last write failed
  (`Written`).  The documents a page posts are in order by it, so the sanitiser leaves them
  as they are (`SanitizedRight`, `StampedAgain`), and sanitising a file twice, as a save
  after a migration does, is sanitising it once (`SanitizedAgain`): that is
  `RestartFinds`.  `OrderKeeps` needs that `Place` numbers the listed devices without gaps
  (`PlacesRanked`); then normalising is invisible (`NormalizeKeeps`), a post leaves the
  devices that stay in order (`KeepsOrder`), and exchanging two numbers exchanges two
  devices and moves no other (`MoveExchanges`).  No hypothesis beyond the module's
  assumption: the known devices of the dashboard and of an old file are distinct.

* **History.**  The invariant says that the table is what was ever written from the latest
  cutoff on (`TableKept`), and that the cutoff is out of some retention that was set
  (`OnlyExpired`).  Cutting twice is cutting at the later cutoff (`SinceSince`), and a new row
  stays (`SinceAppend`), so a purge moves the cutoff (`PurgeKeeps`) and what the page reads is
  what was written since the later of cutoff and range (`SameRange`); ordered rows make every gap one tick, or two after a hole (`SpansAre`).
  The sink's argument is an account per day: after each span the total is at most
  `SinkDay` for every day before this one, and what was taken today (`SinkFills`; rows in
  order mean that a day that is left never comes back, `DaysGrow`).  The battery's is
  an account over the spans: each adds to the charge no more, after losses, than flows in
  and does not flow out (`WalkIs`), so the sums do (`WalkBalances`).
  `ForecastsFollow` compares the samples of an hour before and after a row is written: the
  new ones are the old ones moved by what fell out of the window, and the new row
  (`NewIs`, `SameSamples`); each weighs half of what it did (`WeightHalves`), so both sums
  of the mean do (`TotalScaled`), and a row added pulls it towards itself
  (`MeanMoves`).  No hypothesis beyond
  the module's assumption: capacity, power, prices, sizes and the length of
  the history are arbitrary.

The sums of `Signals` and `History` are folds over sets, the ids of `Setup` folds over
sequences, the walks of `History` recursive functions over the spans and its weights one
over the exponents.  The induction theorems of the library take an operator, which the
provers cannot instantiate;
`StoreProofs` instead proves that a set of numbers has a least one (`LeastNatural`, from
`NatLessThanWellFounded`), hence induction over a set (`Induction`), hence that the
function a fold chooses exists (`SumsExist`, `FoldExists`) and does what its steps do
(`TotalAdd`, `SanitizedSteps`, `StampedSteps`).  `RecursionExists` and `RecursionUnique`
say the same of a recursive function whose values stay in a set (`SinkSteps`,
`WalkSteps`, `PowerDoubles`).

Only model-checked: all liveness, which is out of the prover's reach (`SurplusServed`,
`BackupRefilled`, `CareCompletes`, `StagesFollowUnharmed`, `SignalSettles`,
`ComfortRestored`, `TariffServed`, `CallersReleasedAfterSetup`, `SessionsReturn`).

## 6. Hazards, and what is not modelled

`PROJECT.json` lists every hazard with its line, the properties that would notice it,
and a note where none does.  The lines that most properties were written for are
`control_core.py` `_resolve` and `apply_commands`, `control.py` `run_cycle`,
`decide_action`, `plan_stages`, `plan_charge_support` and `EssReserveController`,
`store.py` `note_switch`, `_seed_live_from_snapshot`, `_align_window`,
`_normalized_priorities` and `savings`, `tariff.py` `cheap_now`, and `ha_client.py`
`_connect_once` and `_teardown`.

Not modelled: discovery, suggestions, the setup catalogue and the strategy overview
(tables and classification, no state; `Setup` takes the suggested instances as given);
most of the web server (requests that read the store); the legacy aggregation by
roles with its overrides, consumers and device lists, which only the legacy pages use;
the parsers of PV forecasts and the optimizer's numbers (its plan is open in
`BatteryCycle`); the rules' expression evaluator; `models.py` and `const.py` (records and
constants, which appear as CONSTANTS).

## 7. Plan

In order of what the system depends on:

1. `Rules`: the expression evaluator as a recursive function against a reference.
2. The optimizer's plan from forecast and prices, as an operator that replaces the open
   choice in `BatteryCycle`.
3. An abstract relay that follows its commands within a keepalive, implemented by the
   apply path of `SwitchControl` and of `RelayLoads`.
