----------------------------- MODULE RelayLoads -----------------------------
(***************************************************************************)
(* Loads that are made of several relays: a heating rod with N stages      *)
(* (StagedLoadController, plan_stages, staged_force) and a heat pump with  *)
(* the SG-Ready pair (HeatPumpController, plan_sg_ready).  One cycle plans *)
(* commands for several relays; apply_commands sends them one after the    *)
(* other, and each call may fail alone.  The next plan starts from the     *)
(* relay states the store has heard of by then.                            *)
(*                                                                         *)
(* A tick is one control cycle and one minute of the day.  Power is counted*)
(* in units of which a stage takes StageW, energy in stages times ticks.   *)
(***************************************************************************)
EXTENDS Integers, FiniteSets, Sequences

CONSTANTS
    Devices,      \* the device: [kind, minDay, deadline], chosen once
    N,            \* stages of the rod; the pump's pair are relays 1 and 2
    StageW,       \* power of a stage, and the pump's threshold
    Avail,        \* surplus left by everything else
    NoDeadline,   \* deadline of a device without "latest start"
    Window,       \* DEADLINE_FORCE_WINDOW_MIN
    Keepalive,    \* APPLY_KEEPALIVE_S in ticks
    DayLength,    \* ticks per day
    SaveEvery,    \* throttle of _persist_state, in ticks
    Faults,       \* "failed", "lost", "late", "skipped", "manual", "restart", "killed"
    MaxFaults     \* bound: how many of them happen, each once

ASSUME RelaysAssumption ==
    /\ N \in Nat /\ N >= 2
    /\ StageW \in Nat \ {0}
    /\ Avail \subseteq Int
    /\ DayLength \in Nat \ {0} /\ Window \in Nat /\ Keepalive \in Nat
    /\ SaveEvery \in Nat /\ MaxFaults \in Nat
    /\ NoDeadline \in Int
    /\ Devices \subseteq [kind : {"rod", "pump"}, minDay : Nat, deadline : Int]

VARIABLES
    dev,        \* the device
    avail,      \* surplus before the device takes its share
    expensive,  \* tariff shifting is on and the tariff is not cheap
    relay,      \* the relays, in Home Assistant
    seen,       \* what the store knows of them
    queue,      \* commands apply_commands has still to send
    cache,      \* store._apply_cache: last command and its age
    ran,        \* the cycle of this tick has run
    tod,        \* minute of the day
    today,      \* _staged_energy: the day's energy, counted up to minDay
    counted,    \* _staged_energy is of the current day
    delivered,  \* what the rod has really taken today, up to minDay
    file,       \* controller_state: today and counted as last saved
    unsaved,    \* time since then
    faults      \* those that happened

inputs == <<dev, avail, expensive>>
energy == <<today, counted, delivered>>
saved == <<file, unsaved>>
vars == <<inputs, relay, seen, queue, cache, ran, tod, energy, saved, faults>>

Relays == 1 .. N
Kinds == {"on", "off"}
NotCached == [key |-> "none", age |-> Keepalive]

Count(s) == Cardinality({i \in Relays : s[i] = "on"})
Older(age, limit) == IF age < limit THEN age + 1 ELSE limit
UpToMin(kwh) == IF kwh < dev.minDay THEN kwh ELSE dev.minDay
Within(lo, x, hi) == IF x < lo THEN lo ELSE IF x > hi THEN hi ELSE x
OnIf(b) == IF b THEN "on" ELSE "off"

-----------------------------------------------------------------------------
\* image.surplus_signed: the rod's own draw is already in it
Surplus == IF dev.kind = "rod" THEN avail - StageW * Count(relay) ELSE avail

\* _deadline_due
DeadlineDue ==
    /\ dev.deadline # NoDeadline
    /\ dev.deadline <= tod /\ tod < dev.deadline + Window

\* the minute by which the minimum is due; "00:00" counts as midnight
End == IF dev.deadline \in {NoDeadline, 0} THEN DayLength ELSE dev.deadline

\* faulty: the time of one stage instead of all
ForcedLate(kwh) ==
    kwh < dev.minDay /\ Within(0, End - tod, DayLength) * N * 2 <= dev.minDay - kwh
\* staged_force: the time left is only just enough for the deficit
Forced(kwh) ==
    kwh < dev.minDay /\ Within(0, End - tod, DayLength) * N <= dev.minDay - kwh

\* faulty: the stages that are on are not added back
NetSurplus == Surplus
\* what the on stages draw is added back
Gross == Surplus + Count(seen) * StageW

\* faulty: more stages than there are
SupportedAny(gross) == Within(0, gross \div StageW, N + 1)
Supported(gross) == Within(0, gross \div StageW, N)

Target(kwh) == IF DeadlineDue \/ Forced(kwh) THEN N ELSE Supported(Gross)

\* faulty: from the top down
StagesTopDown(kwh) ==
    LET have == Count(seen)
        want == Target(kwh)
    IN  IF want > have
        THEN [j \in 1 .. want - have |-> [relay |-> N + 1 - j, kind |-> "on"]]
        ELSE [j \in 1 .. have - want |-> [relay |-> want + j, kind |-> "off"]]
\* plan_stages: only the stages between the count and the target
Stages(kwh) ==
    LET have == Count(seen)
        want == Target(kwh)
    IN  IF want > have
        THEN [j \in 1 .. want - have |-> [relay |-> have + j, kind |-> "on"]]
        ELSE [j \in 1 .. have - want |-> [relay |-> want + j, kind |-> "off"]]

\* plan_sg_ready: lock, forced on, recommended, normal
SgReady ==
    CASE expensive                             -> <<TRUE, FALSE>>
      [] ~expensive /\ Surplus >= 2 * StageW   -> <<TRUE, TRUE>>
      [] ~expensive /\ Surplus < 2 * StageW    -> <<FALSE, Surplus >= StageW>>

Pair == [i \in 1 .. 2 |-> [relay |-> i, kind |-> OnIf(SgReady[i])]]

-----------------------------------------------------------------------------
Init ==
    /\ dev \in Devices
    /\ avail \in Avail
    /\ expensive \in (IF dev.kind = "pump" THEN BOOLEAN ELSE {FALSE})
    /\ relay = [i \in Relays |-> "off"]
    /\ seen = relay
    /\ queue = <<>>
    /\ cache = [i \in Relays |-> NotCached]
    /\ ran = FALSE
    /\ tod = 0
    /\ today = 0 /\ counted = FALSE /\ delivered = 0
    /\ file = [today |-> 0, counted |-> FALSE] /\ unsaved = SaveEvery
    /\ faults = {}

Fault(kind) ==
    /\ kind \in Faults \ faults /\ Cardinality(faults) < MaxFaults
    /\ faults' = faults \cup {kind}

\* _persist_state: what the cycles before have counted, once in SaveEvery
Persist ==
    IF unsaved < SaveEvery THEN UNCHANGED saved
    ELSE file' = [today |-> today, counted |-> counted] /\ unsaved' = 0

\* the cycle runs on what the store knows, which may be late
Cycle ==
    /\ ~ran /\ queue = <<>>
    /\ ran' = TRUE
    /\ IF seen = relay THEN UNCHANGED faults ELSE Fault("late")
    /\ IF dev.kind = "rod"
       THEN LET kwh == UpToMin((IF counted THEN today ELSE 0) + Count(seen))
            IN  today' = kwh /\ counted' = TRUE /\ queue' = Stages(kwh)
       ELSE queue' = Pair /\ UNCHANGED <<today, counted>>
    /\ Persist
    /\ UNCHANGED <<inputs, relay, seen, cache, tod, delivered>>

\* main._cycle: not connected
Skip ==
    /\ ~ran /\ queue = <<>>
    /\ Fault("skipped")
    /\ ran' = TRUE
    /\ UNCHANGED <<inputs, relay, seen, queue, cache, tod, energy, saved>>

\* faulty: unchanged commands are never sent again
SuppressedForGood(c) == cache[c.relay].key = c.kind
\* apply_commands: an unchanged command waits for the keepalive
Suppressed(c) == cache[c.relay].key = c.kind /\ cache[c.relay].age < Keepalive

Advance == queue' = Tail(queue)

Suppress ==
    /\ queue # <<>> /\ Suppressed(Head(queue))
    /\ Advance
    /\ UNCHANGED <<inputs, relay, seen, cache, ran, tod, energy, saved, faults>>

\* the call is executed, and answered unless the answer is lost
Send ==
    /\ queue # <<>> /\ ~Suppressed(Head(queue))
    /\ Advance
    /\ relay' = [relay EXCEPT ![Head(queue).relay] = Head(queue).kind]
    /\ \/ /\ cache' = [cache EXCEPT ![Head(queue).relay] =
                         [key |-> Head(queue).kind, age |-> 0]]
          /\ UNCHANGED faults
       \/ Fault("lost") /\ UNCHANGED cache
    /\ UNCHANGED <<inputs, seen, ran, tod, energy, saved>>

\* the call raises; the next command is sent all the same
Fail ==
    /\ queue # <<>> /\ ~Suppressed(Head(queue))
    /\ Fault("failed")
    /\ Advance
    /\ UNCHANGED <<inputs, relay, seen, cache, ran, tod, energy, saved>>

\* the state_changed event of a relay
Echo(i) ==
    /\ seen[i] # relay[i]
    /\ seen' = [seen EXCEPT ![i] = relay[i]]
    /\ UNCHANGED <<inputs, relay, queue, cache, ran, tod, energy, saved, faults>>

\* somebody switches a relay by hand
Manual(i) ==
    /\ Fault("manual")
    /\ relay' = [relay EXCEPT ![i] = OnIf(@ = "off")]
    /\ UNCHANGED <<inputs, seen, queue, cache, ran, tod, energy, saved>>

\* the process ends, between two cycles or amid its calls, and starts with what it has
\* saved; a new connection brings the states of the relays
Restart ==
    /\ Fault(IF queue = <<>> THEN "restart" ELSE "killed")
    /\ queue' = <<>>
    /\ seen' = relay
    /\ cache' = [i \in Relays |-> NotCached]
    /\ today' = file.today /\ counted' = file.counted
    /\ unsaved' = SaveEvery
    /\ UNCHANGED <<inputs, relay, ran, tod, delivered, file>>

Tick ==
    /\ ran /\ queue = <<>>
    /\ ran' = FALSE
    /\ tod' = (tod + 1) % DayLength
    /\ counted' = (counted /\ tod' # 0)
    /\ delivered' = IF tod' = 0 THEN 0 ELSE UpToMin(delivered + Count(relay))
    /\ file' = [file EXCEPT !.counted = @ /\ tod' # 0]
    /\ unsaved' = Older(unsaved, SaveEvery)
    /\ cache' = [i \in Relays |-> [cache[i] EXCEPT !.age = Older(@, Keepalive)]]
    /\ UNCHANGED <<inputs, relay, seen, queue, today, faults>>

AvailChanges ==
    /\ avail' \in Avail \ {avail}
    /\ UNCHANGED <<dev, expensive, relay, seen, queue, cache, ran, tod, energy, saved, faults>>

TariffChanges ==
    /\ dev.kind = "pump"
    /\ expensive' = ~expensive
    /\ UNCHANGED <<dev, avail, relay, seen, queue, cache, ran, tod, energy, saved, faults>>

Next ==
    \/ Cycle \/ Skip \/ Suppress \/ Send \/ Fail \/ Tick
    \/ \E i \in Relays : Echo(i) \/ Manual(i)
    \/ Restart \/ AvailChanges \/ TariffChanges

Spec == Init /\ [][Next]_vars

\* the control task keeps its cadence, a call is answered or raises, events arrive
Fairness ==
    /\ WF_vars(Cycle \/ Skip) /\ WF_vars(Suppress \/ Send \/ Fail) /\ WF_vars(Tick)
    /\ \A i \in Relays : WF_vars(Echo(i))

FairSpec == Spec /\ Fairness

-----------------------------------------------------------------------------
\* Types of the relays, the commands and the energy records.
TypeOK ==
    /\ dev \in Devices /\ avail \in Avail /\ expensive \in BOOLEAN
    /\ relay \in [Relays -> Kinds] /\ seen \in [Relays -> Kinds]
    /\ queue \in Seq([relay : Relays, kind : Kinds]) /\ Len(queue) <= N
    /\ cache \in [Relays -> [key : Kinds \cup {"none"}, age : 0 .. Keepalive]]
    /\ ran \in BOOLEAN /\ counted \in BOOLEAN
    /\ tod \in 0 .. DayLength - 1
    /\ today \in 0 .. dev.minDay /\ delivered \in 0 .. dev.minDay
    /\ file \in [today : 0 .. dev.minDay, counted : BOOLEAN] /\ unsaved \in 0 .. SaveEvery
    /\ faults \subseteq Faults /\ Cardinality(faults) <= MaxFaults

\* plan_stages: "Stages fill bottom-up".  Between two cycles no stage is on above
\* one that is off, unless a call failed, its answer was lost (then the cache may
\* hold back the next command), a state came late, a hand interfered or the process
\* was killed between two calls.
BottomUp ==
    (dev.kind = "rod" /\ queue = <<>> /\ faults \subseteq {"skipped", "restart"}) =>
        \A i \in Relays : relay[i] = "on" => \A j \in 1 .. i : relay[j] = "on"

\* staged_force: the stages run in time "to still reach its daily minimum
\* energy".  A day ends with the minimum delivered, short of at most one tick at
\* full power that midnight counted for the wrong day, and of one that the minute's
\* resolution costs.  A restart forgets what was counted since the last save, but
\* that only makes the rod run longer.
DailyMinimum ==
    [][(dev.kind = "rod" /\ faults \subseteq {"restart"} /\ tod' < tod) =>
          delivered + Count(relay) > dev.minDay - 2 * N]_vars

Steady == <>[][UNCHANGED <<avail, expensive>>]_vars

\* The rod without a minimum and a deadline ends up with the stages the surplus
\* supports, however the calls and the events went.  (Not so: after a failed call
\* the running stages need not be the lowest, and their number is no index.)
StagesFollow ==
    (dev.kind = "rod" /\ dev.minDay = 0 /\ dev.deadline = NoDeadline /\ Steady)
    => <>[](Count(relay) = Supported(avail))

\* What the code achieves of it: cycles may be skipped and the process restarted between
\* them, but every call is answered and every state is known in time.
StagesFollowUnharmed ==
    [](faults \subseteq {"skipped", "restart"}) => StagesFollow

\* The heat pump's pair ends up as the signal that the surplus and the tariff
\* ask for, whichever call failed and whoever switched: the keepalive repairs it.
SignalSettles ==
    (dev.kind = "pump" /\ Steady)
    => <>[](\A i \in 1 .. 2 : relay[i] = OnIf(SgReady[i]))
=============================================================================
