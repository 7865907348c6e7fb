---------------------------- MODULE SwitchControl ----------------------------
(***************************************************************************)
(* Surplus switching of on/off loads, from the decision to the relay:      *)
(* control.decide_action over ConsumerDecision records (PvSurplusSwitch-   *)
(* Controller, ControlEngine._build), control_core.apply_commands with its *)
(* unchanged-command cache and keepalive, and Store.note_switch, which     *)
(* keeps the runtime record the guards of the next decisions read.         *)
(*                                                                         *)
(* One tick is one CONTROL_INTERVAL.  Ages saturate at MaxAge, so time is  *)
(* unbounded.  Home Assistant runs a service call some time after it was   *)
(* sent and answers it some time after that; what the store knows of a     *)
(* relay is what the last state_changed event said.                        *)
(***************************************************************************)
EXTENDS Integers, FiniteSets

CONSTANTS
    Loads,        \* switch entities of the PV-surplus auto-consumers
    Config,       \* Config[l]: what _build reads from the device (below)
    NoDeadline,   \* latestStart of a load without "latest start"
    Surpluses,    \* values of the signed surplus signal (W)
    OnMargin, OffMargin,   \* CONTROL_ON_MARGIN_W, CONTROL_OFF_MARGIN_W
    Keepalive,    \* APPLY_KEEPALIVE_S in ticks, rounded up
    Window,       \* DEADLINE_FORCE_WINDOW_MIN in ticks
    DayLength,    \* ticks per day
    MaxAge,       \* bound: ages the guards read saturate here
    MaxStarts,    \* bound: counted starts saturate here
    Faults,       \* environment faults allowed: "manual", "lost", "restart", "outage"
    MaxFaults     \* bound: how many of them happen

LoadConfig == [priority : Int, nominal : Int, threshold : Int,
               minRuntime : Nat, minOff : Nat, maxStarts : Nat,
               interruptible : BOOLEAN, latestStart : Int]

ASSUME ConfigAssumption ==
    /\ Config \in [Loads -> LoadConfig]
    \* _normalized_priorities makes them unique
    /\ \A k, l \in Loads : Config[k].priority = Config[l].priority => k = l
    /\ \A l \in Loads : /\ Config[l].minRuntime <= MaxAge
                        /\ Config[l].minOff <= MaxAge
                        /\ Config[l].maxStarts > 0 => Config[l].maxStarts < MaxStarts
ASSUME TimeAssumption ==
    /\ MaxAge \in Nat /\ Keepalive \in Nat
    /\ DayLength \in Nat \ {0} /\ Window \in Nat
    /\ MaxStarts \in Nat /\ MaxFaults \in Nat
    /\ NoDeadline \in Int /\ NoDeadline < 0
ASSUME PowerAssumption ==
    Surpluses \subseteq Int /\ OnMargin \in Nat /\ OffMargin \in Nat
ASSUME FaultsAssumption == Faults \subseteq {"manual", "lost", "restart", "outage"}

VARIABLES
    relay,      \* the relay itself, in Home Assistant
    seen,       \* its state as the store knows it (live_state)
    missed,     \* loads whose last event the store will never get
    satisfied,  \* dev.satisfied: the load's stop condition
    surplus,    \* image.surplus_signed
    lastOn,     \* now - rt["last_on"], ticks
    lastOff,    \* now - rt["last_off"]
    starts,     \* rt["starts"]
    today,      \* rt["day"] is the current day
    cache,      \* store._apply_cache: last command sent and its age
    call,       \* the service call apply_commands awaits
    ran,        \* the cycle of this tick has run
    tod,        \* time of day, ticks
    onFor,      \* how long the relay has really been on (saturating)
    offFor,     \* how long it has really been off
    dayStarts,  \* surplus starts the relay really made today
    faults      \* faults so far

runtime == <<lastOn, lastOff, starts, today>>
history == <<onFor, offFor, dayStarts>>
known == <<seen, missed>>
vars == <<relay, known, satisfied, surplus, runtime, cache, call, ran, tod, history, faults>>

Kinds == {"on", "off"}
NoCall == [load |-> "none", kind |-> "none", why |-> "none", stage |-> "none", age |-> 0]
Calls == [load : Loads, kind : Kinds, why : {"deadline", "satisfied", "surplus", "import"},
          stage : {"sent", "executed"}, age : 0 .. Keepalive]
NotCached == [key |-> "none", age |-> Keepalive]

Older(age, most) == IF age < most THEN age + 1 ELSE most
Counted(n) == IF n < MaxStarts THEN n + 1 ELSE MaxStarts

-----------------------------------------------------------------------------
(***************************************************************************)
(* decide_action: at most one switch action per cycle.                     *)
(***************************************************************************)
On(l) == seen[l] = "on"

\* _deadline_due: the window is not carried over midnight
DeadlineDue(l) ==
    /\ Config[l].latestStart # NoDeadline
    /\ Config[l].latestStart <= tod
    /\ tod < Config[l].latestStart + Window

Rested(l) == lastOff[l] >= Config[l].minOff
\* faulty: the runtime measured from the last switch-off
RanSinceOff(l) == lastOff[l] >= Config[l].minRuntime
RanLongEnough(l) == lastOn[l] >= Config[l].minRuntime

Need(l) == LET powers == {Config[l].threshold, Config[l].nominal, OnMargin}
           IN  CHOOSE p \in powers : \A q \in powers : q <= p

\* faulty: a deadline start that does not wait for min_off_s
DueAtOnce == {l \in Loads : ~On(l) /\ ~satisfied[l] /\ DeadlineDue(l)}

Due == {l \in Loads : ~On(l) /\ ~satisfied[l] /\ DeadlineDue(l) /\ Rested(l)}

Sated == {l \in Loads : On(l) /\ satisfied[l] /\ RanLongEnough(l)}

\* faulty: one start too many
OneStartMore(l) == Config[l].maxStarts = 0 \/ starts[l] <= Config[l].maxStarts
StartsLeft(l) == Config[l].maxStarts = 0 \/ starts[l] < Config[l].maxStarts

Startable == {l \in Loads : /\ surplus > OnMargin
                            /\ ~On(l) /\ ~satisfied[l] /\ Rested(l)
                            /\ StartsLeft(l) /\ surplus >= Need(l)}

Sheddable == {l \in Loads : /\ surplus < -OffMargin
                            /\ On(l) /\ Config[l].interruptible /\ RanLongEnough(l)}

\* by priority, which is unique; the load a sort puts first
Highest(S) == {l \in S : \A k \in S : Config[k].priority <= Config[l].priority}
Lowest(S) == {l \in S : \A k \in S : Config[l].priority <= Config[k].priority}
\* sort by -nominal is stable over a list in priority order
Largest(S) == Highest({l \in S : \A k \in S : Config[k].nominal <= Config[l].nominal})

Action(l, kind, why) == [load |-> l, kind |-> kind, why |-> why, stage |-> "sent", age |-> 0]

Decision ==
    CASE Due # {} -> {Action(l, "on", "deadline") : l \in Highest(Due)}
      [] Due = {} /\ Sated # {} -> {Action(l, "off", "satisfied") : l \in Largest(Sated)}
      [] Due = {} /\ Sated = {} /\ Startable # {} ->
            {Action(l, "on", "surplus") : l \in Highest(Startable)}
      [] Due = {} /\ Sated = {} /\ Startable = {} ->
            {Action(l, "off", "import") : l \in Lowest(Sheddable)}

-----------------------------------------------------------------------------
Init ==
    /\ relay \in [Loads -> Kinds]
    /\ seen = relay /\ missed = {}
    /\ satisfied = [l \in Loads |-> FALSE]
    /\ surplus \in Surpluses
    /\ lastOn = [l \in Loads |-> MaxAge]
    /\ lastOff = [l \in Loads |-> MaxAge]
    /\ starts = [l \in Loads |-> 0]
    /\ today = [l \in Loads |-> FALSE]
    /\ cache = [l \in Loads |-> NotCached]
    /\ call = NoCall
    /\ ran = FALSE
    /\ tod = 0
    /\ onFor = [l \in Loads |-> MaxAge]
    /\ offFor = [l \in Loads |-> MaxAge]
    /\ dayStarts = [l \in Loads |-> 0]
    /\ faults = 0

\* faulty: unchanged commands are never sent again
SuppressedForGood(a) == cache[a.load].key = a.kind

\* apply_commands skips a command HA was already sent, until the keepalive
Suppressed(a) == cache[a.load].key = a.kind /\ cache[a.load].age < Keepalive

\* run_cycle: decide, and send unless suppressed
Cycle ==
    /\ ~ran /\ call = NoCall
    /\ ran' = TRUE
    /\ \/ \E a \in Decision : ~Suppressed(a) /\ call' = a
       \/ (\A a \in Decision : Suppressed(a)) /\ call' = NoCall
    /\ UNCHANGED <<relay, known, satisfied, surplus, runtime, cache, tod, history, faults>>

\* main._cycle: nothing happens while the client is not connected
SkipCycle ==
    /\ ~ran /\ call = NoCall
    /\ ran' = TRUE
    /\ UNCHANGED <<relay, known, satisfied, surplus, runtime, cache, call, tod, history, faults>>

Switched(l, kind) ==
    /\ relay' = [relay EXCEPT ![l] = kind]
    /\ onFor' = [onFor EXCEPT ![l] = IF relay[l] = "off" /\ kind = "on" THEN 0 ELSE @]
    /\ offFor' = [offFor EXCEPT ![l] = IF relay[l] = "on" /\ kind = "off" THEN 0 ELSE @]
    /\ missed' = IF relay[l] = kind THEN missed ELSE missed \ {l}

\* Home Assistant runs the service
Execute ==
    /\ call.stage = "sent"
    /\ Switched(call.load, call.kind)
    /\ dayStarts' = [dayStarts EXCEPT ![call.load] =
          IF relay[call.load] = "off" /\ call.kind = "on" /\ call.why = "surplus"
          THEN Counted(@) ELSE @]
    /\ call' = [call EXCEPT !.stage = "executed"]
    /\ UNCHANGED <<seen, satisfied, surplus, runtime, cache, ran, tod, faults>>

\* Store.note_switch
NoteSwitch(l, on) ==
    /\ today' = [today EXCEPT ![l] = TRUE]
    /\ starts' = [starts EXCEPT ![l] =
          LET base == IF today[l] THEN @ ELSE 0
          IN  IF on THEN Counted(base) ELSE base]
    /\ lastOn' = IF on THEN [lastOn EXCEPT ![l] = 0] ELSE lastOn
    /\ lastOff' = IF on THEN lastOff ELSE [lastOff EXCEPT ![l] = 0]

\* the call returns: bookkeeping, then the cache entry, dated from the cycle
Reply ==
    /\ call.stage = "executed"
    /\ NoteSwitch(call.load, call.kind = "on")
    /\ cache' = [cache EXCEPT ![call.load] = [key |-> call.kind, age |-> call.age]]
    /\ call' = NoCall
    /\ UNCHANGED <<relay, known, satisfied, surplus, ran, tod, history, faults>>

\* faulty: the cache entry is written although the call failed
RejectCached ==
    /\ call.stage = "sent"
    /\ cache' = [cache EXCEPT ![call.load] = [key |-> call.kind, age |-> call.age]]
    /\ call' = NoCall
    /\ UNCHANGED <<relay, known, satisfied, surplus, runtime, ran, tod, history, faults>>

\* the call raises before Home Assistant ran it: nothing is recorded
Reject ==
    /\ call.stage = "sent"
    /\ call' = NoCall
    /\ UNCHANGED <<relay, known, satisfied, surplus, runtime, cache, ran, tod, history, faults>>

\* the state_changed event reaches the store
Echo(l) ==
    /\ seen[l] # relay[l] /\ l \notin missed
    /\ seen' = [seen EXCEPT ![l] = relay[l]]
    /\ UNCHANGED <<relay, missed, satisfied, surplus, runtime, cache, call, ran, tod, history, faults>>

SurplusChanges ==
    /\ \E s \in Surpluses \ {surplus} : surplus' = s
    /\ UNCHANGED <<relay, known, satisfied, runtime, cache, call, ran, tod, history, faults>>

SatisfiedChanges(l) ==
    /\ satisfied' = [satisfied EXCEPT ![l] = ~@]
    /\ UNCHANGED <<relay, known, surplus, runtime, cache, call, ran, tod, history, faults>>

\* faulty: the clock runs past midnight
LaterUnwrapped(t) == t + 1
Later(t) == (t + 1) % DayLength

\* a tick passes once its cycle has run, or while a call is awaited
Tick ==
    /\ ran \/ call # NoCall
    /\ ran' = FALSE
    /\ tod' = Later(tod)
    /\ lastOn' = [l \in Loads |-> Older(lastOn[l], MaxAge)]
    /\ lastOff' = [l \in Loads |-> Older(lastOff[l], MaxAge)]
    /\ today' = [l \in Loads |-> today[l] /\ tod' # 0]
    /\ cache' = [l \in Loads |-> [cache[l] EXCEPT !.age = Older(@, Keepalive)]]
    /\ call' = [call EXCEPT !.age = IF call = NoCall THEN @ ELSE Older(@, Keepalive)]
    /\ onFor' = [l \in Loads |-> Older(onFor[l], MaxAge)]
    /\ offFor' = [l \in Loads |-> Older(offFor[l], MaxAge)]
    /\ dayStarts' = [l \in Loads |-> IF tod' = 0 THEN 0 ELSE dayStarts[l]]
    /\ UNCHANGED <<relay, known, satisfied, surplus, starts, faults>>

Fault(kind) ==
    /\ kind \in Faults /\ faults < MaxFaults
    /\ faults' = faults + 1

\* somebody switches the load by hand
Manual(l) ==
    /\ Fault("manual")
    /\ Switched(l, IF relay[l] = "on" THEN "off" ELSE "on")
    /\ UNCHANGED <<seen, satisfied, surplus, runtime, cache, call, ran, tod, dayStarts>>

\* the connection breaks between the execution of a call and its answer
LoseReply ==
    /\ Fault("lost")
    /\ call.stage = "executed"
    /\ call' = NoCall
    /\ UNCHANGED <<relay, known, satisfied, surplus, runtime, cache, ran, tod, history>>

\* The connection is gone while somebody switches a load.  The snapshot of the next
\* session holds the new state, but _seed_live_from_snapshot keeps what it has.
Outage(l) ==
    /\ Fault("outage")
    /\ relay' = [relay EXCEPT ![l] = IF @ = "on" THEN "off" ELSE "on"]
    /\ onFor' = [onFor EXCEPT ![l] = IF relay[l] = "off" THEN 0 ELSE @]
    /\ offFor' = [offFor EXCEPT ![l] = IF relay[l] = "on" THEN 0 ELSE @]
    /\ missed' = {k \in Loads : seen[k] # relay'[k]}
    /\ call' = NoCall
    /\ UNCHANGED <<seen, satisfied, surplus, runtime, cache, ran, tod, dayStarts>>

\* the process restarts: runtime records and the cache are only in memory
Restart ==
    /\ Fault("restart")
    /\ seen' = relay /\ missed' = {}
    /\ lastOn' = [l \in Loads |-> MaxAge]
    /\ lastOff' = [l \in Loads |-> MaxAge]
    /\ starts' = [l \in Loads |-> 0]
    /\ today' = [l \in Loads |-> FALSE]
    /\ cache' = [l \in Loads |-> NotCached]
    /\ call' = NoCall
    /\ UNCHANGED <<relay, satisfied, surplus, ran, tod, history>>

Engine == Cycle \/ Reply
HomeAssistant == Execute \/ Reject \/ \E l \in Loads : Echo(l)
Environment ==
    \/ SurplusChanges
    \/ \E l \in Loads : SatisfiedChanges(l)
    \/ SkipCycle
    \/ \E l \in Loads : Manual(l) \/ Outage(l)
    \/ LoseReply
    \/ Restart

Next == Engine \/ HomeAssistant \/ Tick \/ Environment

Spec == Init /\ [][Next]_vars

\* The cycle task keeps its cadence, calls are answered (HA may reject one, but
\* not every one), events arrive, time passes.
Fairness ==
    /\ SF_vars(Cycle)
    /\ SF_vars(Execute)
    /\ WF_vars(Reply)
    /\ WF_vars(Tick)
    /\ \A l \in Loads : WF_vars(Echo(l))

FairSpec == Spec /\ Fairness
-----------------------------------------------------------------------------
\* Types of the relay, the store's view of it, the records and the call.
TypeOK ==
    /\ relay \in [Loads -> Kinds]
    /\ seen \in [Loads -> Kinds] /\ missed \subseteq Loads
    /\ satisfied \in [Loads -> BOOLEAN]
    /\ surplus \in Surpluses
    /\ lastOn \in [Loads -> 0 .. MaxAge]
    /\ lastOff \in [Loads -> 0 .. MaxAge]
    /\ starts \in [Loads -> 0 .. MaxStarts]
    /\ today \in [Loads -> BOOLEAN]
    /\ cache \in [Loads -> [key : Kinds \cup {"none"}, age : 0 .. Keepalive]]
    /\ call \in Calls \cup {NoCall}
    /\ ran \in BOOLEAN
    /\ tod \in 0 .. DayLength - 1
    /\ onFor \in [Loads -> 0 .. MaxAge]
    /\ offFor \in [Loads -> 0 .. MaxAge]
    /\ dayStarts \in [Loads -> 0 .. MaxStarts]
    /\ faults \in 0 .. MaxFaults

\* min_runtime_s, seen at the relay: without faults a load that goes off has
\* really been on that long, though the engine dates the start from the answer
\* of its own last call and decides on a possibly outdated state.
MinRuntimeKept ==
    [][\A l \in Loads : (relay[l] = "on" /\ relay'[l] = "off")
                          => onFor[l] >= Config[l].minRuntime]_vars

\* min_off_s, seen at the relay, for surplus starts and deadline starts alike.
MinOffKept ==
    [][\A l \in Loads : (relay[l] = "off" /\ relay'[l] = "on")
                          => offFor[l] >= Config[l].minOff]_vars

\* Both minimum times, as one property: no order of switching on and off, no delayed
\* answer and no midnight makes a load short-cycle.
MinTimesKept ==
    [][\A l \in Loads :
          /\ (relay[l] = "on" /\ relay'[l] = "off") => onFor[l] >= Config[l].minRuntime
          /\ (relay[l] = "off" /\ relay'[l] = "on") => offFor[l] >= Config[l].minOff]_vars

\* max_starts, seen at the relay: no day sees more surplus starts than allowed.
MaxStartsKept ==
    \A l \in Loads : Config[l].maxStarts > 0 => dayStarts[l] <= Config[l].maxStarts

\* apply_commands skips "unchanged commands": without faults a command that is
\* skipped asks for the state the relay is already in.
SuppressionHarmless ==
    \A l \in Loads : (cache[l].key # "none" /\ call.load # l) => cache[l].key = relay[l]

\* Surplus that is enough for the load for good, while it is not satisfied.
LastingSurplus(l) == <>[](surplus > OnMargin /\ surplus >= Need(l) /\ ~satisfied[l])

Settled(l) == <>[]satisfied[l] \/ <>[]~satisfied[l]

\* Lasting surplus ends up in the load, whatever was lost, switched by hand or
\* forgotten before, unless the store has missed an event for good: the keepalive
\* repairs what the cache would suppress, and one action per cycle reaches every
\* load once the others have settled.
SurplusServed ==
    \A l \in Loads :
        (Config[l].maxStarts = 0 /\ LastingSurplus(l)
            /\ (\A k \in Loads : Settled(k)) /\ <>[](missed = {}))
        => <>[](relay[l] = "on")

=============================================================================
