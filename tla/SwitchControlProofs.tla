------------------------- MODULE SwitchControlProofs -------------------------
(***************************************************************************)
(* The guards of the surplus switch hold at the relay: for any loads, any  *)
(* configuration of them, any delay of calls and events, as long as nobody *)
(* but the engine switches and no answer is lost.                          *)
(***************************************************************************)
EXTENDS SwitchControl, TLAPS

-----------------------------------------------------------------------------
(***************************************************************************)
(* Types, with every fault.                                                *)
(***************************************************************************)
LEMMA NoneIsNoLoad == NoCall.stage = "none" /\ \A c \in Calls : c.stage # "none"
  BY DEF NoCall, Calls

LEMMA ActionFields ==
    ASSUME NEW l \in Loads, NEW kind \in Kinds,
           NEW why \in {"deadline", "satisfied", "surplus", "import"}
    PROVE  LET a == Action(l, kind, why)
           IN  /\ a \in Calls /\ a.stage = "sent"
               /\ a.load = l /\ a.kind = kind /\ a.why = why
  BY TimeAssumption DEF Action, Calls

LEMMA KindsAre == "on" \in Kinds /\ "off" \in Kinds
  BY DEF Kinds

\* What decide_action asks of an action it returns.
LEMMA DecisionGuards ==
    ASSUME NEW a \in Decision, TypeOK
    PROVE  /\ a \in Calls /\ a.stage = "sent"
           /\ a.kind = "on" => Rested(a.load)
           /\ a.kind = "off" => RanLongEnough(a.load)
           /\ a.why = "surplus" => StartsLeft(a.load)
  <1>1. \A S : Highest(S) \subseteq S /\ Lowest(S) \subseteq S /\ Largest(S) \subseteq S
    BY DEF Highest, Lowest, Largest
  <1>2. \/ \E l \in Due : a = Action(l, "on", "deadline")
        \/ \E l \in Sated : a = Action(l, "off", "satisfied")
        \/ \E l \in Startable : a = Action(l, "on", "surplus")
        \/ \E l \in Sheddable : a = Action(l, "off", "import")
    BY <1>1 DEF Decision
  <1>3. CASE \E l \in Due : a = Action(l, "on", "deadline")
    <2>1. PICK l \in Due : a = Action(l, "on", "deadline")
      BY <1>3
    <2>2. l \in Loads /\ Rested(l)
      BY DEF Due
    <2>3. QED
      BY <2>1, <2>2, ActionFields, KindsAre
  <1>4. CASE \E l \in Sated : a = Action(l, "off", "satisfied")
    <2>1. PICK l \in Sated : a = Action(l, "off", "satisfied")
      BY <1>4
    <2>2. l \in Loads /\ RanLongEnough(l)
      BY DEF Sated
    <2>3. QED
      BY <2>1, <2>2, ActionFields, KindsAre
  <1>5. CASE \E l \in Startable : a = Action(l, "on", "surplus")
    <2>1. PICK l \in Startable : a = Action(l, "on", "surplus")
      BY <1>5
    <2>2. l \in Loads /\ Rested(l) /\ StartsLeft(l)
      BY DEF Startable
    <2>3. QED
      BY <2>1, <2>2, ActionFields, KindsAre
  <1>6. CASE \E l \in Sheddable : a = Action(l, "off", "import")
    <2>1. PICK l \in Sheddable : a = Action(l, "off", "import")
      BY <1>6
    <2>2. l \in Loads /\ RanLongEnough(l)
      BY DEF Sheddable
    <2>3. QED
      BY <2>1, <2>2, ActionFields, KindsAre
  <1>7. QED
    BY <1>2, <1>3, <1>4, <1>5, <1>6

LEMMA AgesStay ==
    ASSUME NEW most \in Nat, NEW age \in 0 .. most
    PROVE  Older(age, most) \in 0 .. most /\ Older(age, most) >= age
  BY DEF Older

LEMMA CountsStay == \A n \in 0 .. MaxStarts : Counted(n) \in 0 .. MaxStarts
  BY TimeAssumption DEF Counted

LEMMA ClockStays == \A t \in 0 .. DayLength - 1 : Later(t) \in 0 .. DayLength - 1
  BY TimeAssumption DEF Later

LEMMA InitType == Init => TypeOK
  <1> SUFFICES ASSUME Init PROVE TypeOK
    OBVIOUS
  <1>1. NotCached \in [key : Kinds \cup {"none"}, age : 0 .. Keepalive]
    BY TimeAssumption DEF NotCached
  <1>2. cache \in [Loads -> [key : Kinds \cup {"none"}, age : 0 .. Keepalive]]
    BY <1>1 DEF Init
  <1>3. /\ MaxAge \in 0 .. MaxAge /\ 0 \in 0 .. MaxStarts /\ 0 \in 0 .. MaxFaults
        /\ 0 \in 0 .. DayLength - 1
    BY TimeAssumption
  <1>4. QED
    BY <1>2, <1>3 DEF Init, TypeOK

\* Switching a relay keeps the types of what it touches.
LEMMA SwitchedType ==
    ASSUME TypeOK, NEW l \in Loads, NEW kind \in Kinds, Switched(l, kind)
    PROVE  /\ relay' \in [Loads -> Kinds] /\ missed' \subseteq Loads
           /\ onFor' \in [Loads -> 0 .. MaxAge] /\ offFor' \in [Loads -> 0 .. MaxAge]
  BY TimeAssumption DEF TypeOK, Switched

LEMMA StepType == TypeOK /\ [Next]_vars => TypeOK'
  <1> SUFFICES ASSUME TypeOK, [Next]_vars PROVE TypeOK'
    OBVIOUS
  <1> USE DEF TypeOK, known, runtime, history
  <1>1. CASE Cycle
    <2>1. call' \in Calls \cup {NoCall}
      BY <1>1, DecisionGuards DEF Cycle
    <2>2. QED
      BY <1>1, <2>1 DEF Cycle
  <1>2. CASE Reply
    <2>1. call \in Calls
      BY <1>2, NoneIsNoLoad DEF Reply
    <2>2. call.load \in Loads /\ call.kind \in Kinds /\ call.age \in 0 .. Keepalive
      BY <2>1 DEF Calls
    <2>3. /\ starts' \in [Loads -> 0 .. MaxStarts] /\ today' \in [Loads -> BOOLEAN]
          /\ lastOn' \in [Loads -> 0 .. MaxAge] /\ lastOff' \in [Loads -> 0 .. MaxAge]
      BY <1>2, <2>2, CountsStay, TimeAssumption DEF Reply, NoteSwitch
    <2>4. cache' \in [Loads -> [key : Kinds \cup {"none"}, age : 0 .. Keepalive]]
      BY <1>2, <2>2 DEF Reply
    <2>5. QED
      BY <1>2, <2>3, <2>4 DEF Reply
  <1>3. CASE Execute
    <2>1. call \in Calls
      BY <1>3, NoneIsNoLoad DEF Execute
    <2>2. call.load \in Loads /\ call.kind \in Kinds
      BY <2>1 DEF Calls
    <2>3. call' \in Calls
      BY <1>3, <2>1 DEF Execute, Calls
    <2>4. dayStarts' \in [Loads -> 0 .. MaxStarts]
      BY <1>3, <2>2, CountsStay DEF Execute
    <2>5. QED
      BY <1>3, <2>2, <2>3, <2>4, SwitchedType DEF Execute
  <1>4. CASE Reject
    BY <1>4 DEF Reject
  <1>5. ASSUME NEW l \in Loads, Echo(l) PROVE TypeOK'
    BY <1>5 DEF Echo
  <1>6. CASE Tick
    <2>1. /\ lastOn' \in [Loads -> 0 .. MaxAge] /\ lastOff' \in [Loads -> 0 .. MaxAge]
          /\ onFor' \in [Loads -> 0 .. MaxAge] /\ offFor' \in [Loads -> 0 .. MaxAge]
      BY <1>6, AgesStay, TimeAssumption DEF Tick
    <2>2. cache' \in [Loads -> [key : Kinds \cup {"none"}, age : 0 .. Keepalive]]
      <3>1. ASSUME NEW l \in Loads
            PROVE  [cache[l] EXCEPT !.age = Older(@, Keepalive)]
                     \in [key : Kinds \cup {"none"}, age : 0 .. Keepalive]
        <4>1. cache[l] \in [key : Kinds \cup {"none"}, age : 0 .. Keepalive]
          OBVIOUS
        <4>2. Older(cache[l].age, Keepalive) \in 0 .. Keepalive
          BY <4>1, AgesStay, TimeAssumption
        <4>3. QED
          BY <4>1, <4>2
      <3>2. QED
        BY <1>6, <3>1 DEF Tick
    <2>3. call' \in Calls \cup {NoCall}
      <3>1. CASE call = NoCall
        BY <1>6, <3>1 DEF Tick, NoCall
      <3>2. CASE call # NoCall
        <4>1. call \in Calls
          BY <3>2
        <4>2. Older(call.age, Keepalive) \in 0 .. Keepalive
          BY <4>1, AgesStay, TimeAssumption DEF Calls
        <4>3. QED
          BY <1>6, <3>2, <4>1, <4>2 DEF Tick, Calls
      <3>3. QED
        BY <3>1, <3>2
    <2>4. /\ tod' \in 0 .. DayLength - 1
          /\ today' \in [Loads -> BOOLEAN] /\ dayStarts' \in [Loads -> 0 .. MaxStarts]
      BY <1>6, ClockStays, TimeAssumption DEF Tick
    <2>5. QED
      BY <1>6, <2>1, <2>2, <2>3, <2>4 DEF Tick
  <1>7. CASE SurplusChanges
    BY <1>7 DEF SurplusChanges
  <1>8. ASSUME NEW l \in Loads, SatisfiedChanges(l) PROVE TypeOK'
    BY <1>8 DEF SatisfiedChanges
  <1>9. CASE SkipCycle
    BY <1>9 DEF SkipCycle
  <1>10. ASSUME NEW l \in Loads, Manual(l) PROVE TypeOK'
    <2>1. faults' \in 0 .. MaxFaults
      BY <1>10, TimeAssumption DEF Manual, Fault
    <2>2. QED
      BY <1>10, <2>1, SwitchedType DEF Manual, Kinds
  <1>11. CASE LoseReply
    BY <1>11, TimeAssumption DEF LoseReply, Fault
  <1>12. ASSUME NEW l \in Loads, Outage(l) PROVE TypeOK'
    BY <1>12, TimeAssumption DEF Outage, Fault, Kinds
  <1>13. CASE Restart
    <2>1. cache' \in [Loads -> [key : Kinds \cup {"none"}, age : 0 .. Keepalive]]
      BY <1>13, TimeAssumption DEF Restart, NotCached
    <2>2. QED
      BY <1>13, <2>1, TimeAssumption DEF Restart, Fault
  <1>14. CASE UNCHANGED vars
    BY <1>14 DEF vars
  <1>15. QED
    BY <1>1, <1>2, <1>3, <1>4, <1>5, <1>6, <1>7, <1>8, <1>9, <1>10, <1>11, <1>12,
       <1>13, <1>14 DEF Next, Engine, HomeAssistant, Environment

\* The relays, the store's view, the records and the call keep their types,
\* whatever fails.
THEOREM TypeCorrect == Spec => []TypeOK
  BY InitType, StepType, PTL DEF Spec

-----------------------------------------------------------------------------
(***************************************************************************)
(* Without faults the relay obeys the guards.  The engine decides on the   *)
(* ages of its own records, which start when a call is answered; the relay *)
(* switched when the call was executed.  So the records are never older    *)
(* than the relay's own ages, except while an answer is under way -- and   *)
(* then no other call is.                                                  *)
(***************************************************************************)
Pending(l) == call.stage = "executed" /\ call.load = l

\* The relay is in the state an executed call asked for.
Executed == call.stage = "executed" => relay[call.load] = call.kind

\* A cache entry is what the relay does, unless a newer call is unanswered.
CacheTrue == \A l \in Loads : Pending(l) \/ cache[l].key \in {"none", relay[l]}

OffAges == \A l \in Loads : relay[l] = "off" /\ ~Pending(l) => offFor[l] >= lastOff[l]
OnAges == \A l \in Loads : relay[l] = "on" /\ ~Pending(l) => onFor[l] >= lastOn[l]

\* What decide_action checked still holds while its call is under way.
SentGuarded ==
    call.stage = "sent" =>
        /\ call.kind = "on" => Rested(call.load)
        /\ call.kind = "off" => RanLongEnough(call.load)
        /\ call.why = "surplus" => StartsLeft(call.load)

\* Every surplus start of the day is in the record, or about to be.
Recorded(l) == IF today[l] THEN starts[l] ELSE 0
StartsCounted ==
    \A l \in Loads :
        dayStarts[l] <= Recorded(l) + (IF Pending(l) /\ call.kind = "on" THEN 1 ELSE 0)

IInv == /\ Executed /\ CacheTrue /\ OffAges /\ OnAges
        /\ SentGuarded /\ StartsCounted /\ MaxStartsKept

LEMMA InitGuarded == Init => IInv
  <1> SUFFICES ASSUME Init PROVE IInv
    OBVIOUS
  <1>1. call = NoCall /\ ~(\E l \in Loads : Pending(l))
    BY DEF Init, NoCall, Pending
  <1>2. Executed /\ SentGuarded
    BY <1>1 DEF Executed, SentGuarded, NoCall
  <1>3. CacheTrue
    BY DEF Init, CacheTrue, NotCached
  <1>4. OffAges /\ OnAges
    BY TimeAssumption DEF Init, OffAges, OnAges
  <1>5. StartsCounted /\ MaxStartsKept
    BY <1>1, ConfigAssumption DEF Init, StartsCounted, MaxStartsKept, Recorded, LoadConfig
  <1>6. QED
    BY <1>2, <1>3, <1>4, <1>5 DEF IInv

\* Execution sets the relay its call names.
LEMMA ExecuteStep ==
    ASSUME TypeOK, IInv, Execute
    PROVE  /\ call \in Calls /\ call' \in Calls /\ call'.stage = "executed"
           /\ call'.load = call.load /\ call'.kind = call.kind
           /\ relay'[call.load] = call.kind
           /\ \A l \in Loads : l # call.load =>
                 /\ relay'[l] = relay[l] /\ onFor'[l] = onFor[l]
                 /\ offFor'[l] = offFor[l] /\ dayStarts'[l] = dayStarts[l]
  <1>1. call \in Calls
    BY NoneIsNoLoad DEF Execute, TypeOK
  <1>2. call.load \in Loads /\ call.kind \in Kinds
    BY <1>1 DEF Calls
  <1>3. /\ call' \in Calls /\ call'.stage = "executed"
        /\ call'.load = call.load /\ call'.kind = call.kind
    BY <1>1 DEF Execute, Calls
  <1>4. QED
    BY <1>1, <1>2, <1>3 DEF Execute, Switched, TypeOK

\* The limit of a day's starts: the execution of a surplus start may use up the
\* last one, and never goes beyond it.
LEMMA ExecuteCounts ==
    ASSUME TypeOK, IInv, Execute
    PROVE  StartsCounted' /\ MaxStartsKept'
  <1>1. /\ call \in Calls /\ call.load \in Loads
        /\ call'.load = call.load /\ call'.kind = call.kind /\ call'.stage = "executed"
        /\ \A l \in Loads : l # call.load => dayStarts'[l] = dayStarts[l]
    BY ExecuteStep DEF Calls
  <1>2. starts' = starts /\ today' = today /\ call.stage = "sent"
    BY DEF Execute, runtime
  <1>3. ~(\E l \in Loads : Pending(l))
    BY <1>2 DEF Pending
  <1>4. ASSUME NEW l \in Loads
        PROVE  dayStarts[l] \in Nat /\ Recorded(l) \in Nat /\ Recorded(l) <= starts[l]
               /\ Recorded(l)' = Recorded(l) /\ dayStarts[l] <= Recorded(l)
               /\ starts[l] \in Nat
    BY <1>2, <1>3, TimeAssumption DEF TypeOK, Recorded, IInv, StartsCounted
  <1>5. ASSUME NEW l \in Loads, l # call.load
        PROVE  /\ dayStarts'[l] <= Recorded(l)'
               /\ ~Pending(l)'
               /\ Config[l].maxStarts > 0 => dayStarts'[l] <= Config[l].maxStarts
    BY <1>1, <1>4, <1>5 DEF Pending, IInv, MaxStartsKept
  <1> DEFINE l0 == call.load
  <1>6. \/ dayStarts'[l0] = dayStarts[l0]
        \/ /\ call.kind = "on" /\ call.why = "surplus"
           /\ dayStarts'[l0] = Counted(dayStarts[l0])
    BY <1>1 DEF Execute, TypeOK
  <1>7. Pending(l0)'
    BY <1>1 DEF Pending
  <1>9. Config[l0].maxStarts \in Nat
    BY <1>1, ConfigAssumption DEF LoadConfig
  <1>10. CASE dayStarts'[l0] = dayStarts[l0]
    <2>1. Config[l0].maxStarts > 0 => dayStarts'[l0] <= Config[l0].maxStarts
      BY <1>1, <1>10 DEF IInv, MaxStartsKept
    <2>2. dayStarts'[l0] <= Recorded(l0)' + (IF Pending(l0)' /\ call'.kind = "on" THEN 1 ELSE 0)
      BY <1>1, <1>4, <1>10
    <2>3. QED
      BY <1>1, <1>5, <2>1, <2>2, <1>4 DEF StartsCounted, MaxStartsKept
  <1>11. CASE /\ call.kind = "on" /\ call.why = "surplus"
              /\ dayStarts'[l0] = Counted(dayStarts[l0])
    <2>1. Config[l0].maxStarts = 0 \/ starts[l0] < Config[l0].maxStarts
      BY <1>2, <1>11 DEF IInv, SentGuarded, StartsLeft
    <2>2. dayStarts[l0] \in 0 .. MaxStarts
      BY <1>1 DEF TypeOK
    <2>3. dayStarts'[l0] <= dayStarts[l0] + 1
      BY <1>11, <2>2, TimeAssumption DEF Counted
    <2>4. dayStarts'[l0] \in Nat
      BY <1>11, <2>2, TimeAssumption DEF Counted
    <2>5. Config[l0].maxStarts > 0 => dayStarts'[l0] <= Config[l0].maxStarts
      BY <1>1, <1>4, <1>9, <2>1, <2>2, <2>3, <2>4
    <2>6. dayStarts'[l0] <= Recorded(l0)' + (IF Pending(l0)' /\ call'.kind = "on" THEN 1 ELSE 0)
      BY <1>1, <1>4, <1>7, <1>11, <2>3, <2>4, <2>2
    <2>7. QED
      BY <1>1, <1>4, <1>5, <2>5, <2>6 DEF StartsCounted, MaxStartsKept
  <1>12. QED
    BY <1>6, <1>10, <1>11

LEMMA ExecuteGuarded == TypeOK /\ IInv /\ Execute => IInv'
  <1> SUFFICES ASSUME TypeOK, IInv, Execute PROVE IInv'
    OBVIOUS
  <1>1. /\ UNCHANGED <<lastOn, lastOff, cache>>
        /\ \A l \in Loads : ~Pending(l)
    BY DEF Execute, runtime, Pending
  <1>2. \A l \in Loads : Pending(l)' <=> l = call.load
    BY ExecuteStep DEF Pending
  <1>3. Executed' /\ SentGuarded'
    BY ExecuteStep DEF Executed, SentGuarded
  <1>4. CacheTrue'
    BY <1>1, <1>2, ExecuteStep DEF IInv, CacheTrue
  <1>5. OffAges' /\ OnAges'
    BY <1>1, <1>2, ExecuteStep DEF IInv, OffAges, OnAges
  <1>6. QED
    BY <1>3, <1>4, <1>5, ExecuteCounts DEF IInv

\* The answer turns what is pending into a record.
LEMMA ReplyGuarded == TypeOK /\ IInv /\ Reply => IInv'
  <1> SUFFICES ASSUME TypeOK, IInv, Reply PROVE IInv'
    OBVIOUS
  <1> DEFINE l0 == call.load
  <1>1. call \in Calls
    BY NoneIsNoLoad DEF Reply, TypeOK
  <1>2. l0 \in Loads /\ call.kind \in Kinds
    BY <1>1 DEF Calls
  <1>3. /\ UNCHANGED <<relay, onFor, offFor, dayStarts>> /\ call' = NoCall
        /\ call.stage = "executed" /\ relay[l0] = call.kind
        /\ NoteSwitch(l0, call.kind = "on")
    BY DEF Reply, history, IInv, Executed
  <1>4. /\ \A l \in Loads : ~Pending(l)'
        /\ \A l \in Loads : Pending(l) <=> l = l0
    BY <1>3 DEF Pending, NoCall
  <1>5. Executed' /\ SentGuarded'
    BY <1>3 DEF Executed, SentGuarded, NoCall
  <1>6. CacheTrue'
    <2>1. cache' = [cache EXCEPT ![l0] = [key |-> call.kind, age |-> call.age]]
      BY DEF Reply
    <2>2. cache'[l0].key = relay[l0]
      BY <1>2, <1>3, <2>1 DEF TypeOK
    <2>3. \A l \in Loads \ {l0} : cache'[l] = cache[l]
      BY <2>1 DEF TypeOK
    <2>4. QED
      BY <1>3, <1>4, <2>2, <2>3 DEF IInv, CacheTrue
  <1>7. OffAges'
    <2>1. ASSUME NEW l \in Loads, relay[l] = "off" PROVE offFor[l] >= lastOff'[l]
      <3>1. CASE l = l0
        <4>1. lastOff'[l] = 0
          BY <1>2, <1>3, <2>1, <3>1 DEF NoteSwitch, TypeOK
        <4>2. QED
          BY <4>1, TimeAssumption DEF TypeOK
      <3>2. CASE l # l0
        BY <1>3, <1>4, <2>1, <3>2 DEF NoteSwitch, TypeOK, IInv, OffAges
      <3>3. QED
        BY <3>1, <3>2
    <2>2. QED
      BY <1>3, <2>1 DEF OffAges
  <1>8. OnAges'
    <2>1. ASSUME NEW l \in Loads, relay[l] = "on" PROVE onFor[l] >= lastOn'[l]
      <3>1. CASE l = l0
        <4>1. lastOn'[l] = 0
          BY <1>2, <1>3, <2>1, <3>1 DEF NoteSwitch, TypeOK
        <4>2. QED
          BY <4>1, TimeAssumption DEF TypeOK
      <3>2. CASE l # l0
        BY <1>3, <1>4, <2>1, <3>2 DEF NoteSwitch, TypeOK, IInv, OnAges
      <3>3. QED
        BY <3>1, <3>2
    <2>2. QED
      BY <1>3, <2>1 DEF OnAges
  <1>9. StartsCounted'
    <2>1. ASSUME NEW l \in Loads PROVE dayStarts[l] <= Recorded(l)'
      <3>1. CASE l # l0
        <4>1. Recorded(l)' = Recorded(l)
          BY <1>3, <3>1 DEF NoteSwitch, TypeOK, Recorded
        <4>2. dayStarts[l] <= Recorded(l)
          BY <1>4, <3>1, TimeAssumption DEF IInv, StartsCounted, TypeOK, Recorded
        <4>3. QED
          BY <4>1, <4>2
      <3>2. CASE l = l0
        <4>1. Recorded(l)' = IF call.kind = "on" THEN Counted(Recorded(l)) ELSE Recorded(l)
          BY <1>2, <1>3, <3>2 DEF NoteSwitch, TypeOK, Recorded
        <4>2. dayStarts[l] <= Recorded(l) + (IF call.kind = "on" THEN 1 ELSE 0)
          BY <1>4, <3>2 DEF IInv, StartsCounted
        <4>3. dayStarts[l] \in 0 .. MaxStarts /\ Recorded(l) \in 0 .. MaxStarts
          BY TimeAssumption DEF TypeOK, Recorded
        <4>4. QED
          BY <4>1, <4>2, <4>3, TimeAssumption DEF Counted
      <3>3. QED
        BY <3>1, <3>2
    <2>2. ASSUME NEW l \in Loads
          PROVE  dayStarts'[l] <= Recorded(l)' + (IF Pending(l)' /\ call'.kind = "on" THEN 1 ELSE 0)
      <3>1. Recorded(l)' \in Nat
        BY <1>2, <1>3, TimeAssumption DEF NoteSwitch, TypeOK, Recorded, Counted
      <3>2. QED
        BY <1>3, <1>4, <2>1, <3>1 DEF TypeOK
    <2>3. QED
      BY <2>2 DEF StartsCounted
  <1>10. MaxStartsKept'
    BY <1>3 DEF IInv, MaxStartsKept
  <1>11. QED
    BY <1>5, <1>6, <1>7, <1>8, <1>9, <1>10 DEF IInv

\* A cycle sends what decide_action allows; a rejected call leaves no trace.
LEMMA CycleGuarded == TypeOK /\ IInv /\ (Cycle \/ Reject) => IInv'
  <1> SUFFICES ASSUME TypeOK, IInv, Cycle \/ Reject PROVE IInv'
    OBVIOUS
  <1>1. UNCHANGED <<relay, lastOn, lastOff, starts, today, cache, onFor, offFor, dayStarts>>
    BY DEF Cycle, Reject, runtime, history
  <1>2. call' = NoCall \/ (call' \in Decision /\ Cycle)
    BY DEF Cycle, Reject
  <1>3. call'.stage # "executed" /\ SentGuarded'
    <2>1. CASE call' = NoCall
      BY <2>1 DEF NoCall, SentGuarded
    <2>2. CASE call' \in Decision
      <3>1. /\ call'.stage = "sent"
            /\ call'.kind = "on" => Rested(call'.load)
            /\ call'.kind = "off" => RanLongEnough(call'.load)
            /\ call'.why = "surplus" => StartsLeft(call'.load)
        BY <2>2, DecisionGuards
      <3>2. QED
        BY <1>1, <3>1 DEF SentGuarded, Rested, RanLongEnough, StartsLeft
    <2>3. QED
      BY <1>2, <2>1, <2>2
  <1>4. /\ \A l \in Loads : ~Pending(l)
        /\ \A l \in Loads : ~Pending(l)'
    BY <1>3 DEF Cycle, Reject, NoCall, Pending
  <1>5. Executed' /\ CacheTrue' /\ OffAges' /\ OnAges' /\ MaxStartsKept'
    BY <1>1, <1>3, <1>4 DEF IInv, Executed, CacheTrue, OffAges, OnAges, MaxStartsKept
  <1>6. StartsCounted'
    BY <1>1, <1>4 DEF IInv, StartsCounted, Recorded
  <1>7. QED
    BY <1>3, <1>5, <1>6 DEF IInv

LEMMA OlderKeepsOrder ==
    ASSUME NEW a \in 0 .. MaxAge, NEW b \in 0 .. MaxAge, a >= b
    PROVE  Older(a, MaxAge) >= Older(b, MaxAge)
  BY TimeAssumption DEF Older

\* Time ages the relay's history and the records alike; midnight clears the
\* counted starts and outdates the record's day.
LEMMA TickGuarded == TypeOK /\ IInv /\ Tick => IInv'
  <1> SUFFICES ASSUME TypeOK, IInv, Tick PROVE IInv'
    OBVIOUS
  <1>1. UNCHANGED <<relay, starts>>
    BY DEF Tick
  <1>2. /\ call'.stage = call.stage /\ call'.load = call.load
        /\ call'.kind = call.kind /\ call'.why = call.why
    <2>1. CASE call = NoCall
      BY <2>1 DEF Tick, NoCall
    <2>2. CASE call # NoCall
      <3>1. call \in Calls
        BY <2>2 DEF TypeOK
      <3>2. QED
        BY <2>2, <3>1 DEF Tick, Calls
    <2>3. QED
      BY <2>1, <2>2
  <1>3. \A l \in Loads : Pending(l)' <=> Pending(l)
    BY <1>2 DEF Pending
  <1>4. Executed'
    BY <1>1, <1>2 DEF IInv, Executed
  <1>5. CacheTrue'
    <2>1. ASSUME NEW l \in Loads PROVE cache'[l].key = cache[l].key
      <3>1. cache[l] \in [key : Kinds \cup {"none"}, age : 0 .. Keepalive]
        BY DEF TypeOK
      <3>2. QED
        BY <3>1 DEF Tick
    <2>2. QED
      BY <1>1, <1>3, <2>1 DEF IInv, CacheTrue
  <1>6. OffAges' /\ OnAges'
    BY <1>1, <1>3, OlderKeepsOrder DEF Tick, TypeOK, IInv, OffAges, OnAges
  <1>7. SentGuarded'
    <2>1. CASE call.stage = "sent"
      <3>1. call.load \in Loads
        BY <2>1 DEF TypeOK, Calls, NoCall
      <3>2. lastOn'[call.load] >= lastOn[call.load] /\ lastOff'[call.load] >= lastOff[call.load]
        BY <3>1, AgesStay, TimeAssumption DEF Tick, TypeOK
      <3>3. /\ lastOn[call.load] \in Nat /\ lastOff[call.load] \in Nat
            /\ lastOn'[call.load] \in Nat /\ lastOff'[call.load] \in Nat
        BY <3>1, TimeAssumption, StepType DEF TypeOK, Next
      <3>4. Config[call.load].minOff \in Nat /\ Config[call.load].minRuntime \in Nat
        BY <3>1, ConfigAssumption DEF LoadConfig
      <3>5. Rested(call.load) => Rested(call.load)'
        BY <1>2, <3>2, <3>3, <3>4 DEF Rested
      <3>6. RanLongEnough(call.load) => RanLongEnough(call.load)'
        BY <1>2, <3>2, <3>3, <3>4 DEF RanLongEnough
      <3>7. StartsLeft(call.load)' <=> StartsLeft(call.load)
        BY <1>1, <1>2 DEF StartsLeft
      <3>8. QED
        BY <1>2, <2>1, <3>5, <3>6, <3>7 DEF IInv, SentGuarded
    <2>2. QED
      BY <1>2, <2>1 DEF SentGuarded
  <1>8. StartsCounted' /\ MaxStartsKept'
    <2>1. CASE tod' = 0
      <3>1. /\ \A l \in Loads : dayStarts'[l] = 0
            /\ \A l \in Loads : Recorded(l)' = 0
        BY <2>1 DEF Tick, Recorded
      <3>2. QED
        BY <3>1, ConfigAssumption DEF StartsCounted, MaxStartsKept, LoadConfig
    <2>2. CASE tod' # 0
      <3>1. \A l \in Loads : dayStarts'[l] = dayStarts[l] /\ Recorded(l)' = Recorded(l)
        BY <1>1, <2>2 DEF Tick, Recorded, TypeOK
      <3>2. QED
        BY <1>2, <1>3, <3>1 DEF IInv, StartsCounted, MaxStartsKept
    <2>3. QED
      BY <2>1, <2>2
  <1>9. QED
    BY <1>4, <1>5, <1>6, <1>7, <1>8 DEF IInv

\* What concerns neither a relay nor a record nor the call.
LEMMA FrameGuarded ==
    IInv /\ UNCHANGED <<relay, runtime, cache, call, history>> => IInv'
  BY DEF IInv, Executed, CacheTrue, OffAges, OnAges, SentGuarded, StartsCounted,
         MaxStartsKept, Pending, Recorded, Rested, RanLongEnough, StartsLeft,
         runtime, history

LEMMA StepGuarded == Faults = {} /\ TypeOK /\ IInv /\ [Next]_vars => IInv'
  <1> SUFFICES ASSUME Faults = {}, TypeOK, IInv, [Next]_vars PROVE IInv'
    OBVIOUS
  <1>1. CASE Cycle \/ Reject
    BY <1>1, CycleGuarded
  <1>2. CASE Execute
    BY <1>2, ExecuteGuarded
  <1>3. CASE Reply
    BY <1>3, ReplyGuarded
  <1>4. CASE Tick
    BY <1>4, TickGuarded
  <1>5. CASE \/ \E l \in Loads : Echo(l) \/ SatisfiedChanges(l)
             \/ SurplusChanges \/ SkipCycle \/ UNCHANGED vars
    BY <1>5, FrameGuarded DEF Echo, SatisfiedChanges, SurplusChanges, SkipCycle, vars
  <1>6. ~(\E kind \in {"manual", "lost", "restart", "outage"} : Fault(kind))
    BY DEF Fault
  <1>7. QED
    BY <1>1, <1>2, <1>3, <1>4, <1>5, <1>6
    DEF Next, Engine, HomeAssistant, Environment, Manual, LoseReply, Outage, Restart

\* Only the execution of a call switches a relay, and its decision was guarded.
LEMMA SwitchGuarded ==
    ASSUME Faults = {}, TypeOK, IInv, [Next]_vars, NEW l \in Loads, relay'[l] # relay[l]
    PROVE  /\ relay[l] = "off" => offFor[l] >= Config[l].minOff
           /\ relay[l] = "on" => onFor[l] >= Config[l].minRuntime
  <1>1. ~(\E kind \in {"manual", "lost", "restart", "outage"} : Fault(kind))
    BY DEF Fault
  <1>2. Execute
    BY <1>1 DEF Next, Engine, HomeAssistant, Environment, Cycle, Reply, Reject, Echo, Tick,
         SurplusChanges, SatisfiedChanges, SkipCycle, Manual, LoseReply, Outage, Restart, vars
  <1>3. l = call.load /\ relay'[l] = call.kind /\ call.stage = "sent"
    BY <1>2, ExecuteStep DEF Execute
  <1>4. ~Pending(l)
    BY <1>3 DEF Pending
  <1>5. relay[l] \in Kinds /\ relay'[l] \in Kinds
    BY StepType DEF TypeOK
  <1>6. /\ Config[l].minOff \in Nat /\ Config[l].minRuntime \in Nat
        /\ lastOff[l] \in Nat /\ lastOn[l] \in Nat /\ offFor[l] \in Nat /\ onFor[l] \in Nat
    BY ConfigAssumption, TimeAssumption DEF TypeOK, LoadConfig
  <1>7. CASE relay[l] = "off"
    <2>1. lastOff[l] >= Config[l].minOff
      BY <1>3, <1>5, <1>7 DEF IInv, SentGuarded, Rested, Kinds
    <2>2. QED
      BY <1>4, <1>6, <1>7, <2>1 DEF IInv, OffAges
  <1>8. CASE relay[l] = "on"
    <2>1. lastOn[l] >= Config[l].minRuntime
      BY <1>3, <1>5, <1>8 DEF IInv, SentGuarded, RanLongEnough, Kinds
    <2>2. QED
      BY <1>4, <1>6, <1>8, <2>1 DEF IInv, OnAges
  <1>9. QED
    BY <1>5, <1>7, <1>8 DEF Kinds

LEMMA Guarded == Faults = {} => (Spec => [](TypeOK /\ IInv))
  <1> SUFFICES ASSUME Faults = {} PROVE Spec => [](TypeOK /\ IInv)
    OBVIOUS
  <1>1. Init => TypeOK /\ IInv
    BY InitType, InitGuarded
  <1>2. TypeOK /\ IInv /\ [Next]_vars => (TypeOK /\ IInv)'
    BY StepType, StepGuarded
  <1>3. QED
    BY <1>1, <1>2, PTL DEF Spec

\* No day sees more surplus starts of a load than max_starts.
THEOREM StartsLimited == Faults = {} => (Spec => []MaxStartsKept)
  <1> SUFFICES ASSUME Faults = {} PROVE Spec => []MaxStartsKept
    OBVIOUS
  <1>1. TypeOK /\ IInv => MaxStartsKept
    BY DEF IInv
  <1>2. QED
    BY <1>1, Guarded, PTL

\* A command that apply_commands skips asks for what the relay does already.
THEOREM SuppressionIsHarmless == Faults = {} => (Spec => []SuppressionHarmless)
  <1> SUFFICES ASSUME Faults = {} PROVE Spec => []SuppressionHarmless
    OBVIOUS
  <1>1. TypeOK /\ IInv => SuppressionHarmless
    BY DEF IInv, CacheTrue, Pending, SuppressionHarmless
  <1>2. QED
    BY <1>1, Guarded, PTL

\* A load that goes off has been on for min_runtime_s.
THEOREM RuntimeKept == Faults = {} => (Spec => MinRuntimeKept)
  <1> SUFFICES ASSUME Faults = {} PROVE Spec => MinRuntimeKept
    OBVIOUS
  <1>1. TypeOK /\ IInv /\ [Next]_vars =>
          [\A l \in Loads : (relay[l] = "on" /\ relay'[l] = "off")
                              => onFor[l] >= Config[l].minRuntime]_vars
    BY SwitchGuarded
  <1>2. QED
    BY <1>1, Guarded, PTL DEF Spec, MinRuntimeKept

\* A load that goes on has been off for min_off_s.
THEOREM PauseKept == Faults = {} => (Spec => MinOffKept)
  <1> SUFFICES ASSUME Faults = {} PROVE Spec => MinOffKept
    OBVIOUS
  <1>1. TypeOK /\ IInv /\ [Next]_vars =>
          [\A l \in Loads : (relay[l] = "off" /\ relay'[l] = "on")
                              => offFor[l] >= Config[l].minOff]_vars
    BY SwitchGuarded
  <1>2. QED
    BY <1>1, Guarded, PTL DEF Spec, MinOffKept

\* The two together: without faults no load of any configuration short-cycles.
THEOREM TimesKept == Faults = {} => (Spec => MinTimesKept)
  <1> SUFFICES ASSUME Faults = {} PROVE Spec => MinTimesKept
    OBVIOUS
  <1>1. TypeOK /\ IInv /\ [Next]_vars =>
          [\A l \in Loads :
              /\ (relay[l] = "on" /\ relay'[l] = "off") => onFor[l] >= Config[l].minRuntime
              /\ (relay[l] = "off" /\ relay'[l] = "on") => offFor[l] >= Config[l].minOff]_vars
    BY SwitchGuarded
  <1>2. QED
    BY <1>1, Guarded, PTL DEF Spec, MinTimesKept
=============================================================================
