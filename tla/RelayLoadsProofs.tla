--------------------------- MODULE RelayLoadsProofs ---------------------------
(***************************************************************************)
(* The heating rod: its stages fill bottom-up however many relays the plan *)
(* switches and whatever is suppressed, and a day ends with the daily      *)
(* minimum, restarts included.                                             *)
(***************************************************************************)
EXTENDS RelayLoads, FiniteSetTheorems, SequenceTheorems, TLAPS

-----------------------------------------------------------------------------
(***************************************************************************)
(* Counting relays.                                                        *)
(***************************************************************************)
LEMMA CountType ==
    ASSUME NEW s
    PROVE  Count(s) \in 0 .. N
  <1> DEFINE up == {i \in Relays : s[i] = "on"}
  <1>1. IsFiniteSet(Relays) /\ Cardinality(Relays) = N
    BY FS_Interval, RelaysAssumption DEF Relays
  <1>2. up \subseteq Relays
    OBVIOUS
  <1>3. IsFiniteSet(up) /\ Cardinality(up) <= N
    BY <1>1, <1>2, FS_Subset
  <1>4. Cardinality(up) \in Nat
    BY <1>3, FS_CardinalityType
  <1>5. QED
    BY <1>3, <1>4, RelaysAssumption DEF Count

\* The lowest m relays are m relays.
LEMMA CountLowest ==
    ASSUME NEW s, NEW m \in 0 .. N, \A i \in Relays : s[i] = OnIf(i <= m)
    PROVE  Count(s) = m
  <1>1. {i \in Relays : s[i] = "on"} = 1 .. m
    BY RelaysAssumption DEF Relays, OnIf
  <1>2. Cardinality(1 .. m) = m
    BY FS_Interval, RelaysAssumption
  <1>3. QED
    BY <1>1, <1>2 DEF Count

-----------------------------------------------------------------------------
(***************************************************************************)
(* Types.                                                                  *)
(***************************************************************************)
Commands == [relay : Relays, kind : Kinds]

TypeInv == TypeOK /\ IsFiniteSet(faults)

LEMMA DeviceFields ==
    ASSUME TypeOK
    PROVE  dev.kind \in {"rod", "pump"} /\ dev.minDay \in Nat /\ dev.deadline \in Int
  BY RelaysAssumption DEF TypeOK

LEMMA FaultType ==
    ASSUME TypeInv, NEW kind, Fault(kind)
    PROVE  /\ faults' \subseteq Faults /\ IsFiniteSet(faults')
           /\ Cardinality(faults') <= MaxFaults
           /\ faults' = faults \cup {kind}
  <1>1. IsFiniteSet(faults) /\ Cardinality(faults) \in Nat
    BY FS_CardinalityType DEF TypeInv
  <1>2. kind \notin faults /\ faults' = faults \cup {kind}
    BY DEF Fault
  <1>3. IsFiniteSet(faults') /\ Cardinality(faults') = Cardinality(faults) + 1
    BY <1>1, <1>2, FS_AddElement
  <1>4. Cardinality(faults) < MaxFaults /\ kind \in Faults
    BY DEF Fault
  <1>5. QED
    BY <1>1, <1>2, <1>3, <1>4, RelaysAssumption DEF TypeInv, TypeOK

LEMMA FaultsType ==
    ASSUME TypeInv, UNCHANGED faults \/ \E kind : Fault(kind)
    PROVE  /\ faults' \subseteq Faults /\ IsFiniteSet(faults')
           /\ Cardinality(faults') <= MaxFaults
  BY FaultType DEF TypeInv, TypeOK

LEMMA UpToMinType ==
    ASSUME TypeOK, NEW kwh \in Nat
    PROVE  UpToMin(kwh) \in 0 .. dev.minDay
  BY DeviceFields DEF UpToMin

LEMMA TargetType ==
    ASSUME TypeOK, NEW kwh
    PROVE  Target(kwh) \in 0 .. N
  <1>1. N \in Nat /\ StageW \in Nat \ {0} /\ avail \in Int
    BY RelaysAssumption DEF TypeOK
  <1>2. Count(relay) \in Nat /\ Count(seen) \in Nat
    BY <1>1, CountType
  <1>3. Gross \in Int
    BY <1>1, <1>2 DEF Gross, Surplus
  <1>4. PICK q \in Int : q = Gross \div StageW
    BY <1>1, <1>3
  <1>5. Supported(Gross) \in 0 .. N
    BY <1>1, <1>4 DEF Supported, Within
  <1>6. QED
    BY <1>1, <1>5 DEF Target

\* The plan: one command per stage between those that are on and those that are wanted.
LEMMA StagesType ==
    ASSUME TypeOK, NEW kwh
    PROVE  Stages(kwh) \in Seq(Commands) /\ Len(Stages(kwh)) <= N
  <1> DEFINE have == Count(seen)
             want == Target(kwh)
  <1>1. have \in 0 .. N /\ want \in 0 .. N /\ N \in Nat
    BY CountType, TargetType, RelaysAssumption
  <1> HIDE DEF have, want
  <1>2. CASE want > have
    <2> DEFINE n == want - have
               q == [j \in 1 .. n |-> [relay |-> have + j, kind |-> "on"]]
    <2>1. n \in Nat /\ n <= N
      BY <1>1, <1>2
    <2>2. \A j \in 1 .. n : [relay |-> have + j, kind |-> "on"] \in Commands
      BY <1>1, <1>2 DEF Commands, Relays, Kinds
    <2>3. q \in [1 .. n -> Commands]
      BY <2>2
    <2>4. Stages(kwh) = q
      BY <1>2 DEF Stages, have, want
    <2> HIDE DEF n, q
    <2>5. q \in Seq(Commands) /\ Len(q) = n
      BY <2>1, <2>3, SeqDef
    <2>6. QED
      BY <2>1, <2>4, <2>5
  <1>3. CASE ~(want > have)
    <2> DEFINE n == have - want
               q == [j \in 1 .. n |-> [relay |-> want + j, kind |-> "off"]]
    <2>1. n \in Nat /\ n <= N
      BY <1>1, <1>3
    <2>2. \A j \in 1 .. n : [relay |-> want + j, kind |-> "off"] \in Commands
      BY <1>1, <1>3 DEF Commands, Relays, Kinds
    <2>3. q \in [1 .. n -> Commands]
      BY <2>2
    <2>4. Stages(kwh) = q
      BY <1>3 DEF Stages, have, want
    <2> HIDE DEF n, q
    <2>5. q \in Seq(Commands) /\ Len(q) = n
      BY <2>1, <2>3, SeqDef
    <2>6. QED
      BY <2>1, <2>4, <2>5
  <1>4. QED
    BY <1>2, <1>3

LEMMA PairType == Pair \in Seq(Commands) /\ Len(Pair) <= N
  <1> DEFINE command(i) == [relay |-> i, kind |-> OnIf(SgReady[i])]
             q == [i \in 1 .. 2 |-> command(i)]
  <1>1. \A i \in 1 .. 2 : command(i) \in Commands
    BY RelaysAssumption DEF Commands, Relays, Kinds, OnIf
  <1>2. Pair = q
    BY DEF Pair
  <1> HIDE DEF command
  <1>3. q \in [1 .. 2 -> Commands]
    BY <1>1
  <1>4. \A n \in Nat : \A p \in [1 .. n -> Commands] : p \in Seq(Commands) /\ Len(p) = n
    BY SeqDef
  <1> HIDE DEF q
  <1>5. q \in Seq(Commands) /\ Len(q) = 2
    BY <1>3, <1>4
  <1>6. QED
    BY <1>2, <1>5, RelaysAssumption

LEMMA InitType == Init => TypeInv
  <1> SUFFICES ASSUME Init PROVE TypeInv
    OBVIOUS
  <1>1. dev \in Devices /\ dev.minDay \in Nat /\ avail \in Avail /\ expensive \in BOOLEAN
    BY RelaysAssumption DEF Init
  <1>2. relay \in [Relays -> Kinds] /\ seen \in [Relays -> Kinds]
    BY DEF Init, Kinds
  <1>3. cache \in [Relays -> [key : Kinds \cup {"none"}, age : 0 .. Keepalive]]
    BY RelaysAssumption DEF Init, NotCached
  <1>4. queue \in Seq(Commands) /\ Len(queue) <= N
    BY RelaysAssumption DEF Init
  <1>5. /\ tod \in 0 .. DayLength - 1 /\ today \in 0 .. dev.minDay
        /\ delivered \in 0 .. dev.minDay
        /\ file \in [today : 0 .. dev.minDay, counted : BOOLEAN] /\ unsaved \in 0 .. SaveEvery
    BY <1>1, RelaysAssumption DEF Init
  <1>6. IsFiniteSet(faults) /\ faults \subseteq Faults /\ Cardinality(faults) <= MaxFaults
    BY FS_EmptySet, RelaysAssumption DEF Init
  <1>7. ran \in BOOLEAN /\ counted \in BOOLEAN
    BY DEF Init
  <1>8. QED
    BY <1>1, <1>2, <1>3, <1>4, <1>5, <1>6, <1>7 DEF TypeInv, TypeOK, Commands

LEMMA CycleType == TypeInv /\ Cycle => TypeInv'
  <1> SUFFICES ASSUME TypeInv, Cycle PROVE TypeInv'
    OBVIOUS
  <1> DEFINE kwh == UpToMin((IF counted THEN today ELSE 0) + Count(seen))
  <1>1. TypeOK /\ UNCHANGED <<inputs, relay, seen, cache, tod, delivered>> /\ ran' = TRUE
    BY DEF Cycle, TypeInv
  <1>2. kwh \in 0 .. dev.minDay
    <2>1. (IF counted THEN today ELSE 0) + Count(seen) \in Nat
      BY <1>1, CountType, DeviceFields, RelaysAssumption DEF TypeOK
    <2>2. QED
      BY <1>1, <2>1, UpToMinType
  <1>3. queue' \in Seq(Commands) /\ Len(queue') <= N
    BY <1>1, StagesType, PairType DEF Cycle
  <1>4. today' \in 0 .. dev.minDay /\ counted' \in BOOLEAN
    BY <1>1, <1>2 DEF Cycle, TypeOK
  <1>5. file' \in [today : 0 .. dev.minDay, counted : BOOLEAN] /\ unsaved' \in 0 .. SaveEvery
    BY <1>1, RelaysAssumption DEF Cycle, Persist, saved, TypeOK
  <1>6. /\ faults' \subseteq Faults /\ IsFiniteSet(faults')
        /\ Cardinality(faults') <= MaxFaults
    BY FaultsType DEF Cycle
  <1>7. QED
    BY <1>1, <1>3, <1>4, <1>5, <1>6 DEF TypeInv, TypeOK, Commands, inputs

\* The head of the queue, when it is taken off.
LEMMA HeadType ==
    ASSUME TypeOK, queue # <<>>
    PROVE  /\ Head(queue) \in Commands
           /\ Tail(queue) \in Seq(Commands) /\ Len(Tail(queue)) = Len(queue) - 1
           /\ Len(queue) \in Nat \ {0}
           /\ Head(queue) = queue[1]
           /\ \A k \in 1 .. Len(queue) - 1 : Tail(queue)[k] = queue[k + 1]
  <1>1. queue \in Seq(Commands)
    BY DEF TypeOK, Commands
  <1>2. QED
    BY <1>1, HeadTailProperties

LEMMA SendType == TypeInv /\ (Suppress \/ Send \/ Fail) => TypeInv'
  <1> SUFFICES ASSUME TypeInv, Suppress \/ Send \/ Fail PROVE TypeInv'
    OBVIOUS
  <1>1. /\ TypeOK /\ queue # <<>> /\ queue' = Tail(queue)
        /\ UNCHANGED <<inputs, seen, ran, tod, energy, saved>>
    BY DEF TypeInv, Suppress, Send, Fail, Advance
  <1>2. Head(queue).relay \in Relays /\ Head(queue).kind \in Kinds
    BY <1>1, HeadType DEF Commands
  <1>3. queue' \in Seq(Commands) /\ Len(queue') <= N
    BY <1>1, HeadType, RelaysAssumption DEF TypeOK
  <1>4. relay' \in [Relays -> Kinds]
    BY <1>1, <1>2 DEF Suppress, Send, Fail, TypeOK
  <1>5. cache' \in [Relays -> [key : Kinds \cup {"none"}, age : 0 .. Keepalive]]
    <2>1. [key |-> Head(queue).kind, age |-> 0] \in [key : Kinds \cup {"none"}, age : 0 .. Keepalive]
      BY <1>2, RelaysAssumption
    <2>2. QED
      BY <1>1, <1>2, <2>1 DEF Suppress, Send, Fail, TypeOK
  <1>6. /\ faults' \subseteq Faults /\ IsFiniteSet(faults')
        /\ Cardinality(faults') <= MaxFaults
    BY FaultsType DEF Suppress, Send, Fail
  <1>7. QED
    BY <1>1, <1>3, <1>4, <1>5, <1>6 DEF TypeInv, TypeOK, Commands, inputs, energy, saved

LEMMA RestartType == TypeInv /\ Restart => TypeInv'
  <1> SUFFICES ASSUME TypeInv, Restart PROVE TypeInv'
    OBVIOUS
  <1>1. TypeOK /\ UNCHANGED <<inputs, relay, ran, tod, delivered, file>> /\ seen' = relay
    BY DEF TypeInv, Restart
  <1>2. queue' \in Seq(Commands) /\ Len(queue') <= N
    BY RelaysAssumption DEF Restart
  <1>3. cache' \in [Relays -> [key : Kinds \cup {"none"}, age : 0 .. Keepalive]]
    BY RelaysAssumption DEF Restart, NotCached
  <1>4. today' \in 0 .. dev.minDay /\ counted' \in BOOLEAN /\ unsaved' \in 0 .. SaveEvery
    BY <1>1, RelaysAssumption DEF Restart, TypeOK
  <1>5. /\ faults' \subseteq Faults /\ IsFiniteSet(faults')
        /\ Cardinality(faults') <= MaxFaults
    BY FaultsType DEF Restart
  <1>6. QED
    BY <1>1, <1>2, <1>3, <1>4, <1>5 DEF TypeInv, TypeOK, Commands, inputs

\* The end of a tick, with its values typed.
LEMMA TickType == TypeInv /\ Tick => TypeInv'
  <1> SUFFICES ASSUME TypeInv, Tick PROVE TypeInv'
    OBVIOUS
  <1> DEFINE older(c) == [c EXCEPT !.age = Older(@, Keepalive)]
             entry == [key : Kinds \cup {"none"}, age : 0 .. Keepalive]
  <1>1. TypeOK /\ UNCHANGED <<inputs, relay, seen, queue, today, faults>> /\ ran' = FALSE
    BY DEF TypeInv, Tick
  <1>2. tod' \in 0 .. DayLength - 1
    BY <1>1, RelaysAssumption DEF Tick, TypeOK
  <1>3. delivered' \in 0 .. dev.minDay
    <2>1. delivered + Count(relay) \in Nat
      BY <1>1, CountType, DeviceFields, RelaysAssumption DEF TypeOK
    <2>2. QED
      BY <1>1, <2>1, UpToMinType, DeviceFields DEF Tick
  <1>4. file' \in [today : 0 .. dev.minDay, counted : BOOLEAN] /\ counted' \in BOOLEAN
    BY <1>1 DEF Tick, TypeOK
  <1>5. unsaved' \in 0 .. SaveEvery
    <2>1. unsaved \in 0 .. SaveEvery /\ SaveEvery \in Nat
      BY <1>1, RelaysAssumption DEF TypeOK
    <2>2. unsaved' = Older(unsaved, SaveEvery)
      BY DEF Tick
    <2> HIDE DEF older, entry
    <2>3. QED
      BY <2>1, <2>2 DEF Older
  <1>6. cache' \in [Relays -> entry]
    <2>1. \A c \in entry : older(c) \in entry
      BY RelaysAssumption DEF Older
    <2>2. cache' = [i \in Relays |-> older(cache[i])] /\ cache \in [Relays -> entry]
      BY <1>1 DEF Tick, TypeOK
    <2> HIDE DEF older, entry
    <2>3. QED
      BY <2>1, <2>2
  <1>7. QED
    BY <1>1, <1>2, <1>3, <1>4, <1>5, <1>6 DEF TypeInv, TypeOK, inputs

LEMMA OthersType ==
    ASSUME TypeInv,
           \/ Skip \/ AvailChanges \/ TariffChanges
           \/ \E i \in Relays : Echo(i) \/ Manual(i)
           \/ UNCHANGED vars
    PROVE  TypeInv'
  <1>1. /\ TypeOK
        /\ UNCHANGED <<dev, queue, cache, tod, energy, saved>>
    BY DEF TypeInv, Skip, AvailChanges, TariffChanges, Echo, Manual, vars, inputs
  <1>2. avail' \in Avail /\ expensive' \in BOOLEAN /\ ran' \in BOOLEAN
    BY <1>1 DEF Skip, AvailChanges, TariffChanges, Echo, Manual, vars, inputs, TypeOK
  <1>3. relay' \in [Relays -> Kinds] /\ seen' \in [Relays -> Kinds]
    BY <1>1 DEF Skip, AvailChanges, TariffChanges, Echo, Manual, vars, inputs, TypeOK,
                OnIf, Kinds
  <1>4. /\ faults' \subseteq Faults /\ IsFiniteSet(faults')
        /\ Cardinality(faults') <= MaxFaults
    BY FaultsType DEF Skip, AvailChanges, TariffChanges, Echo, Manual, vars, inputs
  <1>5. QED
    BY <1>1, <1>2, <1>3, <1>4 DEF TypeInv, TypeOK, energy, saved

LEMMA StepType == TypeInv /\ [Next]_vars => TypeInv'
  BY CycleType, SendType, RestartType, TickType, OthersType DEF Next

\* The type invariant of the relays, the plan, the cache and the energy records.
THEOREM TypeCorrect == Spec => []TypeOK
  <1>1. Init => TypeInv
    BY InitType
  <1>2. TypeInv /\ [Next]_vars => TypeInv'
    BY StepType
  <1>3. TypeInv => TypeOK
    BY DEF TypeInv
  <1>4. QED
    BY <1>1, <1>2, <1>3, PTL DEF Spec

-----------------------------------------------------------------------------
(***************************************************************************)
(* The rows of stages.  While every call is answered and every state is    *)
(* known in time, there is a number m such that the stages up to m are on, *)
(* and the others off, once the queue is sent: each stage is already as it *)
(* should be, or every command for it that waits says so.  A cached        *)
(* command is the state of its relay, hence a suppressed one changes none. *)
(***************************************************************************)
Calm == dev.kind = "rod" /\ faults \subseteq {"skipped", "restart"}

InQueue(i) == \E k \in 1 .. Len(queue) : queue[k].relay = i

Settles(m) ==
    \A i \in Relays :
        /\ \A k \in 1 .. Len(queue) : queue[k].relay = i => queue[k].kind = OnIf(i <= m)
        /\ InQueue(i) \/ relay[i] = OnIf(i <= m)

CacheTrue == \A i \in Relays : cache[i].key \in {"none", relay[i]}

Rows == Calm => CacheTrue /\ \E m \in 0 .. N : Settles(m)

\* Nothing is sent before the cycle has run.
Idle == ran \/ queue = <<>>

LEMMA CalmStep ==
    ASSUME TypeInv, [Next]_vars, Calm'
    PROVE  /\ Calm
           /\ ~Fail /\ \A i \in Relays : ~Manual(i)
           /\ Cycle => seen = relay
           /\ Restart => queue = <<>>
           /\ Send => cache' = [cache EXCEPT ![Head(queue).relay] =
                                  [key |-> Head(queue).kind, age |-> 0]]
  <1>1. dev' = dev
    BY DEF Next, vars, inputs, Cycle, Skip, Suppress, Send, Fail, Tick, Echo, Manual, Restart,
           AvailChanges, TariffChanges
  <1>2. \A kind : Fault(kind) => kind \in {"skipped", "restart"} /\ faults \subseteq faults'
    BY DEF Fault, Calm
  <1>3. faults \subseteq faults'
    BY <1>2 DEF Next, vars, Cycle, Skip, Suppress, Send, Fail, Tick, Echo, Manual, Restart,
           AvailChanges, TariffChanges
  <1>4. Calm
    BY <1>1, <1>3 DEF Calm
  <1>5. ~Fail /\ \A i \in Relays : ~Manual(i)
    BY <1>2 DEF Fail, Manual
  <1>6. (Cycle => seen = relay) /\ (Restart => queue = <<>>)
    BY <1>2 DEF Cycle, Restart
  <1>7. Send => cache' = [cache EXCEPT ![Head(queue).relay] =
                            [key |-> Head(queue).kind, age |-> 0]]
    BY <1>2 DEF Send
  <1>8. QED
    BY <1>4, <1>5, <1>6, <1>7

\* Taking the head off, its relay being as it says, leaves the rows where they go.
LEMMA SettlesAdvance ==
    ASSUME TypeInv, queue # <<>>, queue' = Tail(queue),
           NEW m \in 0 .. N, Settles(m),
           \A i \in Relays :
              relay'[i] = IF i = Head(queue).relay THEN Head(queue).kind ELSE relay[i]
    PROVE  Settles(m)'
  <1>1. /\ Len(queue) \in Nat \ {0} /\ Len(queue') = Len(queue) - 1
        /\ Head(queue) = queue[1]
        /\ \A k \in 1 .. Len(queue) - 1 : queue'[k] = queue[k + 1]
    BY HeadType DEF TypeInv
  <1> SUFFICES ASSUME NEW i \in Relays
               PROVE  /\ \A k \in 1 .. Len(queue') :
                            queue'[k].relay = i => queue'[k].kind = OnIf(i <= m)
                      /\ (\E k \in 1 .. Len(queue') : queue'[k].relay = i)
                         \/ relay'[i] = OnIf(i <= m)
    BY DEF Settles, InQueue
  <1>2. ASSUME NEW k \in 1 .. Len(queue'), queue'[k].relay = i
        PROVE  queue'[k].kind = OnIf(i <= m)
    <2>1. k + 1 \in 1 .. Len(queue) /\ queue'[k] = queue[k + 1]
      BY <1>1
    <2>2. QED
      BY <1>2, <2>1 DEF Settles
  <1>3. CASE i = Head(queue).relay
    <2>1. 1 \in 1 .. Len(queue) /\ queue[1].relay = i
      BY <1>1, <1>3
    <2>2. relay'[i] = OnIf(i <= m)
      BY <1>1, <1>3, <2>1 DEF Settles
    <2>3. QED
      BY <1>2, <2>2
  <1>4. CASE i # Head(queue).relay /\ InQueue(i)
    <2>1. PICK k \in 1 .. Len(queue) : queue[k].relay = i
      BY <1>4 DEF InQueue
    <2>2. k # 1
      BY <1>1, <1>4, <2>1
    <2>3. k - 1 \in 1 .. Len(queue') /\ queue'[k - 1] = queue[k]
      BY <1>1, <2>2
    <2>4. QED
      BY <1>2, <2>1, <2>3
  <1>5. CASE i # Head(queue).relay /\ ~InQueue(i)
    BY <1>2, <1>5 DEF Settles
  <1>6. QED
    BY <1>3, <1>4, <1>5

\* No step but the next plan changes where the rows go.
LEMMA SettlesStays ==
    ASSUME TypeInv, [Next]_vars, ~Cycle, Calm', CacheTrue, NEW m \in 0 .. N, Settles(m)
    PROVE  Settles(m)' /\ CacheTrue'
  <1>1. TypeOK
    BY DEF TypeInv
  <1>2. ASSUME UNCHANGED <<queue, relay>>, \A i \in Relays : cache'[i].key \in {"none", cache[i].key}
        PROVE  Settles(m)' /\ CacheTrue'
    BY <1>2 DEF Settles, InQueue, CacheTrue
  <1>3. CASE Suppress
    <2>1. Head(queue) \in Commands
      BY <1>1, <1>3, HeadType DEF Suppress
    <2>2. /\ queue # <<>> /\ queue' = Tail(queue)
          /\ UNCHANGED <<relay, cache>> /\ cache[Head(queue).relay].key = Head(queue).kind
      BY <1>3 DEF Suppress, Advance, Suppressed
    <2>3. relay[Head(queue).relay] = Head(queue).kind
      BY <2>1, <2>2 DEF CacheTrue, Commands, Kinds
    <2>4. Settles(m)'
      BY <2>2, <2>3, SettlesAdvance
    <2>5. QED
      BY <2>2, <2>4 DEF CacheTrue
  <1>4. CASE Send
    <2>1. Head(queue) \in Commands /\ Head(queue).relay \in Relays
      BY <1>1, <1>4, HeadType DEF Send, Commands
    <2>2. /\ queue # <<>> /\ queue' = Tail(queue)
          /\ relay' = [relay EXCEPT ![Head(queue).relay] = Head(queue).kind]
          /\ cache' = [cache EXCEPT ![Head(queue).relay] = [key |-> Head(queue).kind, age |-> 0]]
      BY <1>4, CalmStep DEF Send, Advance
    <2>3. \A i \in Relays :
             relay'[i] = IF i = Head(queue).relay THEN Head(queue).kind ELSE relay[i]
      BY <1>1, <2>1, <2>2 DEF TypeOK
    <2>4. Settles(m)'
      BY <2>2, <2>3, SettlesAdvance
    <2>5. CacheTrue'
      BY <1>1, <2>1, <2>2, <2>3 DEF CacheTrue, TypeOK
    <2>6. QED
      BY <2>4, <2>5
  <1>5. CASE Restart
    <2>1. UNCHANGED <<queue, relay>> /\ \A i \in Relays : cache'[i].key = "none"
      BY <1>5, CalmStep DEF Restart, NotCached
    <2>2. QED
      BY <1>2, <2>1
  <1>6. CASE Tick
    <2> DEFINE older(c) == [c EXCEPT !.age = Older(@, Keepalive)]
               entry == [key : Kinds \cup {"none"}, age : 0 .. Keepalive]
    <2>1. UNCHANGED <<queue, relay>> /\ cache' = [i \in Relays |-> older(cache[i])]
      BY <1>6 DEF Tick
    <2>2. \A c \in entry : older(c).key = c.key
      OBVIOUS
    <2>3. cache \in [Relays -> entry]
      BY <1>1 DEF TypeOK
    <2> HIDE DEF older, entry
    <2>4. \A i \in Relays : cache'[i].key = cache[i].key
      BY <2>1, <2>2, <2>3
    <2>5. QED
      BY <1>2, <2>1, <2>4
  <1>7. CASE Skip \/ AvailChanges \/ TariffChanges \/ (\E i \in Relays : Echo(i)) \/ UNCHANGED vars
    <2>1. UNCHANGED <<queue, relay, cache>>
      BY <1>7 DEF Skip, AvailChanges, TariffChanges, Echo, vars
    <2>2. QED
      BY <1>2, <2>1
  <1>8. QED
    BY <1>3, <1>4, <1>5, <1>6, <1>7, CalmStep DEF Next

\* The plan of a rod whose lowest stages are on: the lowest Target stages will be.
LEMMA PlanSettles ==
    ASSUME TypeInv, Idle, Rows, Cycle, Calm'
    PROVE  \E kwh : \E w \in 0 .. N :
              /\ dev.kind = "rod"
              /\ kwh = UpToMin((IF counted THEN today ELSE 0) + Count(relay))
              /\ today' = kwh /\ counted' = TRUE
              /\ w = Target(kwh) /\ Settles(w)' /\ CacheTrue'
  <1>1. TypeOK /\ Calm /\ seen = relay /\ queue = <<>> /\ UNCHANGED <<relay, cache>>
    BY CalmStep DEF TypeInv, Cycle, Next
  <1>2. PICK m \in 0 .. N : Settles(m)
    BY <1>1 DEF Rows
  <1>3. \A i \in Relays : relay[i] = OnIf(i <= m)
    BY <1>1, <1>2 DEF Settles, InQueue
  <1>4. Count(seen) = m
    BY <1>1, <1>3, CountLowest
  <1> DEFINE kwh == UpToMin((IF counted THEN today ELSE 0) + Count(relay))
  <1>5. /\ dev.kind = "rod" /\ today' = kwh /\ counted' = TRUE /\ queue' = Stages(kwh)
    BY <1>1 DEF Cycle, Calm
  <1>6. PICK w \in 0 .. N : w = Target(kwh)
    BY <1>1, TargetType
  <1>7. queue' = IF w > m THEN [j \in 1 .. w - m |-> [relay |-> m + j, kind |-> "on"]]
                          ELSE [j \in 1 .. m - w |-> [relay |-> w + j, kind |-> "off"]]
    BY <1>4, <1>5, <1>6 DEF Stages
  <1>8. CacheTrue'
    BY <1>1 DEF Rows, CacheTrue
  <1>9. Settles(w)'
    <2> SUFFICES ASSUME NEW i \in Relays
                 PROVE  /\ \A k \in 1 .. Len(queue') :
                              queue'[k].relay = i => queue'[k].kind = OnIf(i <= w)
                        /\ (\E k \in 1 .. Len(queue') : queue'[k].relay = i)
                           \/ relay'[i] = OnIf(i <= w)
      BY DEF Settles, InQueue
    <2>1. N \in Nat /\ i \in 1 .. N /\ m \in 0 .. N /\ w \in 0 .. N /\ relay'[i] = OnIf(i <= m)
      BY <1>1, <1>3, <1>6, RelaysAssumption DEF Relays
    <2>2. CASE w > m
      <3>1. /\ Len(queue') = w - m
            /\ \A k \in 1 .. w - m : queue'[k].relay = m + k /\ queue'[k].kind = "on"
        BY <1>7, <2>1, <2>2
      <3>2. CASE m < i /\ i <= w
        <4>1. i - m \in 1 .. w - m /\ queue'[i - m].relay = i
          BY <2>1, <3>1, <3>2
        <4>2. QED
          BY <3>1, <3>2, <4>1 DEF OnIf
      <3>3. CASE ~(m < i /\ i <= w)
        <4>1. \A k \in 1 .. w - m : queue'[k].relay # i
          BY <2>1, <3>1, <3>3
        <4>2. OnIf(i <= m) = OnIf(i <= w)
          BY <2>1, <2>2, <3>3 DEF OnIf
        <4>3. QED
          BY <2>1, <3>1, <4>1, <4>2
      <3>4. QED
        BY <3>2, <3>3
    <2>3. CASE ~(w > m)
      <3>1. /\ Len(queue') = m - w
            /\ \A k \in 1 .. m - w : queue'[k].relay = w + k /\ queue'[k].kind = "off"
        BY <1>7, <2>1, <2>3
      <3>2. CASE w < i /\ i <= m
        <4>1. i - w \in 1 .. m - w /\ queue'[i - w].relay = i
          BY <2>1, <3>1, <3>2
        <4>2. ~(i <= w)
          BY <2>1, <3>2
        <4>3. QED
          BY <3>1, <4>1, <4>2 DEF OnIf
      <3>3. CASE ~(w < i /\ i <= m)
        <4>1. \A k \in 1 .. m - w : queue'[k].relay # i
          BY <2>1, <3>1, <3>3
        <4>2. OnIf(i <= m) = OnIf(i <= w)
          BY <2>1, <2>3, <3>3 DEF OnIf
        <4>3. QED
          BY <2>1, <3>1, <4>1, <4>2
      <3>4. QED
        BY <3>2, <3>3
    <2>4. QED
      BY <2>2, <2>3
  <1>10. QED
    BY <1>5, <1>6, <1>8, <1>9

LEMMA IdleStep == TypeInv /\ Idle /\ [Next]_vars => Idle'
  <1>1. ASSUME TypeOK, queue = <<>> PROVE ~Suppress /\ ~Send /\ ~Fail
    BY <1>1 DEF Suppress, Send, Fail
  <1>2. QED
    BY <1>1 DEF TypeInv, Idle, Next, vars, Cycle, Skip, Suppress, Send, Fail, Tick, Echo, Manual,
                Restart, AvailChanges, TariffChanges

LEMMA RowsStep == TypeInv /\ Idle /\ Rows /\ [Next]_vars => Rows'
  <1> SUFFICES ASSUME TypeInv, Idle, Rows, [Next]_vars, Calm'
               PROVE  CacheTrue' /\ \E m \in 0 .. N : Settles(m)'
    BY DEF Rows
  <1>1. Calm
    BY CalmStep
  <1>2. CASE Cycle
    BY <1>2, PlanSettles
  <1>3. CASE ~Cycle
    <2>1. PICK m \in 0 .. N : Settles(m)
      BY <1>1 DEF Rows
    <2>2. QED
      BY <1>1, <1>3, <2>1, SettlesStays DEF Rows
  <1>4. QED
    BY <1>2, <1>3

LEMMA RowsInit == Init => Rows /\ Idle
  <1> SUFFICES ASSUME Init PROVE CacheTrue /\ Settles(0) /\ Idle
    BY RelaysAssumption DEF Rows
  <1>1. CacheTrue
    BY DEF Init, CacheTrue, NotCached
  <1>2. Settles(0)
    BY DEF Init, Settles, InQueue, OnIf, Relays
  <1>3. QED
    BY <1>1, <1>2 DEF Idle, Init

\* plan_stages fills bottom-up: between two cycles no stage is on above one that is
\* off, for any number of stages, any surplus, minimum and deadline, whatever the
\* cache suppresses and however often cycles are skipped or the process restarts.
THEOREM StagesBottomUp == Spec => []BottomUp
  <1>1. Init => TypeInv /\ Idle /\ Rows
    BY InitType, RowsInit
  <1>2. TypeInv /\ Idle /\ Rows /\ [Next]_vars => (TypeInv /\ Idle /\ Rows)'
    BY StepType, IdleStep, RowsStep
  <1>3. Rows => BottomUp
    <2> SUFFICES ASSUME Calm, queue = <<>>, CacheTrue,
                        NEW m \in 0 .. N, Settles(m),
                        NEW i \in Relays, relay[i] = "on", NEW j \in 1 .. i
                 PROVE  relay[j] = "on"
      BY DEF Rows, BottomUp, Calm
    <2>1. \A k \in Relays : relay[k] = OnIf(k <= m)
      BY DEF Settles, InQueue
    <2>2. i <= m /\ j <= m /\ j \in Relays
      BY <2>1, RelaysAssumption DEF OnIf, Relays
    <2>3. QED
      BY <2>1, <2>2 DEF OnIf
  <1>4. QED
    BY <1>1, <1>2, <1>3, PTL DEF Spec

-----------------------------------------------------------------------------
(***************************************************************************)
(* The daily minimum.  What the controller has counted is at most a tick   *)
(* of all stages ahead of what the rod has really taken: it counts a cycle *)
(* when it starts, and midnight starts with the cycle of the day before.   *)
(* Hence, as long as it does not force the stages, what has been delivered *)
(* lags the minimum by less than the time left can deliver and a tick; and *)
(* once it forces them the rows go to N, so the lag grows no more.         *)
(***************************************************************************)
Unhurt == dev.kind = "rod" /\ faults \subseteq {"restart"}

Known == IF counted THEN today ELSE 0
Left == DayLength - tod

FileBehind == file.counted => counted /\ file.today <= today
KnownBefore == ~ran => Known + Count(relay) <= delivered + N \/ delivered = dev.minDay
KnownAfter == ran => Known <= delivered + N
InReach == delivered > dev.minDay - 2 * N - Left * N
Secured == ran => Settles(N) \/ delivered > dev.minDay - N - Left * N

Books == Unhurt => FileBehind /\ KnownBefore /\ KnownAfter /\ InReach /\ Secured

\* The minimum fits in a day of all stages (and the two ticks of the bound), and a latest
\* start is a minute of the day.
Feasible ==
    \A d \in Devices : d.kind = "rod" =>
        /\ d.minDay < (DayLength + 2) * N
        /\ d.deadline = NoDeadline \/ d.deadline <= DayLength

LEMMA TimesMonotone ==
    ASSUME NEW a \in Int, NEW b \in Int, NEW c \in Nat, a <= b
    PROVE  a * c <= b * c
  OBVIOUS

LEMMA TimesLess ==
    ASSUME NEW a \in Int, NEW c \in Nat
    PROVE  (a - 1) * c = a * c - c /\ a * c \in Int
  OBVIOUS

LEMMA LeftType ==
    ASSUME TypeOK
    PROVE  Left \in 1 .. DayLength /\ Left * N \in Int
  <1>1. Left \in 1 .. DayLength
    BY RelaysAssumption DEF TypeOK, Left
  <1>2. QED
    BY <1>1, RelaysAssumption

\* While the stages are not forced, the deficit fits in the time that is left.
LEMMA NotForced ==
    ASSUME TypeOK, Feasible, dev.kind = "rod", NEW kwh \in 0 .. dev.minDay, ~Forced(kwh)
    PROVE  kwh = dev.minDay \/ dev.minDay - kwh < Left * N
  <1> DEFINE within == Within(0, End - tod, DayLength)
  <1>1. dev.minDay \in Nat /\ dev.deadline \in Int /\ tod \in 0 .. DayLength - 1
        /\ N \in Nat /\ DayLength \in Nat
    BY DeviceFields, RelaysAssumption DEF TypeOK
  <1>2. End \in Int /\ End <= DayLength
    BY <1>1 DEF End, Feasible, TypeOK
  <1>3. within \in 0 .. Left
    BY <1>1, <1>2 DEF Within, Left
  <1>4. kwh < dev.minDay => ~(within * N <= dev.minDay - kwh)
    BY DEF Forced
  <1> HIDE DEF within
  <1>5. Left \in Int /\ Left * N \in Int
    BY LeftType
  <1>6. within * N <= Left * N /\ within * N \in Int
    BY <1>1, <1>3, <1>5, TimesMonotone
  <1>7. QED
    BY <1>1, <1>4, <1>5, <1>6

LEMMA UnhurtStep ==
    ASSUME TypeInv, [Next]_vars, Unhurt'
    PROVE  Unhurt /\ Calm' /\ Calm /\ ~Skip
  <1>1. Calm' /\ Calm
    BY CalmStep DEF Unhurt, Calm
  <1>2. dev' = dev
    BY DEF Next, vars, inputs, Cycle, Skip, Suppress, Send, Fail, Tick, Echo, Manual, Restart,
           AvailChanges, TariffChanges
  <1>3. \A kind : Fault(kind) => kind = "restart" /\ faults \subseteq faults'
    BY DEF Fault, Unhurt
  <1>4. faults \subseteq faults'
    BY <1>3 DEF Next, vars, Cycle, Skip, Suppress, Send, Fail, Tick, Echo, Manual, Restart,
           AvailChanges, TariffChanges
  <1>5. ~Skip
    BY <1>3 DEF Skip
  <1>6. QED
    BY <1>1, <1>2, <1>4, <1>5 DEF Unhurt

LEMMA BooksInit == Feasible /\ Init => Books
  <1> SUFFICES ASSUME Feasible, Init, Unhurt
               PROVE  FileBehind /\ KnownBefore /\ KnownAfter /\ InReach /\ Secured
    BY DEF Books
  <1>1. dev \in Devices /\ dev.minDay \in Nat /\ DayLength \in Nat /\ N \in Nat
    BY RelaysAssumption DEF Init
  <1>2. dev.minDay < (DayLength + 2) * N
    BY <1>1 DEF Feasible, Unhurt
  <1>3. Count(relay) \in 0 .. N
    BY CountType
  <1>4. FileBehind /\ KnownBefore /\ KnownAfter /\ Secured
    BY <1>1, <1>3 DEF Init, FileBehind, KnownBefore, KnownAfter, Secured, Known
  <1>5. InReach
    BY <1>1, <1>2 DEF Init, InReach, Left
  <1>6. QED
    BY <1>4, <1>5

LEMMA BooksCycle ==
    ASSUME Feasible, TypeInv, Idle, Rows, Books, Cycle, Unhurt, Calm'
    PROVE  (FileBehind /\ KnownBefore /\ KnownAfter /\ InReach /\ Secured)'
  <1>1. /\ TypeOK /\ ~ran /\ ran' = TRUE
        /\ UNCHANGED <<dev, tod, delivered>>
    BY DEF TypeInv, Cycle, inputs
  <1>2. PICK kwh : \E w \in 0 .. N :
              /\ dev.kind = "rod"
              /\ kwh = UpToMin((IF counted THEN today ELSE 0) + Count(relay))
              /\ today' = kwh /\ counted' = TRUE
              /\ w = Target(kwh) /\ Settles(w)' /\ CacheTrue'
    BY PlanSettles
  <1>3. /\ dev.minDay \in Nat /\ N \in Nat /\ Count(relay) \in 0 .. N
        /\ today \in 0 .. dev.minDay /\ delivered \in 0 .. dev.minDay
        /\ Known \in 0 .. dev.minDay /\ Left * N \in Int
    BY <1>1, DeviceFields, CountType, LeftType, RelaysAssumption DEF TypeOK, Known
  <1>4. kwh = UpToMin(Known + Count(relay)) /\ kwh \in 0 .. dev.minDay
    BY <1>1, <1>2, <1>3, UpToMinType DEF Known
  <1>5. kwh >= Known /\ kwh <= Known + Count(relay)
    BY <1>3, <1>4 DEF UpToMin
  <1>6. kwh <= delivered + N
    BY <1>1, <1>3, <1>4, <1>5 DEF Books, KnownBefore
  <1>7. KnownAfter' /\ KnownBefore'
    BY <1>1, <1>2, <1>6 DEF KnownAfter, KnownBefore, Known
  <1>8. FileBehind'
    <2>1. CASE file' = file
      <3>1. file.counted => counted /\ file.today <= today
        BY DEF Books, FileBehind
      <3>2. file.today \in Int
        BY <1>1 DEF TypeOK
      <3>3. file.counted => file.today <= kwh
        BY <1>3, <1>4, <1>5, <3>1, <3>2 DEF Known
      <3>4. QED
        BY <1>2, <2>1, <3>3 DEF FileBehind
    <2>2. CASE file' = [today |-> today, counted |-> counted]
      <3>1. counted => today <= kwh
        BY <1>5 DEF Known
      <3>2. QED
        BY <1>2, <2>2, <3>1 DEF FileBehind
    <2>3. QED
      BY <2>1, <2>2 DEF Cycle, Persist, saved
  <1>9. InReach'
    BY <1>1 DEF Books, InReach, Left
  <1>10. Secured'
    <2>1. CASE Target(kwh) = N
      BY <1>2, <2>1 DEF Secured
    <2>2. CASE Target(kwh) # N
      <3>1. ~Forced(kwh)
        BY <2>2 DEF Target
      <3>2. kwh = dev.minDay \/ dev.minDay - kwh < Left * N
        BY <1>1, <1>2, <1>4, <3>1, NotForced
      <3>3. Left * N >= 1
        BY <1>1, <1>3, LeftType, RelaysAssumption
      <3>4. delivered > dev.minDay - N - Left * N
        BY <1>3, <1>4, <1>6, <3>2, <3>3
      <3>5. QED
        BY <1>1, <3>4 DEF Secured, Left
    <2>3. QED
      BY <2>1, <2>2
  <1>11. QED
    BY <1>7, <1>8, <1>9, <1>10

\* All stages are on when the rows go to N and nothing is left to send.
LEMMA AllOn ==
    ASSUME queue = <<>>, Settles(N)
    PROVE  Count(relay) = N
  <1>1. N \in 0 .. N
    BY RelaysAssumption
  <1>2. \A i \in Relays : relay[i] = OnIf(i <= N)
    BY DEF Settles, InQueue
  <1>3. QED
    BY <1>1, <1>2, CountLowest

\* The state at the end of a tick: what is missing fits in the ticks after this one.
LEMMA TickReach ==
    ASSUME TypeOK, Books, Unhurt, ran, queue = <<>>
    PROVE  delivered + Count(relay) > dev.minDay - N - Left * N
  <1>1. /\ N \in Nat /\ Count(relay) \in 0 .. N /\ delivered \in Int /\ dev.minDay \in Int
        /\ Left * N \in Int
    BY DeviceFields, CountType, LeftType, RelaysAssumption DEF TypeOK
  <1>2. CASE Settles(N)
    <2>1. Count(relay) = N
      BY <1>2, AllOn
    <2>2. delivered > dev.minDay - 2 * N - Left * N
      BY DEF Books, InReach
    <2>3. QED
      BY <1>1, <2>1, <2>2
  <1>3. CASE ~Settles(N)
    BY <1>1, <1>3 DEF Books, Secured
  <1>4. QED
    BY <1>2, <1>3

LEMMA NextMinute ==
    ASSUME NEW t \in 0 .. DayLength - 1
    PROVE  IF t = DayLength - 1 THEN (t + 1) % DayLength = 0
                               ELSE (t + 1) % DayLength = t + 1
  <1>1. DayLength \in Nat \ {0}
    BY RelaysAssumption
  <1>2. QED
    BY <1>1

LEMMA BooksTick ==
    ASSUME Feasible, TypeInv, Books, Tick, Unhurt
    PROVE  (FileBehind /\ KnownBefore /\ KnownAfter /\ InReach /\ Secured)'
  <1>1. /\ TypeOK /\ ran /\ queue = <<>> /\ ran' = FALSE
        /\ UNCHANGED <<dev, relay, queue, today>>
    BY DEF TypeInv, Tick, inputs
  <1>2. /\ dev.minDay \in Nat /\ N \in Nat /\ N >= 2 /\ Count(relay) \in 0 .. N
        /\ today \in 0 .. dev.minDay /\ delivered \in 0 .. dev.minDay
        /\ DayLength \in Nat \ {0} /\ tod \in 0 .. DayLength - 1 /\ Left * N \in Int
        /\ counted \in BOOLEAN
    BY <1>1, DeviceFields, CountType, LeftType, RelaysAssumption DEF TypeOK
  <1>3. Count(relay)' = Count(relay)
    BY <1>1 DEF Count
  <1>4. counted' = (counted /\ tod' # 0) /\ file' = [file EXCEPT !.counted = @ /\ tod' # 0]
    BY DEF Tick
  <1>5. FileBehind'
    <2>1. file.counted => counted /\ file.today <= today
      BY DEF Books, FileBehind
    <2>2. file'.today = file.today /\ (file'.counted => file.counted /\ tod' # 0)
      BY <1>1, <1>4 DEF TypeOK
    <2>3. QED
      BY <1>1, <1>4, <2>1, <2>2 DEF FileBehind
  <1>6. KnownAfter' /\ Secured'
    BY <1>1 DEF KnownAfter, Secured
  <1>7. CASE tod' = 0
    <2>1. delivered' = 0 /\ Known' = 0 /\ Left' = DayLength
      <3>1. delivered' = 0
        BY <1>7 DEF Tick
      <3>2. ~counted'
        BY <1>4, <1>7
      <3>3. QED
        BY <1>2, <1>7, <3>1, <3>2 DEF Known, Left
    <2>2. KnownBefore'
      BY <1>1, <1>2, <1>3, <2>1 DEF KnownBefore
    <2>3. dev.minDay < (DayLength + 2) * N
      BY <1>1 DEF Feasible, Unhurt, TypeOK
    <2>4. InReach'
      BY <1>1, <1>2, <2>1, <2>3 DEF InReach
    <2>5. QED
      BY <1>5, <1>6, <2>2, <2>4
  <1>8. CASE tod' # 0
    <2>1. tod' = tod + 1
      BY <1>2, <1>8, NextMinute DEF Tick
    <2>2. Left' = Left - 1 /\ Left \in Int
      BY <1>2, <2>1 DEF Left
    <2>3. PICK total \in Nat : total = delivered + Count(relay)
      BY <1>2
    <2>4. delivered' = UpToMin(total) /\ Known' = Known
      BY <1>1, <1>4, <1>8, <2>3 DEF Tick, Known
    <2>5. PICK d \in Nat : d = delivered' /\ (d = dev.minDay \/ d = total)
                           /\ (d < total => d = dev.minDay)
      BY <1>2, <2>4 DEF UpToMin
    <2>6. Known <= delivered + N /\ Known \in Nat
      BY <1>1, <1>2 DEF Books, KnownAfter, Known
    <2>7. d = dev.minDay \/ Known + Count(relay) <= d + N
      BY <1>2, <2>3, <2>5, <2>6
    <2>8. KnownBefore'
      BY <1>1, <1>3, <2>4, <2>5, <2>7 DEF KnownBefore
    <2>9. total > dev.minDay - N - Left * N
      BY <1>1, <2>3, TickReach
    <2>10. PICK p \in Int : p = Left * N /\ (Left - 1) * N = p - N
      BY <1>2, <2>2, TimesLess
    <2>11. Left \in 1 .. DayLength /\ p >= 0
      BY <1>1, <1>2, <2>10, LeftType
    <2>12. Left - 1 >= 0 /\ p - N >= 0
      BY <1>2, <2>10, <2>11
    <2>13. d > dev.minDay - 2 * N - (p - N)
      BY <1>2, <2>5, <2>9, <2>10, <2>12
    <2>14. InReach'
      BY <1>1, <2>2, <2>5, <2>10, <2>13 DEF InReach
    <2>15. QED
      BY <1>5, <1>6, <2>8, <2>14
  <1>9. QED
    BY <1>7, <1>8

LEMMA BooksRestart ==
    ASSUME TypeInv, Books, Restart, Unhurt, queue = <<>>
    PROVE  (FileBehind /\ KnownBefore /\ KnownAfter /\ InReach /\ Secured)'
  <1>1. /\ TypeOK /\ UNCHANGED <<dev, relay, ran, tod, delivered, file>> /\ queue' = queue
        /\ today' = file.today /\ counted' = file.counted
    BY DEF TypeInv, Restart, inputs
  <1>2. /\ dev.minDay \in Nat /\ N \in Nat /\ Count(relay) \in 0 .. N
        /\ today \in 0 .. dev.minDay /\ delivered \in 0 .. dev.minDay
        /\ file.today \in 0 .. dev.minDay
    BY <1>1, DeviceFields, CountType, RelaysAssumption DEF TypeOK
  <1>3. PICK k \in Nat : k = Known' /\ k <= Known /\ Known \in Nat
    BY <1>1, <1>2 DEF Known, Books, FileBehind
  <1>4. Count(relay)' = Count(relay)
    BY <1>1 DEF Count
  <1>5. FileBehind' /\ InReach'
    BY <1>1, <1>2 DEF FileBehind, Books, InReach, Left
  <1>6. KnownBefore' /\ KnownAfter'
    BY <1>1, <1>2, <1>3, <1>4 DEF Books, KnownBefore, KnownAfter
  <1>7. Secured'
    BY <1>1 DEF Books, Secured, Settles, InQueue, Left
  <1>8. QED
    BY <1>5, <1>6, <1>7

LEMMA BooksStep ==
    ASSUME Feasible, TypeInv, Idle, Rows, Books, [Next]_vars
    PROVE  Books'
  <1> SUFFICES ASSUME Unhurt'
               PROVE  (FileBehind /\ KnownBefore /\ KnownAfter /\ InReach /\ Secured)'
    BY DEF Books
  <1>1. Unhurt /\ Calm' /\ Calm /\ ~Skip /\ ~Fail /\ (\A i \in Relays : ~Manual(i))
        /\ (Restart => queue = <<>>)
    BY UnhurtStep, CalmStep
  <1>2. CASE Cycle
    BY <1>1, <1>2, BooksCycle
  <1>3. CASE Tick
    BY <1>1, <1>3, BooksTick
  <1>4. CASE Restart
    BY <1>1, <1>4, BooksRestart
  <1>5. CASE ~Cycle /\ ~Tick /\ ~Restart
    <2>1. /\ UNCHANGED <<dev, tod, today, counted, delivered, file, ran>>
          /\ ~ran => relay' = relay
      BY <1>1, <1>5 DEF Next, vars, inputs, energy, saved, Idle, Suppress, Send, Echo,
                        AvailChanges, TariffChanges
    <2>2. Settles(N) => Settles(N)'
      <3>1. N \in 0 .. N /\ CacheTrue
        BY <1>1, RelaysAssumption DEF Rows
      <3>2. QED
        BY <1>1, <1>5, <3>1, SettlesStays
    <2>3. ~ran => Count(relay)' = Count(relay)
      BY <2>1 DEF Count
    <2>4. FileBehind' /\ InReach' /\ KnownAfter'
      BY <1>1, <2>1 DEF Books, FileBehind, InReach, KnownAfter, Known, Left
    <2>5. KnownBefore'
      BY <1>1, <2>1, <2>3 DEF Books, KnownBefore, Known
    <2>6. Secured'
      BY <1>1, <2>1, <2>2 DEF Books, Secured, Left
    <2>7. QED
      BY <2>4, <2>5, <2>6
  <1>6. QED
    BY <1>2, <1>3, <1>4, <1>5

\* staged_force delivers the daily minimum, less at most two ticks of all stages, for any
\* rod, surplus, day and latest start, however often the process restarts between two
\* cycles and whatever it has not saved.
THEOREM MinimumDelivered ==
    ASSUME Feasible
    PROVE  Spec => DailyMinimum
  <1> DEFINE Inv == TypeInv /\ Idle /\ Rows /\ Books
  <1>1. Init => Inv
    BY InitType, RowsInit, BooksInit
  <1>2. Inv /\ [Next]_vars => Inv'
    BY StepType, IdleStep, RowsStep, BooksStep
  <1>3. Inv /\ [Next]_vars =>
          [(dev.kind = "rod" /\ faults \subseteq {"restart"} /\ tod' < tod) =>
              delivered + Count(relay) > dev.minDay - 2 * N]_vars
    <2> SUFFICES ASSUME Inv, Next, Unhurt, tod' < tod
                 PROVE  delivered + Count(relay) > dev.minDay - 2 * N
      BY DEF Unhurt
    <2>1. tod \in 0 .. DayLength - 1 /\ DayLength \in Nat \ {0}
      BY RelaysAssumption DEF TypeInv, TypeOK
    <2>2. Tick /\ tod = DayLength - 1
      <3>1. Tick
        BY <2>1 DEF Next, Cycle, Skip, Suppress, Send, Fail, Echo, Manual, Restart,
                    AvailChanges, TariffChanges
      <3>2. QED
        BY <2>1, <3>1, NextMinute DEF Tick
    <2>3. Left = 1
      BY <2>1, <2>2 DEF Left
    <2>4. delivered + Count(relay) > dev.minDay - N - Left * N
      BY <2>2, TickReach DEF Tick, TypeInv
    <2>5. dev.minDay \in Int /\ delivered \in Int /\ Count(relay) \in Int /\ N \in Nat
      BY DeviceFields, CountType, RelaysAssumption DEF TypeInv, TypeOK
    <2>6. QED
      BY <2>3, <2>4, <2>5
  <1>4. QED
    BY <1>1, <1>2, <1>3, PTL DEF Spec, DailyMinimum

=============================================================================
