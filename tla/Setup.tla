-------------------------------- MODULE Setup --------------------------------
(***************************************************************************)
(* What the wizard configures and in which order it is controlled: the     *)
(* device list of energy_config.json with the ids the sanitiser gives, the *)
(* vehicles and the priorities of settings.json (Store.set_full_config,    *)
(* import_prefs, set_vehicles, strategy_devices, move_strategy_priority),  *)
(* and what of it a restart finds again.                                   *)
(*                                                                         *)
(* A device is the real thing, an id what the store knows it by.  The page *)
(* gives a device it adds a random id, modelled as the device itself;      *)
(* devices imported from the energy dashboard and vehicles get a number.   *)
(***************************************************************************)
EXTENDS Naturals, Sequences, FiniteSets, SequencesExt

CONSTANTS
    Loads,      \* devices the wizard can configure
    Imported,   \* those the energy dashboard knows, as a sequence
    Former,     \* those in the file of an older version, as a sequence
    Cars,       \* vehicles
    MaxFailures   \* bound: failed writes and restarts

Devices == Loads \cup Cars
Numbers == 1 .. Cardinality(Devices)
NoId == 0

ASSUME SetupAssumption ==
    /\ Loads \cap Cars = {} /\ IsFiniteSet(Devices)
    /\ \A known \in {Imported, Former} :
          known \in Seq(Loads) /\ \A i, j \in DOMAIN known : known[i] = known[j] => i = j
    /\ Devices \cap (Numbers \cup {NoId}) = {}
    /\ MaxFailures \in Nat

VARIABLES
    config,    \* _config: the instances in their order
    vehicles,  \* settings["vehicles"]
    loads,     \* settings["strategy_loads"][key]["priority"], 0 if none is stored
    disk,      \* the two files
    unsaved,   \* files whose last write failed
    away,      \* vehicles that are not connected
    failures

setupVars == <<config, vehicles, loads, disk, unsaved, away, failures>>

Keys == ({"load"} \X (Loads \cup Numbers)) \cup ({"vehicle"} \X Numbers)
NoPriority == 0
Instances == [id : Loads \cup Numbers, dev : Loads, control : BOOLEAN]
Vehicles == [id : Numbers, dev : Cars, bidirectional : BOOLEAN]
DevicesOf(doc) == {doc[i].dev : i \in DOMAIN doc}
Ids(doc) == {doc[i].id : i \in DOMAIN doc}

-----------------------------------------------------------------------------
(***************************************************************************)
(* Ids.                                                                    *)
(***************************************************************************)
\* _gen_id: the smallest number that is not used
FreeId(used) == CHOOSE n \in Numbers : n \notin used /\ 1 .. n - 1 \subseteq used

\* _sanitize_config: an id is kept unless it is missing or taken
WithId(out, inst) ==
    Append(out, [inst EXCEPT !.id = IF @ = NoId \/ @ \in Ids(out) THEN FreeId(Ids(out)) ELSE @])
\* faulty: the posted ids are taken as they are
Unchecked(doc) == doc
Sanitized(doc) == FoldLeft(WithId, <<>>, doc)

\* set_vehicles: all ids of the posted list are taken, also those further down
WithStamp(acc, v) ==
    LET id == IF v.id = NoId THEN FreeId(acc.used) ELSE v.id
    IN  [out |-> Append(acc.out, [v EXCEPT !.id = id]), used |-> acc.used \cup {id}]
Stamped(list) == FoldLeft(WithStamp, [out |-> <<>>, used |-> Ids(list) \ {NoId}], list).out

-----------------------------------------------------------------------------
(***************************************************************************)
(* The order of control.                                                   *)
(***************************************************************************)
\* Instances and vehicles in one list, by their position in it.
Positions == 1 .. Len(config) + Len(vehicles)
IsLoad(p) == p <= Len(config)
Vehicle(p) == vehicles[p - Len(config)]
KeyAt(p) == IF IsLoad(p) THEN <<"load", config[p].id>> ELSE <<"vehicle", Vehicle(p).id>>
DevAt(p) == IF IsLoad(p) THEN config[p].dev ELSE Vehicle(p).dev

\* controllable_devices: loads with an actuator, then present storage vehicles
Controllable ==
    {p \in Positions : IF IsLoad(p) THEN config[p].control
                       ELSE Vehicle(p).bidirectional /\ Vehicle(p).dev \notin away}

\* sortkey: stored priorities first, highest first, then the order of the list
Ahead(p, q) ==
    LET a == loads[KeyAt(p)]
        b == loads[KeyAt(q)]
    IN  a > b \/ (a = b /\ p < q)
Place(p) == 1 + Cardinality({q \in Controllable : Ahead(q, p)})

\* strategy_devices: the list a cycle controls and the page shows
Listed == [n \in 1 .. Cardinality(Controllable) |-> CHOOSE p \in Controllable : Place(p) = n]
Order == [n \in DOMAIN Listed |-> DevAt(Listed[n])]

\* _normalized_priorities: n at the top, 1 at the bottom, others as they were
Normalized ==
    LET keys == {KeyAt(p) : p \in Controllable}
        PlaceOf(k) == Place(CHOOSE p \in Controllable : KeyAt(p) = k)
    IN  [k \in Keys |-> IF k \in keys THEN Cardinality(Controllable) + 1 - PlaceOf(k) ELSE loads[k]]

-----------------------------------------------------------------------------
Unnumbered(known) ==
    [i \in DOMAIN known |-> [id |-> NoId, dev |-> known[i], control |-> FALSE]]
\* _prefill: instances of what the energy dashboard knows
Prefill == Unnumbered(Imported)
\* _migrate_config: instances of what an older version configured
Migrated == Unnumbered(Former)

\* an empty configuration, or one of an older version, which is not written back
SetupInit ==
    /\ vehicles = <<>> /\ loads = [k \in Keys |-> NoPriority]
    /\ disk \in [config : {<<>>, Migrated}, vehicles : {<<>>}, loads : {loads}]
    /\ config = Sanitized(disk.config)
    /\ unsaved = {} /\ away = {} /\ failures = 0

\* _save_config, _save_settings: the file is replaced as a whole, or not at all and
\* the error is only logged
SaveConfig ==
    \/ disk' = [disk EXCEPT !.config = config'] /\ unsaved' = unsaved \ {"config"}
       /\ UNCHANGED failures
    \/ failures < MaxFailures /\ failures' = failures + 1
       /\ unsaved' = unsaved \cup {"config"} /\ UNCHANGED disk
\* faulty: the priorities are forgotten
SaveVehicles ==
    /\ disk' = [disk EXCEPT !.vehicles = vehicles']
    /\ unsaved' = unsaved \ {"settings"} /\ UNCHANGED failures
SaveSettings ==
    \/ disk' = [disk EXCEPT !.vehicles = vehicles', !.loads = loads']
       /\ unsaved' = unsaved \ {"settings"} /\ UNCHANGED failures
    \/ failures < MaxFailures /\ failures' = failures + 1
       /\ unsaved' = unsaved \cup {"settings"} /\ UNCHANGED disk

\* POST /api/setup/config with the page's document
Post(doc) ==
    /\ config' = Sanitized(doc)
    /\ UNCHANGED <<vehicles, loads, away>>
    /\ SaveConfig

AddLoad(d) ==
    /\ d \notin DevicesOf(config)
    /\ Post(Append(config, [id |-> d, dev |-> d, control |-> FALSE]))
RemoveLoad(i) == Post(RemoveAt(config, i))
ChooseControl(i) == Post([config EXCEPT ![i].control = ~@])

\* import_prefs: fills a kind that is empty
ImportPrefs ==
    /\ config = <<>> /\ Prefill # <<>>
    /\ Post(Prefill)

\* POST /api/vehicles with the page's list
PostVehicles(list) ==
    /\ vehicles' = Stamped(list)
    /\ UNCHANGED <<config, loads, away>>
    /\ SaveSettings

AddVehicle(c) ==
    /\ c \notin DevicesOf(vehicles)
    /\ PostVehicles(Append(vehicles, [id |-> NoId, dev |-> c, bidirectional |-> FALSE]))
RemoveVehicle(i) == PostVehicles(RemoveAt(vehicles, i))
ChooseCapability(i) == PostVehicles([vehicles EXCEPT ![i].bidirectional = ~@])

\* a vehicle is plugged in or out
Drive(c) ==
    /\ away' = IF c \in away THEN away \ {c} ELSE away \cup {c}
    /\ UNCHANGED <<config, vehicles, loads, disk, unsaved, failures>>

\* every control cycle and every page that lists the devices
Normalize ==
    /\ Normalized # loads
    /\ loads' = Normalized
    /\ UNCHANGED <<config, vehicles, away>>
    /\ SaveSettings

\* faulty: neighbours are swapped without normalising first
SwappedAsStored(i, j) ==
    LET a == KeyAt(Listed[i])
        b == KeyAt(Listed[j])
    IN  [loads EXCEPT ![a] = loads[b], ![b] = loads[a]]
Swapped(i, j) ==
    LET new == Normalized
        a == KeyAt(Listed[i])
        b == KeyAt(Listed[j])
    IN  [new EXCEPT ![a] = new[b], ![b] = new[a]]

\* move_strategy_priority: one step, to the neighbour's place
Move(i, j) ==
    /\ j \in {i - 1, i + 1} \cap DOMAIN Listed
    /\ UNCHANGED <<config, vehicles, away>>
    /\ loads' = Swapped(i, j)
    /\ SaveSettings

\* the process ends and loads the files
Restart ==
    /\ failures < MaxFailures /\ failures' = failures + 1
    /\ config' = Sanitized(disk.config)
    /\ vehicles' = disk.vehicles
    /\ loads' = disk.loads
    /\ unsaved' = {}
    /\ UNCHANGED <<disk, away>>

SetupNext ==
    \/ \E d \in Loads : AddLoad(d)
    \/ \E i \in DOMAIN config : RemoveLoad(i) \/ ChooseControl(i)
    \/ ImportPrefs
    \/ \E c \in Cars : AddVehicle(c) \/ Drive(c)
    \/ \E i \in DOMAIN vehicles : RemoveVehicle(i) \/ ChooseCapability(i)
    \/ Normalize
    \/ \E i, j \in DOMAIN Listed : Move(i, j)
    \/ Restart

SetupSpec == SetupInit /\ [][SetupNext]_setupVars

-----------------------------------------------------------------------------
\* Types; ids and devices occur once in each document.
SetupTypeOK ==
    /\ config \in Seq(Instances) /\ vehicles \in Seq(Vehicles)
    /\ \A i, j \in DOMAIN config :
          config[i].id = config[j].id \/ config[i].dev = config[j].dev => i = j
    /\ \A i, j \in DOMAIN vehicles :
          vehicles[i].id = vehicles[j].id \/ vehicles[i].dev = vehicles[j].dev => i = j
    /\ loads \in [Keys -> 0 .. Cardinality(Devices)]
    /\ disk.config \in Seq(Instances) \cup {Migrated} /\ disk.vehicles \in Seq(Vehicles)
    /\ disk.loads \in [Keys -> 0 .. Cardinality(Devices)]
    /\ unsaved \subseteq {"config", "settings"}
    /\ away \subseteq Cars /\ failures \in 0 .. MaxFailures

SameOrder(before, after) ==
    \A i, j \in DOMAIN before : \A k, l \in DOMAIN after :
        i < j /\ before[i] = after[k] /\ before[j] = after[l] => k < l

\* Only the arrows change the order of two devices that stay on the list: not a device
\* that comes or goes, not the normalisation, not a restart.  An arrow swaps a device
\* with the neighbour it is shown next to, and nothing else, whatever was stored.
OrderStays ==
    [][ \A before \in {Order}, after \in {Order'} :
          /\ \A i, j \in DOMAIN before :
               Move(i, j) => after = [before EXCEPT ![i] = before[j], ![j] = before[i]]
          /\ \/ SameOrder(before, after)
             \/ Restart /\ unsaved # {}
             \/ \E i, j \in DOMAIN before : Move(i, j) ]_setupVars

\* A restart finds the devices under the ids they had, and the order they had, unless
\* a write failed: the priorities are stored under these ids.  That holds also for a file
\* of an older version, whose devices get their ids anew on each start.
RestartFindsAll ==
    unsaved = {} => Sanitized(disk.config) = config /\ disk.vehicles = vehicles /\ disk.loads = loads

=============================================================================
