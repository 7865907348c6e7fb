----------------------------- MODULE CommandSet -----------------------------
(***************************************************************************)
(* The Process phase of one control cycle: control_core.CommandSet filled  *)
(* by the controller chain (control_core.Cycle.run, the same loop inside   *)
(* ControlEngine.run_cycle) and resolved into one write per entity.        *)
(*                                                                         *)
(* Each controller contributes switch commands (first writer per entity    *)
(* wins) and numeric constraints [lo, hi] with an optional target.  The    *)
(* resolver walks an entity's constraints from the highest priority down,  *)
(* narrows the device interval by every bound that leaves it non-empty,    *)
(* takes the first target it meets, clamps it and rounds to hundredths.    *)
(* Its loop body is one action per iteration, so that what the loop        *)
(* computes is an invariant.                                               *)
(***************************************************************************)
EXTENDS Integers, Sequences

CONSTANTS
    Entities,        \* entity ids the controllers may command
    Switched,        \* those that are given switch commands
    Chain,           \* number of controllers; the last one is RuleController
    Values,          \* finite numbers that appear as bounds or targets
    Bands,           \* the [lo, hi, target] a controller passes to constrain
    Inf,             \* math.inf: larger than any of them
    Grain,           \* fine units per hundredth (what round(x, 2) keeps)
    RulePriorities,  \* the "priority" a user's rule may give itself
    Device,          \* Device[e] = [lo, hi]: the actuator's hard limits
    MaxConstraints   \* bound: constraints collected in one cycle

Targets == {{}} \cup {{v} : v \in Values}     \* {} stands for None
Bounds == Values \cup {-Inf, Inf}

ASSUME SwitchedAssumption == Switched \subseteq Entities
ASSUME ChainAssumption == Chain \in Nat \ {0}
ASSUME GrainAssumption == Grain \in Nat \ {0}
ASSUME ValuesAssumption ==
    /\ Inf \in Int
    /\ Values \subseteq Int
    /\ \A v \in Values : -Inf < v /\ v < Inf
ASSUME BandsAssumption == Bands \subseteq [lo : Bounds, hi : Bounds, target : Targets]
ASSUME RulesAssumption == RulePriorities \subseteq Int
\* devices.actuator_bounds: 0.0 to the smaller of max_w and the entity's max
ASSUME DeviceAssumption ==
    /\ Device \in [Entities -> [lo : Int, hi : Int]]
    /\ \A e \in Entities : Device[e].lo <= Device[e].hi

VARIABLES
    phase,             \* "process", then "resolve"
    at,                \* the controller now running, 1 .. Chain, Chain + 1 after
    current_priority,  \* CommandSet.current_priority
    switches,          \* CommandSet._switches
    constraints,       \* CommandSet._constraints
    res,               \* the loop variables lo, hi, target, src per entity
    out                \* the resolved command per entity

vars == <<phase, at, current_priority, switches, constraints, res, out>>

Priorities == 1 .. Chain \cup RulePriorities

Constraint == [entity : Entities, lo : Bounds, hi : Bounds, target : Targets,
               priority : Priorities, source : 1 .. Chain]
SwitchCommand == [kind : {"none", "on", "off"}, source : 0 .. Chain]
Command == [kind : {"none", "on", "off", "set", "pending"}, value : Int,
            source : 0 .. Chain]
Resolution == [lo : Int, hi : Int, target : Targets, source : 0 .. Chain,
               left : SUBSET Nat]

NoSwitch == [kind |-> "none", source |-> 0]
Pending == [kind |-> "pending", value |-> 0, source |-> 0]

Larger(a, b) == IF a >= b THEN a ELSE b
Smaller(a, b) == IF a <= b THEN a ELSE b

\* round(x, 2).  A tie falls on either side: the float just below or above it.
Round2(v) == {r \in (v - Grain) .. (v + Grain) :
                /\ r % Grain = 0
                /\ 2 * (r - v) <= Grain
                /\ 2 * (v - r) <= Grain}

\* sorted(..., key = (-priority, index)): constraint i comes before j.
Before(i, j) ==
    \/ constraints[i].priority > constraints[j].priority
    \/ /\ constraints[i].priority = constraints[j].priority
       /\ i < j

Of(e) == {i \in DOMAIN constraints : constraints[i].entity = e}

Holds(i, v) == constraints[i].lo <= v /\ v <= constraints[i].hi

Fits(e, v) == Device[e].lo <= v /\ v <= Device[e].hi

-----------------------------------------------------------------------------
Init ==
    /\ phase = "process"
    /\ at = 1
    /\ current_priority = Chain
    /\ switches = [e \in Entities |-> NoSwitch]
    /\ constraints = <<>>
    /\ res = [e \in Entities |->
                [lo |-> Device[e].lo, hi |-> Device[e].hi, target |-> {},
                 source |-> 0, left |-> {}]]
    /\ out = [e \in Entities |-> Pending]

Running == phase = "process" /\ at <= Chain

\* cmds.add of a switch command: first writer wins, add returns False otherwise
AddSwitch(e, kind) ==
    /\ Running
    /\ switches[e].kind = "none"
    /\ switches' = [switches EXCEPT ![e] = [kind |-> kind, source |-> at]]
    /\ UNCHANGED <<phase, at, current_priority, constraints, res, out>>

\* cmds.constrain; cmds.add of a "set" command is the case without a bound
Constrain(e, lo, hi, target) ==
    /\ Running
    /\ Len(constraints) < MaxConstraints
    /\ constraints' = Append(constraints,
           [entity |-> e, lo |-> lo, hi |-> hi, target |-> target,
            priority |-> current_priority, source |-> at])
    /\ UNCHANGED <<phase, at, current_priority, switches, res, out>>

AddTarget(e, v) == Constrain(e, -Inf, Inf, {v})

\* RuleController: a rule that fires runs its actions under its own priority,
\* and "finally" the controller's own priority is back.
StartRule(p) ==
    /\ Running /\ at = Chain
    /\ current_priority' = p
    /\ UNCHANGED <<phase, at, switches, constraints, res, out>>

EndRule ==
    /\ Running /\ at = Chain /\ current_priority # 1
    /\ current_priority' = 1
    /\ UNCHANGED <<phase, at, switches, constraints, res, out>>

\* The chain moves on: the controller is done, was not due this cycle, or
\* raised in the middle (what it had added stays).
NextController ==
    /\ Running
    /\ at' = at + 1
    /\ current_priority' = IF at < Chain THEN Chain - at ELSE 1
    /\ UNCHANGED <<phase, switches, constraints, res, out>>

-----------------------------------------------------------------------------
\* faulty: every entity resolved from all constraints
StartResolveAll ==
    /\ phase = "process" /\ at = Chain + 1
    /\ phase' = "resolve"
    /\ res' = [e \in Entities |->
                 [lo |-> Device[e].lo, hi |-> Device[e].hi, target |-> {},
                  source |-> 0, left |-> DOMAIN constraints]]
    /\ UNCHANGED <<at, current_priority, switches, constraints, out>>

\* _resolve: the loop starts from the device interval
StartResolve ==
    /\ phase = "process" /\ at = Chain + 1
    /\ phase' = "resolve"
    /\ res' = [e \in Entities |->
                 [lo |-> Device[e].lo, hi |-> Device[e].hi, target |-> {},
                  source |-> 0, left |-> Of(e)]]
    /\ UNCHANGED <<at, current_priority, switches, constraints, out>>

\* faulty: a bound that contradicts the interval takes the others' place
NarrowAnyway(r, c) ==
    [r EXCEPT !.lo = Larger(r.lo, c.lo), !.hi = Smaller(r.hi, c.hi)]
\* one iteration: narrow if the interval stays non-empty, else drop the bound
Narrow(r, c) ==
    LET nlo == Larger(r.lo, c.lo)
        nhi == Smaller(r.hi, c.hi)
    IN  IF nlo <= nhi THEN [r EXCEPT !.lo = nlo, !.hi = nhi] ELSE r

\* faulty: the last target wins
TakeLastTarget(r, c) ==
    IF c.target # {} THEN [r EXCEPT !.target = c.target, !.source = c.source] ELSE r
TakeTarget(r, c) ==
    IF r.target = {} /\ c.target # {}
    THEN [r EXCEPT !.target = c.target, !.source = c.source]
    ELSE r

ResolveNext(e, i) ==
    /\ phase = "resolve"
    /\ i \in res[e].left
    /\ \A j \in res[e].left \ {i} : Before(i, j)
    /\ res' = [res EXCEPT ![e] =
                 [TakeTarget(Narrow(res[e], constraints[i]), constraints[i])
                    EXCEPT !.left = res[e].left \ {i}]]
    /\ UNCHANGED <<phase, at, current_priority, switches, constraints, out>>

Clamp(v, lo, hi) == Smaller(Larger(v, lo), hi)

\* the loop is over: a target is clamped, rounded and written; without one the
\* bounds alone write nothing and a switch command stays what it was
Write(e) ==
    /\ phase = "resolve"
    /\ out[e] = Pending
    /\ res[e].left = {}
    /\ \/ /\ res[e].target = {}
          /\ out' = [out EXCEPT ![e] =
               [kind |-> switches[e].kind, value |-> 0, source |-> switches[e].source]]
       \/ \E t \in res[e].target : \E v \in Round2(Clamp(t, res[e].lo, res[e].hi)) :
            out' = [out EXCEPT ![e] =
               [kind |-> "set", value |-> v, source |-> res[e].source]]
    /\ UNCHANGED <<phase, at, current_priority, switches, constraints, res>>

Process ==
    \/ \E e \in Switched : \E kind \in {"on", "off"} : AddSwitch(e, kind)
    \/ \E e \in Entities : \E v \in Values : AddTarget(e, v)
    \/ \E e \in Entities : \E b \in Bands : Constrain(e, b.lo, b.hi, b.target)
    \/ \E p \in RulePriorities : StartRule(p)
    \/ EndRule
    \/ NextController

Resolve ==
    \/ StartResolve
    \/ \E e \in Entities : \E i \in res[e].left : ResolveNext(e, i)
    \/ \E e \in Entities : Write(e)

\* all entities resolved: the writes go to apply_commands
Finished ==
    /\ \A e \in Entities : out[e] # Pending
    /\ UNCHANGED vars

Next == Process \/ Resolve \/ Finished

Spec == Init /\ [][Next]_vars

-----------------------------------------------------------------------------
\* Types of the command set, the loop variables and the resolved commands.
TypeOK ==
    /\ phase \in {"process", "resolve"}
    /\ at \in 1 .. Chain + 1
    /\ current_priority \in Priorities
    /\ switches \in [Entities -> SwitchCommand]
    /\ constraints \in Seq(Constraint)
    /\ res \in [Entities -> Resolution]
    /\ \A e \in Entities : res[e].left \subseteq Of(e)
    /\ out \in [Entities -> Command]

\* Whatever the controllers and rules asked for, a numeric write is a rounded
\* value of the device's own interval: Device.actuator_bounds "so no controller
\* can drive a device past its limit".
WithinDevice ==
    \A e \in Entities : out[e].kind = "set" =>
        \E v \in Device[e].lo .. Device[e].hi : out[e].value \in Round2(v)

\* The guarantee EssReserveController relies on: a bound that is satisfiable
\* together with the device limits and every bound ranked above it is honoured
\* by the write, wherever the targets come from.
BoundsHonoured ==
    \A e \in Entities : \A i \in Of(e) :
        (/\ out[e].kind = "set"
         /\ \E w \in Bounds \cup {Device[e].lo} :
              /\ Fits(e, w)
              /\ \A j \in Of(e) : (j = i \/ Before(j, i)) => Holds(j, w))
        => \E v \in Device[e].lo .. Device[e].hi : Holds(i, v) /\ out[e].value \in Round2(v)

\* The write comes from the highest-ranked constraint that has a target, and
\* from no one else: strategies compose instead of the last one winning.
TargetOwner ==
    \A e \in Entities : out[e].kind = "set" =>
        \E i \in Of(e) :
            /\ constraints[i].target # {}
            /\ out[e].source = constraints[i].source
            /\ \A j \in Of(e) \ {i} : constraints[j].target # {} => Before(i, j)

\* "It only emits bounds, never targets, so it can never start an action":
\* an entity nobody gave a target is written by its switch command or not at all.
BoundsNeverStart ==
    \A e \in Entities :
        (out[e] # Pending /\ \A i \in Of(e) : constraints[i].target = {})
        => out[e].kind = switches[e].kind

\* Who owns a numeric entity so far: the first-ranked targeted constraint.
Leads(e, i) ==
    /\ i \in Of(e)
    /\ constraints[i].target # {}
    /\ \A j \in Of(e) \ {i} : constraints[j].target # {} => Before(i, j)

\* A later controller of the chain never takes an entity from an earlier one:
\* only a rule under a priority of its own may outrank the present owner.
OwnerIsStable ==
    [][\A e \in Entities : \A i \in Of(e) :
          (Leads(e, i) /\ current_priority <= constraints[i].priority) => Leads(e, i)']_vars
=============================================================================
