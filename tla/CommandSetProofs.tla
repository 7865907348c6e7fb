-------------------------- MODULE CommandSetProofs --------------------------
(***************************************************************************)
(* What CommandSet._resolve guarantees for every set of entities, chain,   *)
(* device limits, rule priorities and number of constraints.               *)
(***************************************************************************)
EXTENDS CommandSet, TLAPS

LEMMA RoundedIsInt == \A v \in Int : Round2(v) \subseteq Int
  BY GrainAssumption DEF Round2

LEMMA NoneIsTarget == {} \in Targets
  BY DEF Targets

LEMMA PrioritiesAreInt == \A p \in Priorities : p \in Int
  BY RulesAssumption, ChainAssumption DEF Priorities

LEMMA BoundsAreInt == \A b \in Bounds : b \in Int
  BY ValuesAssumption DEF Bounds

-----------------------------------------------------------------------------
(***************************************************************************)
(* Types.                                                                  *)
(***************************************************************************)

LEMMA InitType == Init => TypeOK
  <1> SUFFICES ASSUME Init PROVE TypeOK
    OBVIOUS
  <1>1. res \in [Entities -> Resolution]
    BY DeviceAssumption, NoneIsTarget, ChainAssumption DEF Init, Resolution
  <1>2. constraints \in Seq(Constraint)
    BY DEF Init
  <1>3. switches \in [Entities -> SwitchCommand] /\ out \in [Entities -> Command]
    BY ChainAssumption DEF Init, SwitchCommand, NoSwitch, Command, Pending
  <1>4. phase \in {"process", "resolve"} /\ at \in 1 .. Chain + 1 /\ current_priority \in Priorities
    BY ChainAssumption DEF Init, Priorities
  <1>5. \A e \in Entities : res[e].left \subseteq Of(e)
    BY DEF Init
  <1>6. QED
    BY <1>1, <1>2, <1>3, <1>4, <1>5 DEF TypeOK

\* The loop body keeps the types of the loop variables.
LEMMA LoopBodyType ==
    ASSUME NEW r \in Resolution, NEW c \in Constraint
    PROVE  TakeTarget(Narrow(r, c), c) \in Resolution
  <1>1. c.lo \in Int /\ c.hi \in Int /\ c.target \in Targets /\ c.source \in 0 .. Chain
    <2>1. c.lo \in Bounds /\ c.hi \in Bounds /\ c.target \in Targets /\ c.source \in 1 .. Chain
      BY DEF Constraint
    <2>2. QED
      BY <2>1, BoundsAreInt, ChainAssumption
  <1>2. Narrow(r, c) \in Resolution
    BY <1>1 DEF Narrow, Larger, Smaller, Resolution
  <1>3. QED
    BY <1>1, <1>2 DEF TakeTarget, Resolution

LEMMA StepType == TypeOK /\ [Next]_vars => TypeOK'
  <1> SUFFICES ASSUME TypeOK, [Next]_vars PROVE TypeOK'
    OBVIOUS
  <1> USE DEF TypeOK
  <1>1. ASSUME NEW e \in Switched, NEW kind \in {"on", "off"}, AddSwitch(e, kind)
        PROVE  TypeOK'
    <2>1. e \in Entities /\ at \in 0 .. Chain /\ current_priority \in Priorities
      BY <1>1, SwitchedAssumption, ChainAssumption DEF AddSwitch, Running
    <2>2. switches' \in [Entities -> SwitchCommand]
      BY <1>1, <2>1 DEF AddSwitch, SwitchCommand
    <2>3. QED
      BY <1>1, <2>2 DEF AddSwitch, Of
  <1>2. ASSUME NEW e \in Entities, NEW lo \in Bounds, NEW hi \in Bounds,
               NEW target \in Targets, Constrain(e, lo, hi, target)
        PROVE  TypeOK'
    <2>1. at \in 1 .. Chain
      BY <1>2, ChainAssumption DEF Constrain, Running
    <2>2. [entity |-> e, lo |-> lo, hi |-> hi, target |-> target,
           priority |-> current_priority, source |-> at] \in Constraint
      BY <2>1 DEF Constraint
    <2>3. constraints' \in Seq(Constraint)
      BY <1>2, <2>2 DEF Constrain
    <2>4. \A d \in Entities : Of(d) \subseteq Of(d)'
      BY <1>2, <2>2 DEF Constrain, Of
    <2>5. QED
      BY <1>2, <2>3, <2>4 DEF Constrain
  <1>3. ASSUME NEW e \in Entities, NEW v \in Values, AddTarget(e, v)
        PROVE  TypeOK'
    <2>1. Constrain(e, -Inf, Inf, {v}) /\ -Inf \in Bounds /\ Inf \in Bounds /\ {v} \in Targets
      BY <1>3 DEF AddTarget, Bounds, Targets
    <2>2. QED
      BY <2>1, <1>2
  <1>4. ASSUME NEW e \in Entities, NEW b \in Bands, Constrain(e, b.lo, b.hi, b.target)
        PROVE  TypeOK'
    <2>1. b.lo \in Bounds /\ b.hi \in Bounds /\ b.target \in Targets
      BY BandsAssumption
    <2>2. QED
      BY <2>1, <1>2, <1>4
  <1>5. ASSUME NEW p \in RulePriorities, StartRule(p)
        PROVE  TypeOK'
    BY <1>5 DEF StartRule, Priorities, Of
  <1>6. CASE EndRule
    BY <1>6, ChainAssumption DEF EndRule, Priorities, Of
  <1>7. CASE NextController
    BY <1>7, ChainAssumption DEF NextController, Running, Priorities, Of
  <1>8. CASE StartResolve
    <2>1. \A e \in Entities : Of(e) \in SUBSET Nat
      BY DEF Of
    <2>2. res' \in [Entities -> Resolution]
      BY <1>8, <2>1, DeviceAssumption, NoneIsTarget, ChainAssumption DEF StartResolve, Resolution
    <2>3. \A e \in Entities : (res[e].left \subseteq Of(e))'
      BY <1>8 DEF StartResolve, Of
    <2>4. QED
      BY <1>8, <2>2, <2>3 DEF StartResolve
  <1>9. ASSUME NEW e \in Entities, NEW i \in res[e].left, ResolveNext(e, i)
        PROVE  TypeOK'
    <2>1. res[e] \in Resolution /\ constraints[i] \in Constraint
      BY <1>9 DEF Of
    <2>2. TakeTarget(Narrow(res[e], constraints[i]), constraints[i]) \in Resolution
      BY <2>1, LoopBodyType
    <2>3. res' \in [Entities -> Resolution]
      BY <1>9, <2>1, <2>2 DEF ResolveNext, Resolution
    <2>4. \A d \in Entities : (res[d].left \subseteq Of(d))'
      BY <1>9, <2>1, <2>2 DEF ResolveNext, Resolution, Of
    <2>5. QED
      BY <1>9, <2>3, <2>4 DEF ResolveNext
  <1>10. ASSUME NEW e \in Entities, Write(e)
         PROVE  TypeOK'
    <2>1. res[e] \in Resolution /\ switches[e] \in SwitchCommand
      OBVIOUS
    <2>2. \A t \in res[e].target : Clamp(t, res[e].lo, res[e].hi) \in Int
      BY <2>1, ValuesAssumption DEF Resolution, Targets, Clamp, Larger, Smaller
    <2>3. [kind |-> switches[e].kind, value |-> 0, source |-> switches[e].source] \in Command
      BY <2>1 DEF SwitchCommand, Command
    <2>4. \A v \in Int : [kind |-> "set", value |-> v, source |-> res[e].source] \in Command
      BY <2>1 DEF Resolution, Command
    <2>5. out' \in [Entities -> Command]
      BY <1>10, <2>2, <2>3, <2>4, RoundedIsInt DEF Write
    <2>6. QED
      BY <1>10, <2>5 DEF Write, Of
  <1>11. CASE UNCHANGED vars
    BY <1>11 DEF vars, Of
  <1>12. CASE Finished
    BY <1>12, <1>11 DEF Finished
  <1>13. QED
    BY <1>1, <1>3, <1>4, <1>5, <1>6, <1>7, <1>8, <1>9, <1>10, <1>11, <1>12
       DEF Next, Process, Resolve

\* The command set, the loop variables and the commands keep their types.
THEOREM TypeCorrect == Spec => []TypeOK
  BY InitType, StepType, PTL DEF Spec

-----------------------------------------------------------------------------
(***************************************************************************)
(* The invariant of the resolver's loop.  Done(e) are the constraints the  *)
(* loop has been through: they are closed under rank, the interval holds   *)
(* every point that satisfies all of them, and it lies inside each one     *)
(* that could be honoured.                                                 *)
(***************************************************************************)

Done(e) == Of(e) \ res[e].left

\* Constraint i can be honoured next to the device and all that rank above it.
Feasible(e, i) ==
    \E v \in Int : /\ Fits(e, v)
                   /\ \A j \in Of(e) : (j = i \/ Before(j, i)) => Holds(j, v)

Inside(e) ==
    /\ Device[e].lo <= res[e].lo
    /\ res[e].lo <= res[e].hi
    /\ res[e].hi <= Device[e].hi

RankClosed(e) == \A i \in Done(e), j \in Of(e) : Before(j, i) => j \in Done(e)

Covers(e) ==
    \A v \in Int : (Fits(e, v) /\ \A j \in Done(e) : Holds(j, v))
                    => res[e].lo <= v /\ v <= res[e].hi

Honoured(e) ==
    \A i \in Done(e) : Feasible(e, i) =>
        constraints[i].lo <= res[e].lo /\ res[e].hi <= constraints[i].hi

Unowned(e) == res[e].target = {} => \A i \in Done(e) : constraints[i].target = {}

Owned(e) ==
    res[e].target # {} =>
        \E i \in Done(e) :
            /\ constraints[i].target = res[e].target
            /\ constraints[i].source = res[e].source
            /\ \A j \in Of(e) \ {i} : constraints[j].target # {} => Before(i, j)

LoopInv(e) == /\ Inside(e) /\ RankClosed(e) /\ Covers(e)
              /\ Honoured(e) /\ Unowned(e) /\ Owned(e)

\* A resolved command is what the finished loop says.
WriteInv(e) ==
    out[e] # Pending =>
        /\ phase = "resolve"
        /\ res[e].left = {}
        /\ \/ res[e].target = {} /\ out[e].kind = switches[e].kind
           \/ \E t \in res[e].target :
                /\ out[e].kind = "set"
                /\ out[e].value \in Round2(Clamp(t, res[e].lo, res[e].hi))
                /\ out[e].source = res[e].source

IInv ==
    /\ TypeOK
    /\ phase = "resolve" => \A e \in Entities : LoopInv(e)
    /\ \A e \in Entities : WriteInv(e)

-----------------------------------------------------------------------------
\* Rank is a strict total order on constraints.
LEMMA BeforeIsOrder ==
    ASSUME TypeOK
    PROVE  /\ \A i, j \in DOMAIN constraints : ~(Before(i, j) /\ Before(j, i))
           /\ \A i, j \in DOMAIN constraints : i = j \/ Before(i, j) \/ Before(j, i)
  <1>1. \A i \in DOMAIN constraints : constraints[i].priority \in Int
    <2>1. \A i \in DOMAIN constraints : constraints[i] \in Constraint
      BY DEF TypeOK
    <2>2. \A p \in Priorities : p \in Int
      BY PrioritiesAreInt
    <2>3. QED
      BY <2>1, <2>2 DEF Constraint
  <1>2. DOMAIN constraints \subseteq Int
    BY DEF TypeOK
  <1>3. QED
    BY <1>1, <1>2 DEF Before

\* The numeric facts about one entity's loop state.
LEMMA LoopTypes ==
    ASSUME TypeOK, NEW e \in Entities
    PROVE  /\ res[e].lo \in Int /\ res[e].hi \in Int
           /\ Device[e].lo \in Int /\ Device[e].hi \in Int
           /\ Device[e].lo <= Device[e].hi
           /\ \A i \in Of(e) : constraints[i].lo \in Int /\ constraints[i].hi \in Int
  <1>1. res[e] \in Resolution
    BY DEF TypeOK
  <1>2. \A i \in Of(e) : constraints[i] \in Constraint
    BY DEF TypeOK, Of
  <1>3. \A i \in Of(e) : constraints[i].lo \in Bounds /\ constraints[i].hi \in Bounds
    BY <1>2 DEF Constraint
  <1>4. QED
    BY <1>1, <1>3, BoundsAreInt, DeviceAssumption DEF Resolution

\* One iteration of the loop preserves its invariant.
LEMMA LoopStep ==
    ASSUME TypeOK, NEW e \in Entities, LoopInv(e), NEW i \in res[e].left, ResolveNext(e, i)
    PROVE  LoopInv(e)'
  <1> DEFINE r == res[e]
             c == constraints[i]
             n == Narrow(r, c)
  <1>1. i \in Of(e) /\ i \notin Done(e) /\ i \in DOMAIN constraints
    BY DEF TypeOK, Done, Of
  <1>2. \A j \in r.left \ {i} : Before(i, j)
    BY DEF ResolveNext
  <1>3. /\ r.lo \in Int /\ r.hi \in Int /\ c.lo \in Int /\ c.hi \in Int
        /\ Device[e].lo \in Int /\ Device[e].hi \in Int
    BY <1>1, LoopTypes
  <1>4. r \in Resolution /\ res'[e] = [TakeTarget(n, c) EXCEPT !.left = r.left \ {i}]
    BY DEF ResolveNext, TypeOK
  <1>5. n \in Resolution /\ n.target = r.target /\ n.source = r.source
    BY <1>3, <1>4 DEF Narrow, Larger, Smaller, Resolution
  <1>6. res'[e].lo = n.lo /\ res'[e].hi = n.hi /\ res'[e].left = r.left \ {i}
    BY <1>4, <1>5 DEF TakeTarget, Resolution
  <1>7. constraints' = constraints /\ Of(e)' = Of(e) /\ Done(e)' = Done(e) \cup {i}
    BY <1>1, <1>6 DEF ResolveNext, Of, Done
  \* every constraint ranked above i has been through the loop, and only those
  <1>8. \A j \in Of(e) : Before(j, i) => j \in Done(e)
    BY <1>1, <1>2, BeforeIsOrder DEF Done, Of
  <1>9. \A j \in Done(e) : Before(j, i)
    BY <1>1, BeforeIsOrder DEF LoopInv, RankClosed, Done, Of
  <1>10. \/ /\ n.lo = Larger(r.lo, c.lo) /\ n.hi = Smaller(r.hi, c.hi)
            /\ Larger(r.lo, c.lo) <= Smaller(r.hi, c.hi)
         \/ /\ n.lo = r.lo /\ n.hi = r.hi
            /\ ~(Larger(r.lo, c.lo) <= Smaller(r.hi, c.hi))
    BY <1>3, <1>4 DEF Narrow, Resolution
  <1>11. Inside(e)'
    BY <1>3, <1>6, <1>7, <1>10 DEF LoopInv, Inside, Larger, Smaller
  <1>12. RankClosed(e)'
    <2> SUFFICES ASSUME NEW k \in Done(e) \cup {i}, NEW j \in Of(e), Before(j, k)
                 PROVE  j \in Done(e) \cup {i}
      BY <1>7 DEF RankClosed, Before
    <2>1. CASE k = i
      BY <2>1, <1>8
    <2>2. CASE k \in Done(e)
      BY <2>2 DEF LoopInv, RankClosed
    <2>3. QED
      BY <2>1, <2>2
  <1>13. Covers(e)'
    <2> SUFFICES ASSUME NEW v \in Int, Fits(e, v), \A j \in Done(e) \cup {i} : Holds(j, v)
                 PROVE  n.lo <= v /\ v <= n.hi
      BY <1>6, <1>7 DEF Covers, Fits, Holds
    <2>1. r.lo <= v /\ v <= r.hi
      BY DEF LoopInv, Covers
    <2>2. c.lo <= v /\ v <= c.hi
      BY DEF Holds
    <2>3. QED
      BY <1>3, <1>10, <2>1, <2>2 DEF Larger, Smaller
  <1>14. Honoured(e)'
    <2> SUFFICES ASSUME NEW k \in Done(e) \cup {i}, Feasible(e, k)
                 PROVE  constraints[k].lo <= n.lo /\ n.hi <= constraints[k].hi
      BY <1>6, <1>7 DEF Honoured, Feasible, Fits, Before, Holds
    <2>1. CASE k = i
      <3>1. PICK v \in Int : Fits(e, v) /\ \A j \in Of(e) : (j = i \/ Before(j, i)) => Holds(j, v)
        BY <2>1 DEF Feasible
      <3>2. r.lo <= v /\ v <= r.hi
        BY <3>1, <1>9 DEF LoopInv, Covers, Done
      <3>3. c.lo <= v /\ v <= c.hi
        BY <3>1, <1>1 DEF Holds
      <3>4. Larger(r.lo, c.lo) <= Smaller(r.hi, c.hi)
        BY <1>3, <3>2, <3>3 DEF Larger, Smaller
      <3>5. QED
        BY <2>1, <1>3, <1>10, <3>4 DEF Larger, Smaller
    <2>2. CASE k \in Done(e)
      <3>1. constraints[k].lo <= r.lo /\ r.hi <= constraints[k].hi
        BY <2>2 DEF LoopInv, Honoured
      <3>2. constraints[k].lo \in Int /\ constraints[k].hi \in Int
        BY <2>2, LoopTypes DEF Done
      <3>3. QED
        BY <1>3, <1>10, <3>1, <3>2 DEF Larger, Smaller
    <2>3. QED
      BY <2>1, <2>2
  <1>15. CASE r.target # {}
    <2>1. res'[e].target = r.target /\ res'[e].source = r.source
      BY <1>15, <1>4, <1>5 DEF TakeTarget, Resolution
    <2>2. Unowned(e)'
      BY <1>15, <2>1 DEF Unowned
    <2>3. Owned(e)'
      BY <1>15, <1>7, <2>1 DEF LoopInv, Owned, Before
    <2>4. QED
      BY <1>11, <1>12, <1>13, <1>14, <2>2, <2>3 DEF LoopInv
  <1>16. CASE r.target = {} /\ c.target # {}
    <2>1. res'[e].target = c.target /\ res'[e].source = c.source
      BY <1>16, <1>4, <1>5 DEF TakeTarget, Resolution
    <2>2. Unowned(e)'
      BY <1>16, <2>1 DEF Unowned
    <2>3. \A j \in Of(e) \ {i} : c.target # {} /\ constraints[j].target # {} => Before(i, j)
      BY <1>16, <1>2 DEF LoopInv, Unowned, Done
    <2>4. Owned(e)'
      BY <1>1, <1>7, <1>16, <2>1, <2>3 DEF Owned, Before
    <2>5. QED
      BY <1>11, <1>12, <1>13, <1>14, <2>2, <2>4 DEF LoopInv
  <1>17. CASE r.target = {} /\ c.target = {}
    <2>1. res'[e].target = {}
      BY <1>17, <1>4, <1>5 DEF TakeTarget, Resolution
    <2>2. Unowned(e)'
      BY <1>7, <1>17, <2>1 DEF LoopInv, Unowned
    <2>3. Owned(e)'
      BY <2>1 DEF Owned
    <2>4. QED
      BY <1>11, <1>12, <1>13, <1>14, <2>2, <2>3 DEF LoopInv
  <1>18. QED
    BY <1>15, <1>16, <1>17

-----------------------------------------------------------------------------
LEMMA InitInv == Init => IInv
  BY InitType DEF Init, IInv, WriteInv, Pending

\* The loop is entered with nothing done and the device interval.
LEMMA LoopEntry ==
    ASSUME TypeOK, StartResolve, NEW e \in Entities
    PROVE  LoopInv(e)'
  <1>1. /\ res'[e].lo = Device[e].lo /\ res'[e].hi = Device[e].hi
        /\ res'[e].target = {} /\ res'[e].left = Of(e)
    BY DEF StartResolve
  <1>2. Done(e)' = {}
    BY <1>1 DEF Done, StartResolve, Of
  <1>3. Inside(e)'
    BY <1>1, DeviceAssumption DEF Inside
  <1>4. Covers(e)'
    BY <1>1 DEF Covers, Fits
  <1>5. RankClosed(e)' /\ Honoured(e)' /\ Unowned(e)' /\ Owned(e)'
    BY <1>1, <1>2 DEF RankClosed, Honoured, Unowned, Owned
  <1>6. QED
    BY <1>3, <1>4, <1>5 DEF LoopInv

\* A step that leaves the constraints and an entity's loop state alone.
LEMMA LoopFrame ==
    ASSUME NEW e \in Entities, LoopInv(e), constraints' = constraints, res'[e] = res[e]
    PROVE  LoopInv(e)'
  BY DEF LoopInv, Inside, RankClosed, Covers, Honoured, Unowned, Owned, Done, Of,
         Feasible, Fits, Holds, Before

LEMMA WriteFrame ==
    ASSUME NEW e \in Entities, WriteInv(e), phase' = phase, out'[e] = out[e],
           res'[e] = res[e], switches'[e] = switches[e]
    PROVE  WriteInv(e)'
  BY DEF WriteInv

LEMMA StepInv == IInv /\ [Next]_vars => IInv'
  <1> SUFFICES ASSUME IInv, [Next]_vars PROVE IInv'
    OBVIOUS
  <1>1. TypeOK /\ TypeOK'
    BY StepType DEF IInv
  <1>2. CASE Running /\ phase' = phase /\ out' = out
    <2>1. \A e \in Entities : out[e] = Pending
      BY <1>2 DEF IInv, WriteInv, Running
    <2>2. QED
      BY <1>1, <1>2, <2>1 DEF IInv, WriteInv, Running
  <1>3. CASE StartResolve
    <2>1. \A e \in Entities : out'[e] = Pending
      BY <1>3 DEF IInv, WriteInv, StartResolve
    <2>2. \A e \in Entities : LoopInv(e)'
      BY <1>1, <1>3, LoopEntry
    <2>3. QED
      BY <1>1, <2>1, <2>2 DEF IInv, WriteInv, Pending
  <1>4. ASSUME NEW e \in Entities, NEW i \in res[e].left, ResolveNext(e, i)
        PROVE  IInv'
    <2>1. phase = "resolve" /\ phase' = phase /\ constraints' = constraints /\ out' = out
          /\ switches' = switches /\ \A d \in Entities \ {e} : res'[d] = res[d]
      BY <1>1, <1>4 DEF ResolveNext, TypeOK
    <2>2. \A d \in Entities : LoopInv(d)
      BY <2>1 DEF IInv
    <2>3. LoopInv(e)'
      BY <1>1, <1>4, <2>2, LoopStep
    <2>4. \A d \in Entities \ {e} : LoopInv(d)'
      BY <2>1, <2>2, LoopFrame
    <2>5. WriteInv(e)'
      BY <1>4, <2>1 DEF IInv, WriteInv
    <2>6. \A d \in Entities \ {e} : WriteInv(d)'
      BY <2>1, WriteFrame DEF IInv
    <2>7. QED
      BY <1>1, <2>3, <2>4, <2>5, <2>6 DEF IInv
  <1>5. ASSUME NEW e \in Entities, Write(e)
        PROVE  IInv'
    <2>1. phase = "resolve" /\ phase' = phase /\ constraints' = constraints /\ res' = res
          /\ switches' = switches /\ \A d \in Entities \ {e} : out'[d] = out[d]
      BY <1>1, <1>5 DEF Write, TypeOK
    <2>2. \A d \in Entities : LoopInv(d)'
      BY <2>1, LoopFrame DEF IInv
    <2>3. \A d \in Entities \ {e} : WriteInv(d)'
      BY <2>1, WriteFrame DEF IInv
    <2>4. WriteInv(e)'
      <3>1. CASE res[e].target = {}
        BY <1>1, <1>5, <2>1, <3>1 DEF Write, WriteInv, TypeOK
      <3>2. CASE res[e].target # {}
        <4>1. PICK t \in res[e].target : \E v \in Round2(Clamp(t, res[e].lo, res[e].hi)) :
                out' = [out EXCEPT ![e] = [kind |-> "set", value |-> v, source |-> res[e].source]]
          BY <1>5, <3>2 DEF Write
        <4>2. PICK v \in Round2(Clamp(t, res[e].lo, res[e].hi)) :
                out' = [out EXCEPT ![e] = [kind |-> "set", value |-> v, source |-> res[e].source]]
          BY <4>1
        <4>3. out'[e].kind = "set" /\ out'[e].value = v /\ out'[e].source = res[e].source
          BY <1>1, <4>2 DEF TypeOK
        <4>4. QED
          BY <1>5, <2>1, <4>3 DEF WriteInv, Write
      <3>3. QED
        BY <3>1, <3>2
    <2>5. QED
      BY <1>1, <2>2, <2>3, <2>4 DEF IInv
  <1>6. CASE UNCHANGED vars
    <2>1. \A e \in Entities : WriteInv(e)'
      BY <1>6, WriteFrame DEF IInv, vars
    <2>2. phase' = "resolve" => \A e \in Entities : LoopInv(e)'
      BY <1>6, LoopFrame DEF IInv, vars
    <2>3. QED
      BY <1>1, <2>1, <2>2 DEF IInv
  <1>7. CASE Process
    BY <1>7, <1>2 DEF Process, AddSwitch, AddTarget, Constrain, StartRule, EndRule,
                      NextController, Running
  <1>8. CASE Finished
    BY <1>6, <1>8 DEF Finished
  <1>9. QED
    BY <1>3, <1>4, <1>5, <1>6, <1>7, <1>8 DEF Next, Resolve

LEMMA Invariance == Spec => []IInv
  BY InitInv, StepInv, PTL DEF Spec

-----------------------------------------------------------------------------
\* Clamping a value into a non-empty interval lands in the interval.
LEMMA ClampInside ==
    ASSUME NEW t \in Int, NEW lo \in Int, NEW hi \in Int, lo <= hi
    PROVE  Clamp(t, lo, hi) \in Int /\ lo <= Clamp(t, lo, hi) /\ Clamp(t, lo, hi) <= hi
  BY DEF Clamp, Larger, Smaller

\* What a numeric write is, read off the invariant.
LEMMA NumericWrite ==
    ASSUME IInv, NEW e \in Entities, out[e].kind = "set"
    PROVE  /\ phase = "resolve" /\ LoopInv(e) /\ res[e].target # {} /\ Done(e) = Of(e)
           /\ out[e].source = res[e].source
           /\ \E v \in Int : /\ out[e].value \in Round2(v)
                             /\ res[e].lo <= v /\ v <= res[e].hi
  <1>1. out[e] # Pending /\ switches[e].kind # "set"
    <2>1. switches[e] \in SwitchCommand
      BY DEF IInv, TypeOK
    <2>2. QED
      BY <2>1 DEF Pending, SwitchCommand
  <1>2. phase = "resolve" /\ res[e].left = {}
    BY <1>1 DEF IInv, WriteInv
  <1>3. PICK t \in res[e].target :
          /\ out[e].value \in Round2(Clamp(t, res[e].lo, res[e].hi))
          /\ out[e].source = res[e].source
    BY <1>1 DEF IInv, WriteInv
  <1>4. LoopInv(e) /\ Done(e) = Of(e)
    BY <1>2 DEF IInv, Done
  <1>5. res[e].lo \in Int /\ res[e].hi \in Int /\ res[e].lo <= res[e].hi
    BY <1>4, LoopTypes DEF IInv, LoopInv, Inside
  <1>6. t \in Int
    <2>1. res[e] \in Resolution
      BY DEF IInv, TypeOK
    <2>2. res[e].target \in Targets
      BY <2>1 DEF Resolution
    <2>3. QED
      BY <2>2, ValuesAssumption DEF Targets
  <1>7. QED
    BY <1>2, <1>3, <1>4, <1>5, <1>6, ClampInside

LEMMA InvWithinDevice == IInv => WithinDevice
  <1> SUFFICES ASSUME IInv, NEW e \in Entities, out[e].kind = "set"
               PROVE  \E v \in Device[e].lo .. Device[e].hi : out[e].value \in Round2(v)
    BY DEF WithinDevice
  <1>1. PICK v \in Int : out[e].value \in Round2(v) /\ res[e].lo <= v /\ v <= res[e].hi
    BY NumericWrite
  <1>2. Inside(e)
    BY NumericWrite DEF LoopInv
  <1>3. v \in Device[e].lo .. Device[e].hi
    BY <1>1, <1>2, LoopTypes DEF Inside, IInv
  <1>4. QED
    BY <1>1, <1>3

LEMMA InvBoundsHonoured == IInv => BoundsHonoured
  <1> SUFFICES ASSUME IInv, NEW e \in Entities, NEW i \in Of(e), out[e].kind = "set",
                      NEW w \in Bounds \cup {Device[e].lo}, Fits(e, w),
                      \A j \in Of(e) : (j = i \/ Before(j, i)) => Holds(j, w)
               PROVE  \E v \in Device[e].lo .. Device[e].hi :
                         Holds(i, v) /\ out[e].value \in Round2(v)
    BY DEF BoundsHonoured
  <1>1. w \in Int
    BY BoundsAreInt, LoopTypes DEF IInv
  <1>2. Feasible(e, i)
    BY <1>1 DEF Feasible
  <1>3. LoopInv(e) /\ i \in Done(e)
    BY NumericWrite
  <1>4. constraints[i].lo <= res[e].lo /\ res[e].hi <= constraints[i].hi /\ Inside(e)
    BY <1>2, <1>3 DEF LoopInv, Honoured
  <1>5. PICK v \in Int : out[e].value \in Round2(v) /\ res[e].lo <= v /\ v <= res[e].hi
    BY NumericWrite
  <1>6. Holds(i, v) /\ v \in Device[e].lo .. Device[e].hi
    BY <1>4, <1>5, LoopTypes DEF Holds, Inside, IInv
  <1>7. QED
    BY <1>5, <1>6

LEMMA InvTargetOwner == IInv => TargetOwner
  <1> SUFFICES ASSUME IInv, NEW e \in Entities, out[e].kind = "set"
               PROVE  \E i \in Of(e) :
                         /\ constraints[i].target # {}
                         /\ out[e].source = constraints[i].source
                         /\ \A j \in Of(e) \ {i} : constraints[j].target # {} => Before(i, j)
    BY DEF TargetOwner
  <1>1. Owned(e) /\ res[e].target # {} /\ Done(e) = Of(e) /\ out[e].source = res[e].source
    BY NumericWrite DEF LoopInv
  <1>2. QED
    BY <1>1 DEF Owned

LEMMA InvBoundsNeverStart == IInv => BoundsNeverStart
  <1> SUFFICES ASSUME IInv, NEW e \in Entities, out[e] # Pending,
                      \A i \in Of(e) : constraints[i].target = {}
               PROVE  out[e].kind = switches[e].kind
    BY DEF BoundsNeverStart
  <1>1. phase = "resolve" /\ Owned(e)
    BY DEF IInv, WriteInv, LoopInv
  <1>2. res[e].target = {}
    BY <1>1 DEF Owned, Done
  <1>3. QED
    BY <1>2 DEF IInv, WriteInv

-----------------------------------------------------------------------------
\* No controller, rule or combination of them writes a numeric value outside
\* the device's own limits (CommandSet._resolve, Device.actuator_bounds).
THEOREM DeviceLimits == Spec => []WithinDevice
  BY Invariance, InvWithinDevice, PTL

\* A bound that can be honoured next to everything ranked above it is honoured:
\* the battery reserve cannot be talked away by any lower-ranked target.
THEOREM HardConstraints == Spec => []BoundsHonoured
  BY Invariance, InvBoundsHonoured, PTL

\* The numeric write belongs to the highest-ranked controller with a target.
THEOREM PriorityDecides == Spec => []TargetOwner
  BY Invariance, InvTargetOwner, PTL

\* A controller that only emits bounds never causes a write of its own.
THEOREM ReserveNeverStarts == Spec => []BoundsNeverStart
  BY Invariance, InvBoundsNeverStart, PTL

-----------------------------------------------------------------------------
\* Appending a constraint that does not outrank the leader keeps the leader.
LEMMA LeaderKept ==
    ASSUME TypeOK, NEW e \in Entities, NEW i \in Of(e), Leads(e, i),
           NEW c \in Constraint, c.priority <= constraints[i].priority,
           constraints' = Append(constraints, c)
    PROVE  Leads(e, i)'
  <1> DEFINE n == Len(constraints)
  <1>1. /\ n \in Nat /\ DOMAIN constraints = 1 .. n /\ DOMAIN constraints' = 1 .. n + 1
        /\ constraints'[n + 1] = c
        /\ \A j \in 1 .. n : constraints'[j] = constraints[j]
    BY DEF TypeOK
  <1>2. i \in 1 .. n /\ i \in Of(e)'
    BY <1>1 DEF Of
  <1>3. \A j \in Of(e)' \ {i} : constraints'[j].target # {} => Before(i, j)'
    <2> SUFFICES ASSUME NEW j \in Of(e)', j # i, constraints'[j].target # {}
                 PROVE  Before(i, j)'
      OBVIOUS
    <2>1. CASE j \in 1 .. n
      <3>1. j \in Of(e) /\ constraints[j].target # {}
        BY <1>1, <2>1 DEF Of
      <3>2. Before(i, j)
        BY <3>1 DEF Leads
      <3>3. QED
        BY <1>1, <1>2, <2>1, <3>2 DEF Before
    <2>2. CASE j = n + 1
      <3>1. constraints[i].priority \in Int /\ c.priority \in Int
        <4>1. constraints[i] \in Constraint
          BY <1>1, <1>2 DEF TypeOK
        <4>2. \A p \in Priorities : p \in Int
          BY PrioritiesAreInt
        <4>3. constraints[i].priority \in Priorities /\ c.priority \in Priorities
          BY <4>1 DEF Constraint
        <4>4. QED
          BY <4>2, <4>3
      <3>2. QED
        BY <1>1, <1>2, <2>2, <3>1 DEF Before
    <2>3. QED
      BY <1>1, <2>1, <2>2 DEF Of
  <1>4. QED
    BY <1>1, <1>2, <1>3 DEF Leads

LEMMA StepOwner ==
    ASSUME TypeOK, [Next]_vars, NEW e \in Entities, NEW i \in Of(e), Leads(e, i),
           current_priority <= constraints[i].priority
    PROVE  Leads(e, i)'
  <1>1. CASE constraints' = constraints
    BY <1>1 DEF Leads, Of, Before
  <1>2. ASSUME NEW d \in Entities, NEW lo \in Bounds, NEW hi \in Bounds,
               NEW target \in Targets, Constrain(d, lo, hi, target)
        PROVE  Leads(e, i)'
    <2> DEFINE c == [entity |-> d, lo |-> lo, hi |-> hi, target |-> target,
                     priority |-> current_priority, source |-> at]
    <2>1. c \in Constraint /\ c.priority = current_priority
      BY <1>2, ChainAssumption DEF Constrain, Running, Constraint, TypeOK
    <2>2. constraints' = Append(constraints, c)
      BY <1>2 DEF Constrain
    <2>3. QED
      BY <2>1, <2>2, LeaderKept
  <1>3. ASSUME NEW d \in Entities, NEW v \in Values, AddTarget(d, v)
        PROVE  Leads(e, i)'
    <2>1. Constrain(d, -Inf, Inf, {v}) /\ -Inf \in Bounds /\ Inf \in Bounds /\ {v} \in Targets
      BY <1>3 DEF AddTarget, Bounds, Targets
    <2>2. QED
      BY <2>1, <1>2
  <1>4. ASSUME NEW d \in Entities, NEW b \in Bands, Constrain(d, b.lo, b.hi, b.target)
        PROVE  Leads(e, i)'
    <2>1. b.lo \in Bounds /\ b.hi \in Bounds /\ b.target \in Targets
      BY BandsAssumption
    <2>2. QED
      BY <2>1, <1>2, <1>4
  <1>5. QED
    BY <1>1, <1>3, <1>4 DEF Next, Process, Resolve, AddSwitch, StartRule, EndRule,
       NextController, StartResolve, ResolveNext, Write, Finished, vars

\* In chain order nobody takes a numeric entity from an earlier controller.
THEOREM OwnersStay == Spec => OwnerIsStable
  <1>1. TypeOK /\ [Next]_vars =>
          [\A e \in Entities : \A i \in Of(e) :
             (Leads(e, i) /\ current_priority <= constraints[i].priority) => Leads(e, i)']_vars
    BY StepOwner
  <1>2. QED
    BY <1>1, TypeCorrect, PTL DEF Spec, OwnerIsStable
=============================================================================
