SPECIFICATION Spec
CONSTANTS
  setpoint = setpoint
  relay = relay
  Entities = {setpoint, relay}
  Switched = {relay}
  Device <- MCDevice
  Chain = 2
  Values = {0, 3, 9}
  Bands <- MCBands
  Inf = 100
  Grain = 2
  RulePriorities = {3}
  MaxConstraints = 3
INVARIANTS
  TypeOK
  BoundsHonoured
  TargetOwner
