SPECIFICATION Spec
CONSTANTS
  Role <- GridBattery
  Unavailable = Unavailable
  Flows <- BatteryFlows
  MaxPower = 6
  Cap = 1
  StaleMin = 2
  StaleFactor = 2
  MaxLen = 3
  Delay = 1
  MaxGap = 2
  MaxAge = 4
  MaxChanges = 1
  MaxFaults = 1
INVARIANTS
  TypeOK
  SteadyExact
PROPERTIES
  WrongNotFollowed
