SPECIFICATION Spec
CONSTANTS
  heater = heater
  washer = washer
  Loads = {heater}
  Config <- Guarded
  NoDeadline <- Never
  Surpluses <- SurplusLevels
  OnMargin = 100
  OffMargin = 100
  Keepalive = 2
  Window = 2
  DayLength = 4
  MaxAge = 3
  MaxStarts = 2
  Faults = {}
  MaxFaults = 0
INVARIANTS
  TypeOK
  MaxStartsKept
  SuppressionHarmless
PROPERTIES
  MinTimesKept
