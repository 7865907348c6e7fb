SPECIFICATION FairSpec
CONSTANTS
  heater = heater
  washer = washer
  Loads = {heater, washer}
  Config <- Pair
  NoDeadline <- Never
  Surpluses <- TwoLevels
  OnMargin = 100
  OffMargin = 100
  Keepalive = 2
  Window = 2
  DayLength = 1
  MaxAge = 1
  MaxStarts = 0
  Faults = {"manual", "lost", "restart", "outage"}
  MaxFaults = 1
PROPERTIES
  SurplusServed
