SPECIFICATION FairSpec
CONSTANTS
  Persons = {"ann"}
  Comfort = 8
  Eco = 3
  Frost = 4
  Coldest = 4
  ComfortTime = 7
  DayLength = 9
  Interval = 1
  DefaultRate = 40
  Slowest = 2
  MaxAge = 7
  Faults = {"manual", "failed", "late", "offline", "restart", "unknown"}
  MaxFaults = 1
INVARIANTS
  TypeOK
  WarmOnTime
PROPERTIES
  ComfortRestored
