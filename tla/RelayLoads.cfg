SPECIFICATION FairSpec
CONSTANTS
  Devices <- RodsAndPump
  N = 3
  StageW = 2
  Avail <- Levels
  NoDeadline <- Never
  Window = 1
  Keepalive = 3
  DayLength = 5
  SaveEvery = 2
  Faults = {"failed", "lost", "late", "skipped", "manual", "restart", "killed"}
  MaxFaults = 1
INVARIANTS
  TypeOK
  BottomUp
PROPERTIES
  DailyMinimum
  StagesFollowUnharmed
  SignalSettles
