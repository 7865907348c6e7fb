SPECIFICATION FairSpec
CONSTANTS
  Nets <- Swing
  Prices = {10, 30}
  CheapPrices = {10}
  MaxW = 3
  Full = 4
  Reserve = 1
  SocMax = 3
  Emergency = 2
  ChargeMaxCt = 10
  DischargeMinCt = 30
  PeakLimit = 2
  FeedInLimit = 2
  CareCycle = TRUE
  SurplusMinSoc = 2
  Interval = 2
  Settings <- Combined
INVARIANTS
  TypeOK
  NeverBoth
PROPERTIES
  ReserveHeld
  SocMaxHeld
  BackupRefilled
  CareCompletes
