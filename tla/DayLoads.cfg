SPECIFICATION FairSpec
CONSTANTS
  Settings <- AllSettings
  Never <- None
  Day = 8
  Window = 5
  TariffEvery = 2
  DayPrices <- Prices
  PublishAt = 4
  Avail <- Levels
  Nominal = 2
  Limit = 3
  MaxSoc = 3
  Reserve = 1
  MaxSkips = 1
INVARIANTS
  TypeOK
  DeadlineHonoured
  GridSpared
PROPERTIES
  TariffServed
