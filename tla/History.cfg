SPECIFICATION HistorySpec
CONSTANTS
  Readings <- ThreeReadings
  NoPrice = NoPrice
  CurPrice = 4
  Feed = 1
  Day = 3
  Week = 3
  Workdays = 2
  Retentions <- ShortAndLong
  PurgeEvery = 2
  Shown = 5
  Past = 7
  Battery = 8
  MaxCharge = 4
  PvFactor = 2
  Loss = 2
  CheapUntil = 1
  PeakFrom = 2
  Low = 1
  Normal = 5
  High = 7
  SinkPower = 8
  SinkDay = 12
  MaxMissed = 2
  Horizon = 7
INVARIANTS
  HistoryTypeOK
  SavingsSound
PROPERTIES
  ForecastFollows
