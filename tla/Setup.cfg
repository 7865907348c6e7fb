SPECIFICATION SetupSpec
CONSTANTS
  heater = heater
  boiler = boiler
  car1 = car1
  Loads = {heater, boiler}
  Imported <- Dashboard
  Former <- OldFile
  Cars = {car1}
  MaxFailures = 1
INVARIANTS
  SetupTypeOK
  RestartFindsAll
PROPERTIES
  OrderStays

