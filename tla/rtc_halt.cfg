SPECIFICATION Spec
CONSTANTS
  SecondMod = 2
  MinuteMod = 2
  HourMod = 1
  DayMod = 2
  HaltUnit = 2
  MaxNow = 2
  DayFlags <- ClockFlags
  OpenAddresses = {1}
  Files <- ClockFiles
  Addresses <- BankedAddresses
  Stores <- AllStores
PROPERTY HaltStopsClock
CHECK_DEADLOCK FALSE
