\* The emulator may stop: at a refused file, and at a read past the ROM.
SPECIFICATION Spec
CONSTANTS
  SecondMod = 2
  MinuteMod = 2
  HourMod = 1
  DayMod = 2
  HaltUnit = 2
  MaxNow = 2
  DayFlags <- ClockFlags
  OpenAddresses = {1}
  Files <- AllFiles
  Addresses <- BankedAddresses
  Stores <- AllStores
INVARIANTS TypeOK BanksExist LatchedInRange
PROPERTIES BankingImplementsWindows SecondsAreCounted LatchedIsStable CarrySticks
CHECK_DEADLOCK FALSE
