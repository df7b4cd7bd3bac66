SPECIFICATION Spec
CONSTANTS
  ExitInfiniteLoop = TRUE
  DivMod = 8
  TimaMod = 3
  Period <- MCPeriod
  MaxTicks = 2
  DivDefault = 3
  Sources = {2}
  Opcodes <- TimerOpcodes
  CbOpcodes <- MCCbOpcodes
  Pointers <- TimerPointers
  TimerBytes = {0, 2, 4, 5}
  InterruptBytes = {{}}
PROPERTIES CountsEveryPeriod
CHECK_DEADLOCK FALSE
