SPECIFICATION FairSpec
CONSTANTS
  ExitInfiniteLoop = FALSE
  DivMod = 4
  TimaMod = 2
  Period <- MCPeriod
  MaxTicks = 2
  DivDefault = 0
  Sources = {1, 2}
  Opcodes <- InterruptOpcodes
  CbOpcodes = {64}
  Pointers <- InterruptPointers
  TimerBytes = {0, 5}
  InterruptBytes <- AnyInterrupts
INVARIANTS TypeOK NoSleepThroughInterrupt NoStaleEnable
PROPERTIES EnableOnlyInsideInstruction NoLostRequest OverflowReachesIF WakesFromHalt
