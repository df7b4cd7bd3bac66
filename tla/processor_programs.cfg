\* The program ends the emulator: at an infinite loop, or at its command line.
SPECIFICATION Spec
CONSTANTS
  Programs <- MCPrograms
  Data <- MCData
  StackTop = 53248
INVARIANTS TypeOK ProgramsCompute ConsoleShowsOutput
PROPERTIES InterruptsAreTransparent ReturnRestores PushesAreUndone Terminates
CHECK_DEADLOCK FALSE
