------------------------------ MODULE Processor -----------------------------
(***************************************************************************)
(* main() from its command line to its end (src/src/main.c): the options,  *)
(* a cartridge without a controller, the loop over execute_instruction()   *)
(* or a cycle of halt mode, handle_interrupts() and, with -b, the console  *)
(* of the test ROMs (src/src/test_rom.c).  The program in the cartridge is *)
(* real machine code; the data of every instruction are those of Cpu.      *)
(***************************************************************************)
EXTENDS Cpu, Options, SequencesExt

CONSTANTS Programs,        \* a function to jobs: rom, keys, result, message
          Data, StackTop   \* what a program owns, see UninterruptedProgram

\* A cartridge holds bytes; argp hands over one key at least, ARGP_KEY_END.
ASSUME ProgramsAssumption ==
  \A j \in DOMAIN Programs :
    /\ \A a \in DOMAIN Programs[j].rom : a \in Address /\ Device(a) = "cartridge"
    /\ Programs[j].rom \in [DOMAIN Programs[j].rom -> Byte]
    /\ Programs[j].keys \in Seq(Keys) \ {<< >>}

VARIABLES job,     \* the job being run
          gb,      \* the emulator, see Cpu
          phase,   \* the part of main() being executed
          output,            \* g_output and g_output_size
          last_output_size,  \* of test_rom_print
          shown,             \* the last test result that was logged
          saved    \* history: << >>, or the program's registers while a
                   \* handler runs

consoleVars == <<output, last_output_size, shown>>
vars == <<job, gb, phase, optionVars, consoleVars, saved>>

Phases == {"options", "step", "interrupts", "console", "stopped"}

Init ==
  /\ OptionsInit
  /\ job \in DOMAIN Programs
  /\ gb = Reset(Programs[job].rom)
  /\ keys = Programs[job].keys
  /\ phase = "options"
  /\ output = << >> /\ last_output_size = 0 /\ shown = << >>
  /\ saved = << >>

-----------------------------------------------------------------------------
(* parse_options *)

Refuse ==
  /\ phase = "options" /\ Usage(Head(keys))
  /\ phase' = "stopped"
  /\ UNCHANGED <<job, gb, optionVars, consoleVars, saved>>

ParseOption ==
  /\ phase = "options" /\ ParseOpt(Head(keys))
  /\ keys' = Tail(keys)
  /\ gb' = [gb EXCEPT !.exit_infinite_loop = options'.exit_infinite_loop]
  /\ phase' = IF Tail(keys) = << >> THEN "step" ELSE "options"
  /\ UNCHANGED <<job, consoleVars, saved>>

-----------------------------------------------------------------------------
(* The loop. *)

Sp(file) == ReadRegister16(file, REG_SP)

\* A handler has returned once the stack is back where it was.
ExecuteInstruction ==
  /\ phase = "step" /\ ~gb.halt
  /\ gb' = Execute(gb)
  /\ phase' = IF gb'.running THEN "interrupts" ELSE "stopped"
  /\ saved' = IF saved # << >> /\ Sp(gb'.registers) = Sp(saved[1]) THEN << >>
              ELSE saved
  /\ UNCHANGED <<job, optionVars, consoleVars>>

\* Variant of HaltTick: the timer stands still in halt mode.
HaltWithoutTick ==
  /\ phase = "step" /\ gb.halt
  /\ phase' = "interrupts"
  /\ UNCHANGED <<job, gb, optionVars, consoleVars, saved>>

HaltTick ==
  /\ phase = "step" /\ gb.halt
  /\ gb' = Tick(gb, 1)
  /\ phase' = "interrupts"
  /\ UNCHANGED <<job, optionVars, consoleVars, saved>>

ServeInterrupts ==
  /\ phase = "interrupts"
  /\ gb' = HandleInterrupts(gb)
  /\ phase' = IF options.blargg THEN "console" ELSE "step"
  /\ saved' = IF saved = << >> /\ gb'.registers # gb.registers THEN <<gb.registers>>
              ELSE saved
  /\ UNCHANGED <<job, optionVars, consoleVars>>

-----------------------------------------------------------------------------
(* test_rom_update, test_rom_print *)

TEST_CHECK == 65282
TEST_VALUE == 65281

CheckIsTrue == ReadMemory(gb, TEST_CHECK) = 129

Acknowledged == WriteMemory(gb, TEST_CHECK, 0)

\* The string in g_output.
Text(bytes) ==
  LET zeros == {i \in 1..Len(bytes) : bytes[i] = 0}
  IN  IF zeros = {} THEN bytes ELSE SubSeq(bytes, 1, Min(zeros) - 1)

\* The bytes of g_output; a byte after the last one has no place to go to,
\* and the model ends there.
OutputCapacity == 1024
Overflow == CheckIsTrue /\ Len(output) = OutputCapacity

TestRom ==
  /\ phase = "console" /\ ~Overflow
  /\ IF CheckIsTrue
     THEN output' = Append(output, ReadMemory(gb, TEST_VALUE)) /\ gb' = Acknowledged
     ELSE UNCHANGED <<output, gb>>
  /\ LET prints == Text(output') # << >> /\ Len(output') > last_output_size
     IN  /\ last_output_size' = IF prints THEN Len(output') ELSE last_output_size
         /\ shown' = IF prints /\ Logged(LOG_INFO) THEN Text(output') ELSE shown
  /\ phase' = "step"
  /\ UNCHANGED <<job, optionVars, saved>>

Next ==
  \/ Refuse \/ ParseOption
  \/ ExecuteInstruction \/ HaltTick \/ ServeInterrupts \/ TestRom

\* main() is sequential code that never blocks: it goes on for as long as the
\* process lives.  This is WF_vars(Next), with what enables Next written out.
Ended == phase = "stopped" \/ (phase = "console" /\ Overflow)

Fairness == []<>Ended \/ []<><<Next>>_vars

Spec == Init /\ [][Next]_vars /\ Fairness

-----------------------------------------------------------------------------
(* Properties *)

(***************************************************************************)
(* Registers, memory and ports hold bytes after every call, and the lower  *)
(* four bits of F, which POP AF can load with anything, are always clear   *)
(* (instruction.c:226-227).                                                *)
(***************************************************************************)
TypeOK ==
  /\ gb.registers \in File
  /\ gb.registers[REG_F] % 16 = 0
  /\ \A a \in DOMAIN gb.memory : a \in Address /\ gb.memory[a] \in Byte
  /\ gb.div \in Address
  /\ {gb.tima, gb.tma, gb.if_reg, gb.ie_reg} \subseteq Byte
  /\ gb.tac \in 0..7
  /\ {gb.halt, gb.ime, gb.ime_scheduled, gb.tima_overflow, gb.running,
      gb.exit_infinite_loop} \subseteq BOOLEAN
  /\ options \in OptionsRecord
  /\ phase \in Phases
  /\ last_output_size <= Len(output)

(***************************************************************************)
(* Interrupts are transparent: whatever the phase of the timer, a program  *)
(* whose handlers save the registers they use runs as if alone.  Every     *)
(* instruction completes before a dispatch, PC and flags survive it and    *)
(* the handlers nested in it, HALT resumes after itself, and nothing of    *)
(* the program's memory or stack in use is disturbed (interrupt.c:79-109,  *)
(* stack.h, instruction.c:76-83, 216-229, main.c:22-30).                   *)
(***************************************************************************)
MainRegisters == IF saved = << >> THEN gb.registers ELSE saved[1]

Alone == INSTANCE UninterruptedProgram
           WITH rom <- Programs[job].rom, registers <- MainRegisters,
                ram <- OwnedCells(gb.memory, MainRegisters, Data, StackTop)

InterruptsAreTransparent == Alone!Spec

(***************************************************************************)
(* A handler that does nothing but return puts every register back, flags, *)
(* PC and SP included, and leaves nothing behind in memory but the two     *)
(* bytes below the stack, whatever was on the way of the dispatch          *)
(* (interrupt.c:79-109, stack.h, cpu.c:63-110).                            *)
(***************************************************************************)
Slots(g) == {(Get(g, REG_SP) - n) % AddressMod : n \in 1..2}

Restores(before, after, back) ==
  /\ back.registers = before.registers
  /\ \A a \in DOMAIN after.memory \ Slots(before) : Peek(after, a) = Peek(before, a)
  /\ back.memory = after.memory

ReturnRestores ==
  [][/\ ServeInterrupts /\ gb'.registers # gb.registers
     /\ \A a \in Slots(gb) : Device(a) = "memory"
     => Restores(gb, gb', Return(StackPop16(gb')))]_vars

(***************************************************************************)
(* What an instruction pushes its counterpart takes back, POP of the same  *)
(* pair after PUSH, a return after CALL and RST, and finds every register  *)
(* as it was, flags and SP included; PC is behind the instruction and its  *)
(* operands, and memory differs only in the two bytes below the stack      *)
(* (instruction.c:52-92, 216-229, instruction_fetch.c:70-80, stack.h).     *)
(***************************************************************************)
Pushing == {"PUSH", "CALL", "RST"}

Behind(g, op) ==
  Put(g, REG_PC, Get(g, REG_PC) + (IF Table!Name(op) = "CALL" THEN 3 ELSE 1))

Undone(g, op) ==
  IF Table!Name(op) = "PUSH"
  THEN Pop([gb |-> g, reg1 |-> <<REG_BC, REG_DE, REG_HL, REG_AF>>[OpcodeP(op) + 1]])
  ELSE Return(StackPop16(g))

PushesAreUndone ==
  [][LET op == FetchByte(gb).value
     IN  /\ Get(gb', REG_SP) # Get(gb, REG_SP) /\ Table!Name(op) \in Pushing
         /\ ExecuteInstruction
         /\ \A a \in Slots(gb) : Device(a) = "memory"
         => Restores(Behind(gb, op), gb', Undone(gb', op))]_vars

(***************************************************************************)
(* The program's results are those of the reference arithmetic, also those *)
(* the handlers could have disturbed inside a section under DI, and with   *)
(* -b the bytes it sent are collected in their order, whatever interrupts  *)
(* come between them (instruction.c, instruction_fetch.c,                  *)
(* interrupt.c:98-99, test_rom.c:15-21).                                   *)
(***************************************************************************)
ProgramsCompute ==
  ~gb.running =>
    /\ \A a \in DOMAIN Programs[job].result :
         ReadMemory(gb, a) = Programs[job].result[a]
    /\ "blargg" \in ToSet(Programs[job].keys) => output = Programs[job].message

(***************************************************************************)
(* The log always shows all there is of the output, exactly if -b asks for *)
(* it and the last of the options -s and -l lets it through; and no byte   *)
(* is left to collect when the next instruction begins, so that none is    *)
(* collected twice or overwritten before it is (test_rom.c, log.c:20-31,   *)
(* options.c:31-79, main.c:22-36).                                         *)
(***************************************************************************)
LevelKeys == {"silent", "level TRACE", "level WARNING", "level ERROR", "level ?"}

LastLevel(line, i) ==
  line[i] \in LevelKeys /\ \A k \in DOMAIN line : line[k] \in LevelKeys => k <= i

Shows(line) ==
  /\ "blargg" \in ToSet(line)
  /\ \A i \in DOMAIN line : LastLevel(line, i) => line[i] = "level ?"

ConsoleShowsOutput ==
  /\ arg_num = 1 =>
       shown = IF Shows(Programs[job].keys) THEN Text(output) ELSE << >>
  /\ phase = "step" /\ options.blargg => ~CheckIsTrue

(***************************************************************************)
(* Every program reaches its end, through its loops, calls and halts       *)
(* (main.c:22-30, interrupt.c:93-95).                                      *)
(***************************************************************************)
Terminates == <>(phase = "stopped")
=============================================================================
