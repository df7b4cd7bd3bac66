-------------------------- MODULE ProcessorProofs ---------------------------
(***************************************************************************)
(* Whatever the program in the cartridge, the command line and the         *)
(* interrupts: the emulator's state stays well formed, a handler that only *)
(* returns puts everything back, and the log shows what the test ROM says. *)
(***************************************************************************)
EXTENDS Processor, CpuProofs, SequenceTheorems

(* TypeOK, with the memory as a function and the console's output as a     *)
(* sequence of bytes.                                                      *)
WellFormed ==
  /\ Good(gb)
  /\ options \in OptionsRecord
  /\ phase \in Phases
  /\ output \in Seq(Byte)
  /\ last_output_size \in Nat
  /\ last_output_size <= Len(output)

LEMMA InitWellFormed == Init => WellFormed
<1> SUFFICES ASSUME Init
             PROVE  WellFormed
  OBVIOUS
<1>1. Programs[job].rom \in Memories
  <2>1. job \in DOMAIN Programs
    BY DEF Init
  <2>2. /\ DOMAIN Programs[job].rom \subseteq Address
        /\ Programs[job].rom \in [DOMAIN Programs[job].rom -> Byte]
    BY <2>1, ProgramsAssumption
  <2>3. QED
    BY <2>2 DEF Memories
<1>2. Good(gb)
  BY <1>1, ResetGood DEF Init
<1>3. options \in OptionsRecord
  BY DEF Init, OptionsInit, OptionsRecord, LogLevels, LOG_INFO, LOG_SILENT
<1>4. phase \in Phases
  BY DEF Init, Phases
<1>5. output \in Seq(Byte) /\ last_output_size \in Nat /\ last_output_size <= Len(output)
  BY DEF Init
<1>6. QED
  BY <1>2, <1>3, <1>4, <1>5 DEF WellFormed

(* What a key makes of the options; what an argument too many may make of  *)
(* them.                                                                   *)
WithTrace == {[options EXCEPT !.trace = TRUE]}
WithExit == {[options EXCEPT !.exit_infinite_loop = TRUE]}
WithBlargg == {[options EXCEPT !.blargg = TRUE]}
WithLevel(level) == {[options EXCEPT !.log_level = level]}
Overwritten(trace, level) == [options EXCEPT !.trace = trace, !.log_level = level]
StrayOptions ==
  {Overwritten(trace, level) : trace \in BOOLEAN, level \in {options.log_level, LOG_SILENT}}

LEMMA ParsedCases ==
  ASSUME NEW key
  PROVE  /\ key = "trace" => Parsed(key) = WithTrace
         /\ key = "exit-infinite-loop" => Parsed(key) = WithExit
         /\ key = "blargg" => Parsed(key) = WithBlargg
         /\ key = "silent" => Parsed(key) = WithLevel(LOG_SILENT)
         /\ key = "level TRACE" => Parsed(key) = WithLevel(LOG_TRACE)
         /\ key = "level WARNING" => Parsed(key) = WithLevel(LOG_WARNING)
         /\ key = "level ERROR" => Parsed(key) = WithLevel(LOG_ERROR)
         /\ key = "level ?" => Parsed(key) = WithLevel(LOG_INFO)
         /\ key = "CARTRIDGE" /\ arg_num = NbArgs => Parsed(key) = StrayOptions
         /\ /\ key \notin Keys \ {"CARTRIDGE", "end"}
            /\ ~(key = "CARTRIDGE" /\ arg_num = NbArgs)
            => Parsed(key) = {options}
<1>1. Parsed(key) =
        CASE key = "trace"              -> WithTrace
          [] key = "exit-infinite-loop" -> WithExit
          [] key = "blargg"             -> WithBlargg
          [] key = "silent"             -> WithLevel(LOG_SILENT)
          [] key = "level TRACE"        -> WithLevel(LOG_TRACE)
          [] key = "level WARNING"      -> WithLevel(LOG_WARNING)
          [] key = "level ERROR"        -> WithLevel(LOG_ERROR)
          [] key = "level ?"            -> WithLevel(LOG_INFO)
          [] key = "CARTRIDGE" /\ arg_num = NbArgs -> StrayOptions
          [] OTHER -> {options}
  BY DEF Parsed, WithTrace, WithExit, WithBlargg, WithLevel, StrayOptions, Overwritten
<1>2. QED
  BY <1>1 DEF Keys

LEMMA StrayType ==
  ASSUME options \in OptionsRecord, NEW o \in StrayOptions
  PROVE  o \in OptionsRecord /\ (o.blargg <=> options.blargg)
<1>1. LOG_SILENT \in LogLevels /\ options.log_level \in LogLevels
  BY DEF LogLevels, LOG_INFO, LOG_SILENT, OptionsRecord
<1>2. PICK trace \in BOOLEAN, level \in LogLevels : o = Overwritten(trace, level)
  BY <1>1 DEF StrayOptions
<1>3. QED
  BY <1>2 DEF Overwritten, OptionsRecord

(* An argument too many leaves arbitrary flags, but flags of their types.  *)
LEMMA ParsedType ==
  ASSUME options \in OptionsRecord, NEW key
  PROVE  Parsed(key) \subseteq OptionsRecord
<1>1. /\ LOG_INFO \in LogLevels /\ LOG_TRACE \in LogLevels /\ LOG_WARNING \in LogLevels
      /\ LOG_ERROR \in LogLevels /\ LOG_SILENT \in LogLevels
  BY DEF LogLevels, LOG_INFO, LOG_TRACE, LOG_WARNING, LOG_ERROR, LOG_SILENT
<1>2. options.log_level \in LogLevels
  BY DEF OptionsRecord
<1>3. CASE key = "trace" \/ key = "exit-infinite-loop" \/ key = "blargg"
  <2>1. WithTrace \cup WithExit \cup WithBlargg \subseteq OptionsRecord
    BY DEF WithTrace, WithExit, WithBlargg, OptionsRecord
  <2>2. QED
    BY <1>3, <2>1, ParsedCases
<1>4. \A level \in LogLevels : WithLevel(level) \subseteq OptionsRecord
  BY DEF OptionsRecord, WithLevel
<1>5. CASE key \in {"silent", "level TRACE", "level WARNING", "level ERROR", "level ?"}
  BY <1>1, <1>4, <1>5, ParsedCases
<1>6. CASE key = "CARTRIDGE" /\ arg_num = NbArgs
  BY <1>6, StrayType, ParsedCases
<1>7. CASE /\ key \notin Keys \ {"CARTRIDGE", "end"}
           /\ ~(key = "CARTRIDGE" /\ arg_num = NbArgs)
  BY <1>7, ParsedCases
<1>8. QED
  BY <1>3, <1>5, <1>6, <1>7 DEF Keys

LEMMA NextWellFormed == WellFormed /\ [Next]_vars => WellFormed'
<1> SUFFICES ASSUME WellFormed, [Next]_vars
             PROVE  WellFormed'
  OBVIOUS
<1> USE DEF WellFormed
<1>1. CASE Refuse
  BY <1>1 DEF Refuse, optionVars, consoleVars, Phases
<1>2. CASE ParseOption
  <2>1. options' \in OptionsRecord
    BY <1>2, ParsedType DEF ParseOption, ParseOpt
  <2>2. options'.exit_infinite_loop \in BOOLEAN
    BY <2>1 DEF OptionsRecord
  <2>3. Good(gb')
    BY <1>2, <2>2, ModeUpdates DEF ParseOption
  <2>4. phase' \in Phases
    BY <1>2 DEF ParseOption, Phases
  <2>5. UNCHANGED <<output, last_output_size>>
    BY <1>2 DEF ParseOption, consoleVars
  <2>6. QED
    BY <2>1, <2>3, <2>4, <2>5
<1>3. CASE ExecuteInstruction
  <2>1. Good(gb')
    BY <1>3, ExecuteGood DEF ExecuteInstruction
  <2>2. phase' \in Phases
    BY <1>3 DEF ExecuteInstruction, Phases
  <2>3. UNCHANGED <<options, output, last_output_size>>
    BY <1>3 DEF ExecuteInstruction, optionVars, consoleVars
  <2>4. QED
    BY <2>1, <2>2, <2>3
<1>4. CASE HaltTick
  <2>1. Good(gb')
    BY <1>4, TickGood DEF HaltTick
  <2>2. phase' \in Phases
    BY <1>4 DEF HaltTick, Phases
  <2>3. UNCHANGED <<options, output, last_output_size>>
    BY <1>4 DEF HaltTick, optionVars, consoleVars
  <2>4. QED
    BY <2>1, <2>2, <2>3
<1>5. CASE ServeInterrupts
  <2>1. Good(gb')
    BY <1>5, HandleInterruptsGood DEF ServeInterrupts
  <2>2. phase' \in Phases
    BY <1>5 DEF ServeInterrupts, Phases
  <2>3. UNCHANGED <<options, output, last_output_size>>
    BY <1>5 DEF ServeInterrupts, optionVars, consoleVars
  <2>4. QED
    BY <2>1, <2>2, <2>3
<1>6. CASE TestRom
  <2>1. /\ Good(gb')
        /\ output' \in Seq(Byte)
        /\ Len(output') >= Len(output)
    <3>1. CASE CheckIsTrue
      <4>1. 0 \in Byte /\ TEST_CHECK \in Address
        BY Bytes8, Words16 DEF TEST_CHECK
      <4>2. Good(Acknowledged)
        BY <4>1, WriteMemoryGood DEF Acknowledged
      <4>3. ReadMemory(gb, TEST_VALUE) \in Byte
        BY ReadMemoryType
      <4>4. output' = Append(output, ReadMemory(gb, TEST_VALUE)) /\ gb' = Acknowledged
        BY <1>6, <3>1 DEF TestRom
      <4>5. QED
        BY <4>2, <4>3, <4>4
    <3>2. CASE ~CheckIsTrue
      BY <1>6, <3>2 DEF TestRom
    <3>3. QED
      BY <3>1, <3>2
  <2>2. last_output_size' \in {Len(output'), last_output_size}
    BY <1>6 DEF TestRom
  <2>3. phase' \in Phases /\ UNCHANGED options
    BY <1>6 DEF TestRom, Phases, optionVars
  <2>4. QED
    BY <2>1, <2>2, <2>3
<1>7. CASE UNCHANGED vars
  BY <1>7 DEF vars, optionVars, consoleVars
<1>8. QED
  BY <1>1, <1>2, <1>3, <1>4, <1>5, <1>6, <1>7 DEF Next

LEMMA WellFormedTypes == WellFormed => TypeOK
<1> SUFFICES ASSUME WellFormed
             PROVE  TypeOK
  OBVIOUS
<1>1. Good(gb) /\ gb \in State
  BY DEF WellFormed, Good
<1>2. \A a \in DOMAIN gb.memory : a \in Address /\ gb.memory[a] \in Byte
  BY <1>1 DEF State, Memories
<1>3. /\ gb.registers \in File /\ gb.div \in Address /\ gb.tac \in 0..7
      /\ {gb.tima, gb.tma, gb.if_reg, gb.ie_reg} \subseteq Byte
      /\ {gb.halt, gb.ime, gb.ime_scheduled, gb.tima_overflow, gb.running,
          gb.exit_infinite_loop} \subseteq BOOLEAN
  BY <1>1, FieldTypes
<1>4. QED
  BY <1>1, <1>2, <1>3 DEF WellFormed, Good, TypeOK

(* Whatever the machine code, the options and the requests for interrupts, *)
(* every register, port and memory cell keeps its width, POP AF leaves no  *)
(* bit below the flags, and the console never remembers more output than   *)
(* there is (cpu.c:63-110, memory.c:26-83, io.c:15-67, timer.c:57-110,     *)
(* instruction.c:226-227, test_rom.c:26-46).                               *)
THEOREM ProcessorTypes == Spec => []TypeOK
<1>1. Init => WellFormed
  BY InitWellFormed
<1>2. WellFormed /\ [Next]_vars => WellFormed'
  BY NextWellFormed
<1>3. WellFormed => TypeOK
  BY WellFormedTypes
<1>4. QED
  BY <1>1, <1>2, <1>3, PTL DEF Spec

-----------------------------------------------------------------------------
(* The two bytes below the stack.                                          *)
LEMMA SlotsBelow ==
  ASSUME NEW g
  PROVE  Slots(g) = {(Get(g, REG_SP) - 1) % AddressMod, (Get(g, REG_SP) - 2) % AddressMod}
<1>1. 1..2 = {1, 2}
  OBVIOUS
<1>2. QED
  BY <1>1 DEF Slots

LEMMA DispatchRestores ==
  ASSUME WellFormed, ServeInterrupts, gb'.registers # gb.registers,
         \A a \in Slots(gb) : Device(a) = "memory"
  PROVE  Restores(gb, gb', Return(StackPop16(gb')))
<1> DEFINE awake == [gb EXCEPT !.halt = FALSE]
           i == Min(Pending(gb))
           upper == (Get(gb, REG_SP) - 1) % AddressMod
           lower == (Get(gb, REG_SP) - 2) % AddressMod
<1>1. Good(gb) /\ gb \in State /\ Good(awake)
  BY ModeUpdates DEF WellFormed, Good
<1>2. awake.registers = gb.registers /\ awake.memory = gb.memory
  BY <1>1 DEF State
<1>3. gb' = HandleInterrupts(gb)
  BY DEF ServeInterrupts
<1>4. Pending(gb) # {} /\ gb' = Serve(awake, i)
  <2>1. CASE Pending(gb) = {}
    BY <1>3, <2>1 DEF HandleInterrupts
  <2>2. CASE Pending(gb) # {} /\ ~gb.ime
    BY <1>2, <1>3, <2>2 DEF HandleInterrupts
  <2>3. CASE Pending(gb) # {} /\ gb.ime
    BY <1>3, <2>3 DEF HandleInterrupts
  <2>4. QED
    BY <2>1, <2>2, <2>3
<1>5. i \in 0..4
  BY <1>4, LowestRequest
<1>6. Slots(gb) = {upper, lower}
  BY SlotsBelow
<1>7. Device(upper) = "memory" /\ Device(lower) = "memory"
  BY <1>6
<1>8. /\ upper = (Get(awake, REG_SP) - 1) % AddressMod
      /\ lower = (Get(awake, REG_SP) - 2) % AddressMod
  BY <1>2 DEF Get
<1> HIDE DEF awake, i, upper, lower
<1>9. /\ Return(StackPop16(Serve(awake, i))).registers = awake.registers
      /\ Return(StackPop16(Serve(awake, i))).memory = Serve(awake, i).memory
      /\ \A x : x \notin {upper, lower} => Peek(Serve(awake, i), x) = Peek(awake, x)
  BY <1>1, <1>5, <1>7, <1>8, ServeRestores
<1>10. \A x : Peek(awake, x) = Peek(gb, x)
  BY <1>2 DEF Peek
<1>11. QED
  BY <1>2, <1>4, <1>6, <1>9, <1>10 DEF Restores

(* Whatever the program, its stack and the timer: a handler that does      *)
(* nothing but return puts every register back, and memory is as it was    *)
(* but for the two bytes below the stack (interrupt.c:79-109, stack.h,     *)
(* cpu.c:63-110).                                                          *)
THEOREM InterruptsReturn == Spec => ReturnRestores
<1> DEFINE Restored ==
      /\ ServeInterrupts /\ gb'.registers # gb.registers
      /\ \A a \in Slots(gb) : Device(a) = "memory"
      => Restores(gb, gb', Return(StackPop16(gb')))
<1>1. Init => WellFormed
  BY InitWellFormed
<1>2. WellFormed /\ [Next]_vars => WellFormed'
  BY NextWellFormed
<1>3. WellFormed /\ [Next]_vars => [Restored]_vars
  BY DispatchRestores
<1>4. QED
  BY <1>1, <1>2, <1>3, PTL DEF Spec, ReturnRestores

-----------------------------------------------------------------------------
(* PUSH and POP, CALL or RST and a return. *)

LEMMA TakenBack ==
  ASSUME NEW g, Good(g), NEW op, op = FetchByte(g).value,
         Table!Name(op) \in Pushing, Get(Execute(g), REG_SP) # Get(g, REG_SP),
         NEW upper, upper = (Get(g, REG_SP) - 1) % AddressMod, Device(upper) = "memory",
         NEW lower, lower = (Get(g, REG_SP) - 2) % AddressMod, Device(lower) = "memory"
  PROVE  /\ Undone(Execute(g), op).registers = Behind(g, op).registers
         /\ Undone(Execute(g), op).memory = Execute(g).memory
         /\ \A x : x \notin {upper, lower} => Peek(Execute(g), x) = Peek(g, x)
<1> DEFINE bytes == g.registers
           pc == Get(g, REG_PC)
           sp == Get(g, REG_SP)
           e == Execute(g)
           h == FetchByte(g).gb
           next == (pc + 1) % AddressMod
           after == (pc + 3) % AddressMod
           name == Table!Name(op)
           Balanced == \E to : /\ Regained(Undone(e, op), e, h, bytes, to, sp)
                              /\ Has(Behind(g, op), bytes, to, sp)
<1>1. Has(g, bytes, pc, sp) /\ pc \in Address /\ sp \in Address /\ pc \in Int
  BY GetType, PointerTypes, Words16 DEF Has
<1>2. op \in Byte
  BY PushExecuted
<1>3. next \in Address /\ after = (next + 2) % AddressMod
  BY <1>1, NextAddresses
<1>4. upper = (sp - 1) % AddressMod /\ lower = (sp - 2) % AddressMod
  OBVIOUS
<1>5. name \in Pushing /\ Get(e, REG_SP) # sp
  OBVIOUS
<1>d. /\ pc = Get(g, REG_PC) /\ name = Table!Name(op) /\ e = Execute(g)
      /\ next = (pc + 1) % AddressMod /\ after = (pc + 3) % AddressMod
  OBVIOUS
<1>h. h = FetchByte(g).gb
  OBVIOUS
<1> HIDE DEF bytes, pc, sp, e, h, next, after, name
<1>6. Has(h, bytes, next, sp) /\ h.memory = g.memory
  BY <1>1, <1>d, <1>h, FetchFrame
<1>7. \A x : Peek(h, x) = Peek(g, x)
  BY <1>6 DEF Peek
<1>p. PlainBelow(sp)
  BY <1>4 DEF PlainBelow
<1>8. ASSUME name = "PUSH"
      PROVE  Balanced
  <2> DEFINE reg == FindRegister16PushPop(OpcodeP(op))
             back == MaskF(Popped(StackPop16(e), reg))
             moved == Put(g, REG_PC, pc + 1)
  <2>1. e = StackPush16(Tick(h, 1), Get(h, reg))
    BY <1>8, <1>d, <1>h, PushExecuted
  <2>2. /\ reg \in {REG_AF, REG_BC, REG_DE, REG_HL}
        /\ reg = <<REG_BC, REG_DE, REG_HL, REG_AF>>[OpcodeP(op) + 1]
    BY <1>2, PushedPair
  <2>3. Undone(e, op) = back
    BY <1>8, <1>d, <2>2 DEF Undone, Pop
  <2>4. Behind(g, op) = moved
    BY <1>8, <1>d DEF Behind
  <2> HIDE DEF reg
  <2>5. Regained(back, e, h, bytes, next, sp)
    BY <1>1, <1>p, <1>6, <2>1, <2>2, PairReturns
  <2>6. pc + 1 \in Int
    BY <1>1
  <2>7. Has(moved, bytes, next, sp)
    BY <1>1, <1>d, <2>6, PutPointers
  <2>8. QED
    BY <2>3, <2>4, <2>5, <2>7
<1>9. ASSUME name = "RST"
      PROVE  Balanced
  <2> DEFINE address == 8 * Table!OpcodeY(op)
             moved == Put(g, REG_PC, pc + 1)
  <2>1. e = PushAndJump(h, address)
    BY <1>9, <1>d, <1>h, PushExecuted
  <2>2. address \in Int
    BY <1>2, OctalDigits
  <2>3. Undone(e, op) = Return(StackPop16(e))
    BY <1>9, <1>d DEF Undone
  <2>4. Behind(g, op) = moved
    BY <1>9, <1>d DEF Behind
  <2> HIDE DEF address
  <2>5. Regained(Return(StackPop16(e)), e, h, bytes, next, sp)
    BY <1>1, <1>3, <1>p, <1>6, <2>1, <2>2, CallReturns
  <2>6. pc + 1 \in Int
    BY <1>1
  <2>7. Has(moved, bytes, next, sp)
    BY <1>1, <1>d, <2>6, PutPointers
  <2>8. QED
    BY <2>3, <2>4, <2>5, <2>7
<1>10. ASSUME name = "CALL"
       PROVE  Balanced
  <2> DEFINE w == FetchWord(h)
             moved == Put(g, REG_PC, pc + 3)
  <2>1. Has(w.gb, bytes, after, sp) /\ w.gb.memory = h.memory
    BY <1>3, <1>6, FetchWordFrame
  <2>2. Good(h)
    BY <1>6 DEF Has
  <2>3. ReadsWord(w)
    BY <2>2, FetchTypes
  <2>4. w.value \in Int
    BY <2>3, Words16 DEF ReadsWord
  <2>5. e = w.gb \/ e = PushAndJump(w.gb, w.value)
    BY <1>10, <1>d, <1>h, PushExecuted
  <2> HIDE DEF w
  <2>6. e = PushAndJump(w.gb, w.value)
    BY <1>5, <2>1, <2>5 DEF Has
  <2>7. Undone(e, op) = Return(StackPop16(e))
    BY <1>10, <1>d DEF Undone
  <2>8. Behind(g, op) = moved
    BY <1>10, <1>d DEF Behind
  <2>9. pc + 3 \in Int
    BY <1>1
  <2>10. after \in Address
    BY <1>d, <2>9, Wrapped
  <2>11. Regained(Return(StackPop16(e)), e, w.gb, bytes, after, sp)
    BY <1>1, <1>p, <2>1, <2>4, <2>6, <2>10, CallReturns
  <2>12. Has(moved, bytes, after, sp)
    BY <1>1, <1>d, <2>9, PutPointers
  <2>13. \A x : Peek(w.gb, x) = Peek(h, x)
    BY <2>1 DEF Peek
  <2>14. Regained(Return(StackPop16(e)), e, h, bytes, after, sp)
    BY <2>11, <2>13 DEF Regained
  <2>15. QED
    BY <2>7, <2>8, <2>12, <2>14
<1>11. PICK to : /\ Regained(Undone(e, op), e, h, bytes, to, sp)
                 /\ Has(Behind(g, op), bytes, to, sp)
  BY <1>5, <1>8, <1>9, <1>10 DEF Pushing
<1>12. Undone(e, op).registers = Behind(g, op).registers
  BY <1>11, SameFile DEF Regained
<1>13. QED
  BY <1>4, <1>7, <1>11, <1>12, <1>d DEF Regained

(* PC alone moves behind the instruction.                                  *)
LEMMA BehindFrame ==
  ASSUME NEW g, Good(g), NEW op
  PROVE  /\ Get(Behind(g, op), REG_SP) = Get(g, REG_SP)
         /\ Behind(g, op).memory = g.memory
<1> DEFINE n == IF Table!Name(op) = "CALL" THEN 3 ELSE 1
           value == Get(g, REG_PC) + n
<1>1. Has(g, g.registers, Get(g, REG_PC), Get(g, REG_SP))
  BY DEF Has
<1>2. Get(g, REG_PC) \in Int
  BY GetType, PointerTypes, Words16
<1>3. n \in Int
  OBVIOUS
<1> HIDE DEF n
<1>4. value \in Int
  BY <1>2, <1>3
<1>5. Behind(g, op) = Put(g, REG_PC, value)
  BY DEF Behind, n
<1> HIDE DEF value
<1>6. /\ Has(Put(g, REG_PC, value), g.registers, value % AddressMod, Get(g, REG_SP))
      /\ Put(g, REG_PC, value).memory = g.memory
  BY <1>1, <1>4, PutPointers
<1>7. QED
  BY <1>5, <1>6 DEF Has

LEMMA PushIsUndone ==
  ASSUME WellFormed, ExecuteInstruction, NEW op, op = FetchByte(gb).value,
         Table!Name(op) \in Pushing, Get(gb', REG_SP) # Get(gb, REG_SP),
         \A a \in Slots(gb) : Device(a) = "memory"
  PROVE  Restores(Behind(gb, op), gb', Undone(gb', op))
<1> DEFINE upper == (Get(gb, REG_SP) - 1) % AddressMod
           lower == (Get(gb, REG_SP) - 2) % AddressMod
           before == Behind(gb, op)
<1>1. Good(gb)
  BY DEF WellFormed
<1>2. gb' = Execute(gb)
  BY DEF ExecuteInstruction
<1>3. Slots(gb) = {upper, lower}
  BY SlotsBelow
<1>4. Device(upper) = "memory" /\ Device(lower) = "memory"
  BY <1>3
<1>5. Get(before, REG_SP) = Get(gb, REG_SP) /\ before.memory = gb.memory
  BY <1>1, BehindFrame
<1>6. Get(Execute(gb), REG_SP) # Get(gb, REG_SP)
  BY <1>2
<1>7. /\ Undone(Execute(gb), op).registers = before.registers
      /\ Undone(Execute(gb), op).memory = Execute(gb).memory
      /\ \A x : x \notin {upper, lower} => Peek(Execute(gb), x) = Peek(gb, x)
  BY <1>1, <1>4, <1>6, TakenBack
<1>8. Slots(before) = {upper, lower}
  BY <1>5, SlotsBelow
<1>9. \A x : Peek(before, x) = Peek(gb, x)
  BY <1>5 DEF Peek
<1> HIDE DEF before, upper, lower
<1>10. Restores(before, gb', Undone(gb', op))
  BY <1>2, <1>7, <1>8, <1>9 DEF Restores
<1>11. QED
  BY <1>10 DEF before

(* Whatever the program, its stack in plain memory and the timer: POP of   *)
(* the same pair undoes PUSH, and a return undoes CALL and RST, flags, SP  *)
(* and PC included (instruction.c:52-92, 216-229, stack.h, cpu.c:63-110).  *)
THEOREM StackIsUndone == Spec => PushesAreUndone
<1> DEFINE TakesBack ==
      LET op == FetchByte(gb).value
      IN  /\ Get(gb', REG_SP) # Get(gb, REG_SP) /\ Table!Name(op) \in Pushing
          /\ ExecuteInstruction
          /\ \A a \in Slots(gb) : Device(a) = "memory"
          => Restores(Behind(gb, op), gb', Undone(gb', op))
<1>1. Init => WellFormed
  BY InitWellFormed
<1>2. WellFormed /\ [Next]_vars => WellFormed'
  BY NextWellFormed
<1>3. WellFormed /\ [Next]_vars => [TakesBack]_vars
  BY PushIsUndone
<1>4. QED
  BY <1>1, <1>2, <1>3, PTL DEF Spec, PushesAreUndone

-----------------------------------------------------------------------------
(* The command line. *)

Line == Programs[job].keys

(* The number of keys handed over so far. *)
Handed == Len(Line) - Len(keys)

(* i is the last of the first n keys that sets the log level.              *)
LastLevelOf(n, i) ==
  Line[i] \in LevelKeys /\ \A k \in 1..n : Line[k] \in LevelKeys => k <= i

(* The keys are a suffix of the line. *)
KeysLeft ==
  /\ Line \in Seq(Keys) /\ keys \in Seq(Keys) /\ Len(keys) <= Len(Line)
  /\ \A i \in 1..Len(keys) : keys[i] = Line[Handed + i]

(* The options are those of the keys before it, unless there has been a    *)
(* second cartridge.                                                       *)
BlarggGiven == options.blargg <=> \E i \in 1..Handed : Line[i] = "blargg"

LevelGiven ==
  options.log_level = LOG_INFO
    <=> \A i \in 1..Handed : LastLevelOf(Handed, i) => Line[i] = "level ?"

OptionsFollowKeys ==
  /\ KeysLeft
  /\ BlarggGiven
  /\ arg_num \in Nat
  /\ arg_num <= 1 => LevelGiven

(* What a key does to the options that decide about the console, unless it *)
(* is an argument too many.                                                *)
LEMMA ParsedOptions ==
  ASSUME options \in OptionsRecord, NEW key, NEW o \in Parsed(key)
  PROVE  /\ o.blargg <=> options.blargg \/ key = "blargg"
         /\ key \in LevelKeys => (o.log_level = LOG_INFO <=> key = "level ?")
         /\ key \notin LevelKeys /\ ~(key = "CARTRIDGE" /\ arg_num = NbArgs)
              => o.log_level = options.log_level
<1>1. CASE key = "trace" \/ key = "exit-infinite-loop"
  <2>1. /\ o.blargg <=> options.blargg
        /\ o.log_level = options.log_level
    <3>1. o \in WithTrace \cup WithExit
      BY <1>1, ParsedCases
    <3>2. QED
      BY <3>1 DEF WithTrace, WithExit, OptionsRecord
  <2>2. QED
    BY <1>1, <2>1 DEF LevelKeys
<1>2. CASE key = "blargg"
  <2>1. o = [options EXCEPT !.blargg = TRUE]
    BY <1>2, ParsedCases DEF WithBlargg
  <2>2. o.blargg /\ o.log_level = options.log_level
    BY <2>1 DEF OptionsRecord
  <2>3. QED
    BY <1>2, <2>2 DEF LevelKeys
<1>3. CASE key \in LevelKeys
  <2>1. PICK level \in LogLevels : /\ Parsed(key) = WithLevel(level)
                                   /\ level = LOG_INFO <=> key = "level ?"
    <3>1. /\ {LOG_INFO, LOG_TRACE, LOG_WARNING, LOG_ERROR, LOG_SILENT} \subseteq LogLevels
          /\ LOG_INFO \notin {LOG_TRACE, LOG_WARNING, LOG_ERROR, LOG_SILENT}
      BY DEF LogLevels, LOG_INFO, LOG_TRACE, LOG_WARNING, LOG_ERROR, LOG_SILENT
    <3>2. QED
      BY <1>3, <3>1, ParsedCases DEF LevelKeys
  <2>2. (o.blargg <=> options.blargg) /\ o.log_level = level
    BY <2>1 DEF WithLevel, OptionsRecord
  <2>3. QED
    BY <1>3, <2>1, <2>2 DEF LevelKeys
<1>4. CASE key = "CARTRIDGE" /\ arg_num = NbArgs
  <2>1. o.blargg <=> options.blargg
    BY <1>4, ParsedCases, StrayType
  <2>2. QED
    BY <1>4, <2>1 DEF LevelKeys
<1>5. CASE /\ key \notin {"trace", "exit-infinite-loop", "blargg"} \cup LevelKeys
           /\ ~(key = "CARTRIDGE" /\ arg_num = NbArgs)
  <2>1. key \notin Keys \ {"CARTRIDGE", "end"}
    BY <1>5 DEF LevelKeys, Keys
  <2>2. Parsed(key) = {options}
    BY <1>5, <2>1, ParsedCases
  <2>3. o = options
    BY <2>2
  <2>4. QED
    BY <1>5, <2>3
<1>6. QED
  BY <1>1, <1>2, <1>3, <1>4, <1>5

LEMMA InitFollows == Init => OptionsFollowKeys
<1> SUFFICES ASSUME Init
             PROVE  OptionsFollowKeys
  OBVIOUS
<1>0. job \in DOMAIN Programs /\ keys = Line
  BY DEF Init, Line
<1>1. Line \in Seq(Keys)
  <2>1. Programs[job].keys \in Seq(Keys)
    BY <1>0, ProgramsAssumption
  <2>2. QED
    BY <2>1 DEF Line
<1>2. Len(Line) \in Nat /\ Handed = 0
  BY <1>0, <1>1 DEF Handed
<1>3. ~options.blargg /\ options.log_level = LOG_INFO /\ arg_num = 0
  BY DEF Init, OptionsInit
<1>4. KeysLeft
  BY <1>0, <1>1, <1>2 DEF KeysLeft
<1>5. BlarggGiven
  BY <1>2, <1>3 DEF BlarggGiven
<1>6. LevelGiven
  BY <1>2, <1>3 DEF LevelGiven
<1>7. QED
  BY <1>3, <1>4, <1>5, <1>6 DEF OptionsFollowKeys

LEMMA ParseFollows ==
  ASSUME WellFormed, OptionsFollowKeys, ParseOption, keys # << >>
  PROVE  OptionsFollowKeys'
<1> DEFINE key == Head(keys)
           n == Handed
<1>1. /\ options \in OptionsRecord /\ options' \in Parsed(key)
      /\ keys' = Tail(keys) /\ job' = job
      /\ arg_num' = IF key = "CARTRIDGE" THEN arg_num + 1 ELSE arg_num
  BY DEF WellFormed, ParseOption, ParseOpt
<1>2. /\ Line \in Seq(Keys) /\ keys \in Seq(Keys)
      /\ Len(Line) \in Nat /\ Len(keys) \in Nat /\ Len(keys) <= Len(Line) /\ Len(keys) >= 1
  <2>1. Line \in Seq(Keys) /\ keys \in Seq(Keys) /\ Len(keys) <= Len(Line)
    BY DEF OptionsFollowKeys, KeysLeft
  <2>2. Len(keys) # 0
    BY <2>1
  <2>3. QED
    BY <2>1, <2>2
<1>3. /\ keys' \in Seq(Keys) /\ Len(keys') = Len(keys) - 1
      /\ \A i \in 1..Len(keys') : keys'[i] = keys[i + 1]
  BY <1>1, <1>2, HeadTailProperties
<1>4. Line' = Line /\ n \in Nat /\ Handed' = n + 1
  BY <1>1, <1>2, <1>3 DEF Line, Handed
<1>5. key = Line[n + 1]
  <2>1. key = keys[1] /\ 1 \in 1..Len(keys)
    BY <1>2
  <2>2. QED
    BY <2>1 DEF OptionsFollowKeys, KeysLeft
<1>6. \A i \in 1..Len(keys') : keys'[i] = Line[n + 1 + i]
  <2> SUFFICES ASSUME NEW i \in 1..Len(keys')
               PROVE  keys'[i] = Line[n + 1 + i]
    OBVIOUS
  <2>1. i + 1 \in 1..Len(keys) /\ keys'[i] = keys[i + 1]
    BY <1>2, <1>3
  <2>2. keys[i + 1] = Line[n + (i + 1)]
    BY <2>1 DEF OptionsFollowKeys, KeysLeft
  <2>3. n + (i + 1) = n + 1 + i
    BY <1>4
  <2>4. QED
    BY <2>1, <2>2, <2>3
<1> HIDE DEF n, key
<1>7. 1..(n + 1) = (1..n) \cup {n + 1}
  BY <1>4
<1>8. options.blargg <=> \E i \in 1..n : Line[i] = "blargg"
  BY DEF OptionsFollowKeys, BlarggGiven, n
<1>9. options'.blargg <=> \E i \in 1..(n + 1) : Line[i] = "blargg"
  <2>1. options'.blargg <=> options.blargg \/ key = "blargg"
    BY <1>1, ParsedOptions
  <2>2. QED
    BY <1>5, <1>7, <1>8, <2>1
<1>10. arg_num \in Nat /\ arg_num' \in Nat /\ arg_num <= arg_num'
  BY <1>1 DEF OptionsFollowKeys
<1>11. ASSUME arg_num' <= 1
       PROVE  options'.log_level = LOG_INFO
                <=> \A i \in 1..(n + 1) : LastLevelOf(n + 1, i) => Line[i] = "level ?"
  <2>1. options.log_level = LOG_INFO
          <=> \A i \in 1..n : LastLevelOf(n, i) => Line[i] = "level ?"
    <3>1. LevelGiven
      BY <1>10, <1>11 DEF OptionsFollowKeys
    <3>2. QED
      BY <3>1 DEF LevelGiven, n
  <2>2. CASE key \in LevelKeys
    <3>1. options'.log_level = LOG_INFO <=> key = "level ?"
      BY <1>1, <2>2, ParsedOptions
    <3>2. \A i \in 1..(n + 1) : LastLevelOf(n + 1, i) <=> i = n + 1
      BY <1>4, <1>5, <1>7, <2>2 DEF LastLevelOf
    <3>3. QED
      BY <1>5, <1>7, <3>1, <3>2
  <2>3. CASE key \notin LevelKeys
    <3>1. ~(key = "CARTRIDGE" /\ arg_num = NbArgs)
      BY <1>1, <1>10, <1>11 DEF NbArgs
    <3>2. options'.log_level = options.log_level
      BY <1>1, <2>3, <3>1, ParsedOptions
    <3>3. ~LastLevelOf(n + 1, n + 1)
      BY <1>5, <2>3 DEF LastLevelOf
    <3>4. \A i \in 1..n : LastLevelOf(n + 1, i) <=> LastLevelOf(n, i)
      BY <1>5, <1>7, <2>3 DEF LastLevelOf
    <3>5. QED
      BY <1>7, <2>1, <3>2, <3>3, <3>4
  <2>4. QED
    BY <2>2, <2>3
<1>12. KeysLeft'
  BY <1>2, <1>3, <1>4, <1>6 DEF KeysLeft
<1>13. BlarggGiven'
  BY <1>4, <1>9 DEF BlarggGiven
<1>14. ASSUME arg_num' <= 1
       PROVE  LevelGiven'
  <2>1. options'.log_level = LOG_INFO
          <=> \A i \in 1..Handed' : LastLevelOf(Handed', i) => Line[i] = "level ?"
    BY <1>4, <1>11, <1>14
  <2>2. \A i : LastLevelOf(Handed, i)' <=> LastLevelOf(Handed', i)
    BY <1>4 DEF LastLevelOf
  <2>3. QED
    BY <1>4, <2>1, <2>2 DEF LevelGiven
<1>15. QED
  BY <1>10, <1>12, <1>13, <1>14 DEF OptionsFollowKeys
-----------------------------------------------------------------------------
(* The console. *)

(* Nothing has run before the last key; no program begins with a byte to   *)
(* collect.                                                                *)
NothingBefore ==
  /\ job \in DOMAIN Programs
  /\ phase = "options" => keys # << >> /\ gb.memory = Programs[job].rom
  /\ keys # << >> => phase \in {"options", "stopped"} /\ output = << >> /\ shown = << >>

(* Without -b nothing is collected; what can be shown has been printed.    *)
Printed ==
  /\ output # << >> \/ phase = "console" => options.blargg
  /\ Text(output) # << >> => last_output_size = Len(output)

(* A second cartridge silences the log behind the options' back.           *)
ShownFollowsLevel ==
  arg_num <= 1 =>
    shown = IF options.log_level = LOG_INFO THEN Text(output) ELSE << >>

NoByteWaits == phase = "step" /\ options.blargg => ~CheckIsTrue

Console == NothingBefore /\ Printed /\ ShownFollowsLevel /\ NoByteWaits

LEMMA EmptyText ==
  /\ Text(<< >>) = << >>
  /\ \A o \in Seq(Byte) : Text(o) = << >> <=> (o = << >> \/ o[1] = 0)
<1>1. ASSUME NEW o \in Seq(Byte), o = << >>
      PROVE  Text(o) = << >>
  <2>1. {i \in 1..Len(o) : o[i] = 0} = {}
    BY <1>1
  <2>2. QED
    BY <1>1, <2>1 DEF Text
<1>2. ASSUME NEW o \in Seq(Byte), o # << >>
      PROVE  Text(o) = << >> <=> o[1] = 0
  <2> DEFINE zeros == {i \in 1..Len(o) : o[i] = 0}
             m == Min(zeros)
  <2>1. Len(o) \in Nat /\ Len(o) >= 1 /\ zeros \subseteq Nat
    BY <1>2
  <2>2. CASE zeros = {}
    <3>1. Text(o) = o /\ 1 \notin zeros
      BY <2>2 DEF Text
    <3>2. QED
      BY <1>2, <2>1, <3>1
  <2>3. CASE zeros # {}
    <3>1. m \in zeros /\ \A n \in zeros : m <= n
      <4> HIDE DEF zeros
      <4> QED
        BY <2>1, <2>3, LeastElement
    <3>2. Text(o) = SubSeq(o, 1, m - 1)
      BY <2>3 DEF Text
    <3>3. m \in 1..Len(o) /\ o[m] = 0 /\ (o[1] = 0 => m = 1)
      BY <2>1, <3>1
    <3> HIDE DEF m, zeros
    <3>4. Len(SubSeq(o, 1, m - 1)) = m - 1
      <4>1. 1 \in Int /\ m - 1 \in Int /\ \A i \in 1..(m - 1) : o[i] \in Byte
        BY <2>1, <3>3
      <4>2. QED
        BY <3>3, <4>1, SubSeqProperties
    <3>5. CASE m = 1
      <4>1. SubSeq(o, 1, 0) = << >>
        BY SubSeqEmpty
      <4>2. QED
        BY <3>2, <3>3, <3>5, <4>1
    <3>6. CASE m # 1
      BY <3>2, <3>3, <3>4, <3>6
    <3>7. QED
      BY <3>5, <3>6
  <2>4. QED
    BY <2>2, <2>3
<1>3. << >> \in Seq(Byte)
  OBVIOUS
<1>4. QED
  BY <1>1, <1>2, <1>3

(* A byte more cannot take the text away. *)
LEMMA TextGrows ==
  ASSUME NEW o \in Seq(Byte), NEW b \in Byte, Text(Append(o, b)) = << >>
  PROVE  Text(o) = << >>
<1>1. Append(o, b) \in Seq(Byte) /\ Append(o, b) # << >>
  BY AppendProperties
<1>2. Append(o, b)[1] = 0
  BY <1>1, EmptyText
<1>3. o = << >> \/ o[1] = 0
  BY <1>2
<1>4. QED
  BY <1>3, EmptyText

LEMMA CheckCell ==
  /\ TEST_CHECK \in Address /\ 0 \in Byte /\ Device(TEST_CHECK) = "memory"
  /\ \A g : ReadMemory(g, TEST_CHECK) = Peek(g, TEST_CHECK)
  /\ \A g \in State : ReadMemory(WriteMemory(g, TEST_CHECK, 0), TEST_CHECK) = 0
<1>1. TEST_CHECK \in Address /\ 0 \in Byte
  BY Bytes8, Words16 DEF TEST_CHECK
<1>2. Device(TEST_CHECK) = "memory"
  BY DEF Device, InRange, IoDevice, TEST_CHECK
<1>3. \A g : ReadMemory(g, TEST_CHECK) = Peek(g, TEST_CHECK)
  BY <1>2 DEF ReadMemory, ReadDevice
<1>4. ASSUME NEW g \in State
      PROVE  ReadMemory(WriteMemory(g, TEST_CHECK, 0), TEST_CHECK) = 0
  <2>1. WriteMemory(g, TEST_CHECK, 0) = Poke(g, TEST_CHECK, 0)
    BY <1>2 DEF WriteMemory, WriteDevice
  <2>2. Peek(Poke(g, TEST_CHECK, 0), TEST_CHECK) = 0
    BY DEF Peek, Poke, State
  <2>3. QED
    BY <1>3, <2>1, <2>2
<1>5. QED
  BY <1>1, <1>2, <1>3, <1>4

LEMMA InitConsole == Init => Console
<1> SUFFICES ASSUME Init
             PROVE  Console
  OBVIOUS
<1>1. /\ job \in DOMAIN Programs /\ phase = "options" /\ keys = Programs[job].keys
      /\ output = << >> /\ shown = << >> /\ gb = Reset(Programs[job].rom)
  BY DEF Init
<1>2. keys # << >>
  BY <1>1, ProgramsAssumption
<1>3. gb.memory = Programs[job].rom
  BY <1>1 DEF Reset
<1>4. Text(output) = << >>
  BY <1>1, EmptyText
<1>5. QED
  BY <1>1, <1>2, <1>3, <1>4
  DEF Console, NothingBefore, Printed, ShownFollowsLevel, NoByteWaits

LEMMA ParseConsole ==
  ASSUME WellFormed, Console, OptionsFollowKeys, ParseOption
  PROVE  Console'
<1>1. /\ job \in DOMAIN Programs /\ job' = job /\ keys # << >>
      /\ output = << >> /\ shown = << >>
      /\ output' = output /\ shown' = shown
      /\ gb.memory = Programs[job].rom
      /\ keys' = Tail(keys) /\ phase' = IF Tail(keys) = << >> THEN "step" ELSE "options"
  BY DEF ParseOption, Console, NothingBefore, consoleVars
<1>2. gb' = [gb EXCEPT !.exit_infinite_loop = options'.exit_infinite_loop]
  BY DEF ParseOption
<1>3. gb'.memory = Programs[job].rom
  <2>1. gb \in State
    BY DEF WellFormed, Good
  <2>2. QED
    BY <1>1, <1>2, <2>1 DEF State
<1>4. Text(output') = << >>
  BY <1>1, EmptyText
<1>5. ReadMemory(gb', TEST_CHECK) = 0
  <2>1. \A a \in DOMAIN Programs[job].rom : Device(a) = "cartridge"
    BY <1>1, ProgramsAssumption
  <2>2. TEST_CHECK \notin DOMAIN Programs[job].rom
    BY <2>1, CheckCell
  <2>3. Peek(gb', TEST_CHECK) = 0
    BY <1>3, <2>2 DEF Peek
  <2>4. QED
    BY <2>3, CheckCell
<1>6. NothingBefore'
  BY <1>1, <1>3 DEF NothingBefore
<1>7. Printed'
  BY <1>1, <1>4 DEF Printed
<1>8. ShownFollowsLevel'
  BY <1>1, <1>4 DEF ShownFollowsLevel
<1>9. NoByteWaits'
  BY <1>5 DEF NoByteWaits, CheckIsTrue
<1>10. QED
  BY <1>6, <1>7, <1>8, <1>9 DEF Console

LEMMA TestRomConsole ==
  ASSUME WellFormed, Console, TestRom
  PROVE  Console'
<1> DEFINE prints == Text(output') # << >> /\ Len(output') > last_output_size
<1>1. /\ phase = "console" /\ phase' = "step"
      /\ UNCHANGED <<job, options, keys, arg_num>>
      /\ last_output_size' = IF prints THEN Len(output') ELSE last_output_size
      /\ shown' = IF prints /\ Logged(LOG_INFO) THEN Text(output') ELSE shown
  BY DEF TestRom, optionVars
<1>2. /\ output \in Seq(Byte) /\ last_output_size \in Nat /\ last_output_size <= Len(output)
      /\ Good(gb) /\ gb \in State /\ options \in OptionsRecord
  BY DEF WellFormed, Good
<1>3. options.blargg /\ job \in DOMAIN Programs /\ keys = << >>
  BY <1>1 DEF Console, Printed, NothingBefore
<1>4. Logged(LOG_INFO) <=> options.log_level = LOG_INFO
  <2>1. options.log_level \in LogLevels
    BY <1>2 DEF OptionsRecord
  <2>2. QED
    BY <2>1 DEF Logged, LogLevels, LOG_INFO, LOG_TRACE, LOG_SILENT
<1>5. \/ output' = output
      \/ /\ output' \in Seq(Byte) /\ Len(output') > last_output_size
         /\ Text(output') = << >> => Text(output) = << >>
  <2>1. CASE CheckIsTrue
    <3>1. output' = Append(output, ReadMemory(gb, TEST_VALUE))
      BY <2>1 DEF TestRom
    <3>2. ReadMemory(gb, TEST_VALUE) \in Byte
      BY <1>2, ReadMemoryType
    <3>3. Len(output') = Len(output) + 1 /\ output' \in Seq(Byte)
      BY <1>2, <3>1, <3>2, AppendProperties
    <3>4. QED
      BY <1>2, <3>1, <3>2, <3>3, TextGrows
  <2>2. CASE ~CheckIsTrue
    BY <2>2 DEF TestRom
  <2>3. QED
    BY <2>1, <2>2
<1>6. /\ Text(output) # << >> => last_output_size = Len(output)
      /\ arg_num <= 1 =>
           shown = IF options.log_level = LOG_INFO THEN Text(output) ELSE << >>
  BY DEF Console, Printed, ShownFollowsLevel
<1>7. Text(output') # << >> => last_output_size' = Len(output')
  BY <1>1, <1>2, <1>5, <1>6
<1>8. arg_num <= 1 =>
        shown' = IF options.log_level = LOG_INFO THEN Text(output') ELSE << >>
  BY <1>1, <1>2, <1>4, <1>5, <1>6
<1>9. ~CheckIsTrue'
  <2>1. CASE CheckIsTrue
    <3>1. gb' = WriteMemory(gb, TEST_CHECK, 0)
      BY <2>1 DEF TestRom, Acknowledged
    <3>2. ReadMemory(gb', TEST_CHECK) = 0
      BY <1>2, <3>1, CheckCell
    <3>3. QED
      BY <3>2 DEF CheckIsTrue
  <2>2. CASE ~CheckIsTrue
    BY <2>2 DEF TestRom, CheckIsTrue
  <2>3. QED
    BY <2>1, <2>2
<1>10. NothingBefore'
  BY <1>1, <1>3 DEF NothingBefore
<1>11. Printed'
  BY <1>1, <1>3, <1>7 DEF Printed
<1>12. ShownFollowsLevel'
  BY <1>1, <1>8 DEF ShownFollowsLevel
<1>13. QED
  BY <1>9, <1>10, <1>11, <1>12 DEF Console, NoByteWaits

(* The invariant of the command line and the console. *)
Conversation == WellFormed /\ OptionsFollowKeys /\ Console

LEMMA ConversationGoesOn == Conversation /\ [Next]_vars => Conversation'
<1> SUFFICES ASSUME WellFormed, OptionsFollowKeys, Console, [Next]_vars
             PROVE  Conversation'
  BY DEF Conversation
<1>1. WellFormed'
  BY NextWellFormed
<1>2. CASE ParseOption
  <2>1. keys # << >>
    BY <1>2 DEF ParseOption, Console, NothingBefore
  <2>2. QED
    BY <1>1, <1>2, <2>1, ParseFollows, ParseConsole DEF Conversation
<1>3. ASSUME UNCHANGED <<job, optionVars>>
      PROVE  OptionsFollowKeys'
  BY <1>3 DEF optionVars, OptionsFollowKeys, KeysLeft, BlarggGiven, LevelGiven,
              LastLevelOf, Handed, Line
<1>4. CASE TestRom
  <2>1. UNCHANGED <<job, optionVars>>
    BY <1>4 DEF TestRom
  <2>2. QED
    BY <1>1, <1>3, <1>4, <2>1, TestRomConsole DEF Conversation
<1>5. ASSUME UNCHANGED <<job, optionVars, consoleVars>>,
             phase # "options" \/ phase' = "stopped", phase' # "options",
             keys # << >> => phase' = "stopped",
             phase' = "console" => options.blargg,
             phase' = "step" => ~options.blargg
      PROVE  Conversation'
  <2>1. OptionsFollowKeys'
    BY <1>3, <1>5
  <2>2. NothingBefore'
    BY <1>5 DEF Console, NothingBefore, optionVars, consoleVars
  <2>3. Printed'
    BY <1>5 DEF Console, Printed, optionVars, consoleVars
  <2>4. ShownFollowsLevel'
    BY <1>5 DEF Console, ShownFollowsLevel, optionVars, consoleVars
  <2>5. NoByteWaits'
    BY <1>5 DEF NoByteWaits, optionVars
  <2>6. QED
    BY <1>1, <2>1, <2>2, <2>3, <2>4, <2>5 DEF Conversation, Console
<1>6. phase \in {"step", "interrupts"} => keys = << >>
  BY DEF Console, NothingBefore
<1>7. CASE Refuse
  BY <1>5, <1>7 DEF Refuse
<1>8. CASE ExecuteInstruction
  BY <1>5, <1>6, <1>8 DEF ExecuteInstruction
<1>9. CASE HaltTick
  BY <1>5, <1>6, <1>9 DEF HaltTick
<1>10. CASE ServeInterrupts
  BY <1>5, <1>6, <1>10 DEF ServeInterrupts
<1>11. CASE UNCHANGED vars
  <2>1. UNCHANGED <<job, gb, phase, optionVars, consoleVars>>
    BY <1>11 DEF vars
  <2>2. Console'
    BY <2>1 DEF optionVars, consoleVars, Console, NothingBefore, Printed,
                ShownFollowsLevel, NoByteWaits, CheckIsTrue
  <2>3. QED
    BY <1>1, <1>3, <2>1, <2>2 DEF Conversation
<1>12. QED
  BY <1>2, <1>4, <1>7, <1>8, <1>9, <1>10, <1>11 DEF Next

LEMMA ConversationShows == Conversation => ConsoleShowsOutput
<1> SUFFICES ASSUME WellFormed, OptionsFollowKeys, Console
             PROVE  ConsoleShowsOutput
  BY DEF Conversation
<1>1. phase = "step" /\ options.blargg => ~CheckIsTrue
  BY DEF Console, NoByteWaits
<1>2. ASSUME arg_num = 1
      PROVE  shown = IF Shows(Line) THEN Text(output) ELSE << >>
  <2>1. shown = IF options.log_level = LOG_INFO THEN Text(output) ELSE << >>
    BY <1>2 DEF Console, ShownFollowsLevel
  <2>2. CASE output = << >>
    <3>1. Text(output) = << >>
      BY <2>2, EmptyText
    <3>2. QED
      BY <2>1, <3>1
  <2>3. CASE output # << >>
    <3>1. keys = << >> /\ options.blargg
      BY <2>3 DEF Console, NothingBefore, Printed
    <3>2. Line \in Seq(Keys) /\ Len(Line) \in Nat /\ DOMAIN Line = 1..Len(Line)
      BY DEF OptionsFollowKeys, KeysLeft
    <3>3. Handed = Len(Line)
      BY <3>1, <3>2 DEF Handed
    <3>4. "blargg" \in ToSet(Line)
      BY <3>1, <3>2, <3>3 DEF OptionsFollowKeys, BlarggGiven, ToSet
    <3>5. \A i : LastLevelOf(Handed, i) <=> LastLevel(Line, i)
      BY <3>2, <3>3 DEF LastLevelOf, LastLevel
    <3>6. options.log_level = LOG_INFO
            <=> \A i \in DOMAIN Line : LastLevel(Line, i) => Line[i] = "level ?"
      <4>1. LevelGiven
        BY <1>2 DEF OptionsFollowKeys
      <4>2. DOMAIN Line = 1..Handed
        BY <3>2, <3>3
      <4>3. options.log_level = LOG_INFO
              <=> \A i \in 1..Handed : LastLevelOf(Handed, i) => Line[i] = "level ?"
        BY <4>1 DEF LevelGiven
      <4>4. QED
        BY <3>5, <4>2, <4>3
    <3>7. QED
      BY <2>1, <3>4, <3>6 DEF Shows
  <2>4. QED
    BY <2>2, <2>3
<1>3. QED
  BY <1>1, <1>2 DEF ConsoleShowsOutput, Line

(* Whatever the program writes to the port, the command line and the       *)
(* interrupts: the last test result in the log is all the output so far,   *)
(* shown exactly if the keys ask for it, and every byte is taken out of    *)
(* the port before the next instruction (test_rom.c:10-46, log.c:20-31,    *)
(* options.c:31-79, main.c:22-36).                                         *)
THEOREM ConsoleShowsAll == Spec => []ConsoleShowsOutput
<1>1. Init => Conversation
  BY InitWellFormed, InitFollows, InitConsole DEF Conversation
<1>2. Conversation /\ [Next]_vars => Conversation'
  BY ConversationGoesOn
<1>3. Conversation => ConsoleShowsOutput
  BY ConversationShows
<1>4. QED
  BY <1>1, <1>2, <1>3, PTL DEF Spec
=============================================================================
