--------------------------------- MODULE Cpu --------------------------------
(***************************************************************************)
(* The processor with its data: what one call of execute_instruction() or  *)
(* handle_interrupts() makes of the emulator's state.  Nothing runs beside *)
(* such a call, so each is an operator from a state to the next one.       *)
(*                                                                         *)
(* A state g is a record: the register file, the memory, halt,             *)
(* ime_scheduled, the registers of the interrupt controller and of the     *)
(* timer as bytes, exit_infinite_loop (the option -x) and is_running,      *)
(* which is also cleared where the process exits.  The memory holds        *)
(* g_cpu.memory from 0x8000 on and below it the ROM of a cartridge of      *)
(* 32 KiB without a controller; a byte outside its domain is 0.            *)
(***************************************************************************)
EXTENDS Alu, Bus, Registers, FiniteSetsExt

\* The opcode tables, where ExitInfiniteLoop plays no part.
Table == INSTANCE Instructions WITH ExitInfiniteLoop <- FALSE

-----------------------------------------------------------------------------
(* timer.c *)

\* g_freq_divider / 4.
Divider == <<256, 4, 16, 64>>

\* increase_tima, a u8.
PeriodEnds(div, ticks, freq) == ((div + ticks) \div freq - div \div freq) % 256

\* timer_ticks, once the overflow of the last call has reloaded TIMA.
Counted(g, ticks, tima, increase) ==
  LET overflows == increase # 0 /\ tima = 255
  IN  [g EXCEPT !.div = (@ + ticks) % 65536,
                !.ime = @ \/ g.ime_scheduled,
                !.ime_scheduled = FALSE,
                !.if_reg = IF g.tima_overflow THEN FromBits(Bits(@) \cup {2}) ELSE @,
                !.tima = IF overflows THEN 0 ELSE (tima + increase) % 256,
                !.tima_overflow = overflows]

\* timer_ticks(n).
Tick(g, n) ==
  Counted(g, n, IF g.tima_overflow THEN g.tma ELSE g.tima,
          IF g.tac >= 4 THEN PeriodEnds(g.div, n, Divider[(g.tac % 4) + 1]) ELSE 0)

-----------------------------------------------------------------------------
(* memory.c, io.c *)

Peek(g, a) == IF a \in DOMAIN g.memory THEN g.memory[a] ELSE 0
Poke(g, a, byte) ==
  [g EXCEPT !.memory = [x \in DOMAIN @ \cup {a} |-> IF x = a THEN byte ELSE @[x]]]

ReadDevice(g, a, device) ==
  CASE device = "DIV"  -> MSB(g.div)
    [] device = "TIMA" -> g.tima
    [] device = "TMA"  -> g.tma
    [] device = "TAC"  -> g.tac
    [] device = "IF"   -> g.if_reg
    [] device = "IE"   -> g.ie_reg
    [] OTHER           -> Peek(g, a)

ReadMemory(g, a) == ReadDevice(g, a, Device(a))

WriteDevice(g, a, byte, device) ==
  CASE device = "DIV"  -> [g EXCEPT !.div = 0]
    [] device = "TIMA" -> [g EXCEPT !.tima = byte]
    [] device = "TMA"  -> [g EXCEPT !.tma = byte]
    [] device = "TAC"  -> [g EXCEPT !.tac = byte % 8]
    [] device = "IF"   -> [g EXCEPT !.if_reg = byte]
    [] device = "IE"   -> [g EXCEPT !.ie_reg = byte]
    [] OTHER           -> Poke(g, a, byte)

WriteMemory(g, a, byte) == WriteDevice(g, a, byte, Device(a))

WriteMemory16(g, a, word) ==
  WriteMemory(WriteMemory(g, a, LSB(word)), (a + 1) % AddressMod, MSB(word))

\* read_memory_16bit, whose upper byte no caller uses: above the ROM it looks
\* into g_cpu.memory, whatever the address; the last address of the ROM ends
\* the process, because the byte after it is asked of the cartridge too.
ReadWide(g, a) == Peek(g, a)
WideStops(a) == a = 32767

-----------------------------------------------------------------------------
(* Registers, flags and the stack (cpu.c, flag.h, stack.h). *)

Get(g, reg) == ReadRegister16(g.registers, reg)
Put(g, reg, value) ==
  [g EXCEPT !.registers = WriteRegister16(@, reg, value)]

FlagsOf(f) ==
  [z |-> Bit(f, 7), n |-> Bit(f, 6), h |-> Bit(f, 5), c |-> Bit(f, 4)]
GetFlags(g) == FlagsOf(Get(g, REG_F))

\* set_flag on each flag: the lower four bits stay.
PutFlags(g, f) ==
  Put(g, REG_F, 128 * Number(f.z) + 64 * Number(f.n) + 32 * Number(f.h)
                  + 16 * Number(f.c) + (Get(g, REG_F) % 16))

\* Store below the stack pointer sp and lower it.
PushAt(g, sp, byte) == WriteMemory(Put(g, REG_SP, sp), sp, byte)
Below(g) == (Get(g, REG_SP) - 1) % AddressMod

StackPush(g, byte) == PushAt(Tick(g, 1), Below(g), byte)

\* Variant of StackPush16: the lower byte is pushed first.
StackPush16Swapped(g, word) == StackPush(StackPush(g, LSB(word)), MSB(word))

StackPush16(g, word) == StackPush(StackPush(g, MSB(word)), LSB(word))

\* A value read on the way, with the state after it.
Read(g, value) == [gb |-> g, value |-> value]

\* A byte at the register reg, which moves past it.
ReadAt(g, reg, a) == Read(Put(g, reg, a + 1), ReadMemory(g, a))
ReadNext(g, reg) == ReadAt(Tick(g, 1), reg, Get(g, reg))

\* Two of them, the lower byte first.
Joined(low, high) == Read(high.gb, low.value + 256 * high.value)
ReadUpper(low, reg) == Joined(low, ReadNext(low.gb, reg))
ReadNext16(g, reg) == ReadUpper(ReadNext(g, reg), reg)

StackPop16(g) == ReadNext16(g, REG_SP)

-----------------------------------------------------------------------------
(* instruction_fetch.c *)

\* fetch_opcode, read_8bit_data; read_16bit_data.
FetchByte(g) == ReadNext(g, REG_PC)
FetchWord(g) == ReadNext16(g, REG_PC)

OpcodeP(op) == (op \div 16) % 4

FindRegister(code) == IF code = 7 THEN REG_A ELSE REG_B + code
FindRegister16(code) == IF code = 3 THEN REG_SP ELSE REG_BC + code
FindRegister16PushPop(code) == IF code = 3 THEN REG_AF ELSE REG_BC + code

\* in.reg1: unless an operand sets it, what the initialiser leaves there.
Reg1(op, type, name) ==
  CASE type \in {"R8", "R8_R8", "R8_D8", "R8_HL_REL"} -> FindRegister(Table!OpcodeY(op))
    [] type = "R16" /\ name \in {"POP", "PUSH"} -> FindRegister16PushPop(OpcodeP(op))
    [] type = "R16" /\ name \notin {"POP", "PUSH"} -> FindRegister16(OpcodeP(op))
    [] type = "R16_D16" -> FindRegister16(OpcodeP(op))
    [] type = "HL_REL_R8" -> FindRegister(Table!OpcodeZ(op))
    [] type \in {"SP_HL", "SP_S8"} -> REG_SP
    [] type \in {"HL_R16", "HL_S8"} -> REG_HL
    [] type \in {"A_R16_REL", "A_D16_REL", "A_HLD", "A_HLI", "A_C_REL",
                 "A_D8_REL", "A_R8", "A_D8", "A_HL_REL", "R16_REL_A",
                 "D16_REL_A", "HLD_A", "HLI_A", "C_REL_A", "D8_REL_A"} -> REG_A
    [] OTHER -> REG_ERR

\* in.reg2: the initialiser's 0xdead lands in it, one field early.
Reg2(op, type) ==
  CASE type \in {"R8_R8", "A_R8"} -> FindRegister(Table!OpcodeZ(op))
    [] type = "SP_HL"  -> REG_HL
    [] type = "HL_R16" -> FindRegister16(OpcodeP(op))
    [] OTHER           -> 57005

\* read_flag.
ReadFlag(f, code) ==
  CASE code = 0 -> ~f.z
    [] code = 1 -> f.z
    [] code = 2 -> ~f.c
    [] code = 3 -> f.c

Condition(g, op, type) ==
  type \in {"FLAG", "FLAG_A16", "FLAG_S8"} =>
    ReadFlag(GetFlags(g), Table!OpcodeY(op) % 4)

\* The types whose operand is the byte or the word after the opcode.
ByteData == {"S8", "FLAG_S8", "D8", "R8_D8", "A_D8", "HL_S8", "SP_S8", "HL_REL_D8"}
WordAddress == {"A16", "FLAG_A16", "D16_REL_A", "D16_REL_SP"}

\* The load of a byte in state h, plain, moving HL by a step, from the high
\* page, or through the word-wide read.
Load(h, a) == Read(h, ReadMemory(h, a))
LoadHl(h, hl, step) == Read(Put(h, REG_HL, hl + step), ReadMemory(h, hl))
LoadHigh(read) == Load(read.gb, 65280 + read.value)
LoadWide(h, a) == Read(IF WideStops(a) THEN [h EXCEPT !.running = FALSE] ELSE h,
                       ReadWide(h, a))
LoadWideAt(read) == LoadWide(read.gb, read.value)

\* What a type loads from memory; t is the state after the tick of the load.
Loaded(t, op, type) ==
  CASE type = "A_HLD"     -> LoadHl(t, Get(t, REG_HL), -1)
    [] type = "A_HLI"     -> LoadHl(t, Get(t, REG_HL), 1)
    [] type = "A_C_REL"   -> Load(t, 65280 + Get(t, REG_C))
    [] type = "A_D8_REL"  -> LoadHigh(FetchByte(t))
    [] type = "A_R16_REL" -> LoadWide(t, Get(t, FindRegister16(OpcodeP(op))))
    [] type = "A_D16_REL" -> LoadWideAt(FetchWord(t))
    [] OTHER              -> Load(t, Get(t, REG_HL))

\* in.data read on the way, or in.address; HL as the address may move.
InData(read, address) == [gb |-> read.gb, address |-> address, data |-> read.value]
InAddress(read, base, data) ==
  [gb |-> read.gb, address |-> base + read.value, data |-> data]
InHl(g, hl, step) == InAddress(Read(Put(g, REG_HL, hl + step), hl), 0, 0)

\* in.address and in.data; one that the handlers of a type do not look at is
\* left open.
Operands(g, op, type) ==
  CASE type \in ByteData    -> InData(FetchByte(g), Get(g, REG_HL))
    [] type \in WordAddress -> InAddress(FetchWord(g), 0, Get(g, REG_SP))
    [] type = "R16_D16"     -> InData(FetchWord(g), 0)
    [] type = "D8_REL_A"    -> InAddress(FetchByte(g), 65280, 0)
    [] type = "C_REL_A"     -> InAddress(Read(g, Get(g, REG_C)), 65280, 0)
    [] type = "R16_REL_A"   -> InAddress(Read(g, Get(g, FindRegister16(OpcodeP(op)))), 0, 0)
    [] type = "HLD_A"       -> InHl(g, Get(g, REG_HL), -1)
    [] type = "HLI_A"       -> InHl(g, Get(g, REG_HL), 1)
    [] type \in {"HL_REL", "HL_REL_R8"} -> InHl(g, Get(g, REG_HL), 0)
    [] type = "RST"         -> InData(Read(g, 8 * Table!OpcodeY(op)), 0)
    [] type \in {"R8_HL_REL", "A_HL_REL", "A_R16_REL", "A_D16_REL", "A_HLD",
                 "A_HLI", "A_C_REL", "A_D8_REL"} -> InData(Loaded(Tick(g, 1), op, type), 0)
    [] OTHER                -> InData(Read(g, 0), 0)

\* The instruction, once its operands are fetched.
Fetched(g, op, type, name, operands) ==
  [gb |-> operands.gb, name |-> name, type |-> type, reg1 |-> Reg1(op, type, name),
   reg2 |-> Reg2(op, type), condition |-> Condition(g, op, type),
   address |-> operands.address, data |-> operands.data]

FetchTyped(g, op, type, name) == Fetched(g, op, type, name, Operands(g, op, type))
FetchInstruction(g, op) == FetchTyped(g, op, Table!Type(op), Table!Name(op))

-----------------------------------------------------------------------------
(***************************************************************************)
(* instruction.c: a handler takes the fetched instruction and leaves the   *)
(* state.                                                                  *)
(***************************************************************************)
Exit(g) == [g EXCEPT !.running = FALSE]

Jump(g, address) == Put(Tick(g, 1), REG_PC, address)

Jp(in) == IF in.condition THEN Jump(in.gb, in.address) ELSE in.gb

Jr(in) ==
  IF in.gb.exit_infinite_loop /\ in.data = 254 THEN Exit(in.gb)
  ELSE IF in.condition THEN Jump(in.gb, Get(in.gb, REG_PC) + Signed(in.data))
  ELSE in.gb

\* call and rst: a tick, the push of PC, the jump.
PushAndJump(g, address) ==
  Put(StackPush16(Tick(g, 1), Get(g, REG_PC)), REG_PC, address)

Call(in) == IF in.condition THEN PushAndJump(in.gb, in.address) ELSE in.gb

\* The address pop has been popped.
Return(pop) == Jump(pop.gb, pop.value)

\* A conditional return takes a cycle for the test.
RetTested(g, condition) == IF condition THEN Return(StackPop16(g)) ELSE g
Ret(in) ==
  RetTested(IF in.type # "NO_OPERAND" THEN Tick(in.gb, 1) ELSE in.gb, in.condition)

Reti(in) == [Return(StackPop16(in.gb)) EXCEPT !.ime = TRUE]

\* A pair takes a sum with SP, as AddSp leaves it.
PutSum(g, reg, sum) == PutFlags(Put(g, reg, sum.sp), sum.f)

Ld(in) ==
  CASE in.type = "HL_S8" ->
         PutSum(Tick(in.gb, 1), REG_HL, AddSp(Get(in.gb, REG_SP), in.data))
    [] in.type \in {"SP_HL", "R8_R8"} ->
         Put(IF in.type = "SP_HL" THEN Tick(in.gb, 1) ELSE in.gb,
             in.reg1, Get(in.gb, in.reg2))
    [] in.type = "D16_REL_SP" ->
         WriteMemory16(Tick(in.gb, 2), in.address, in.data)
    [] in.type = "HL_REL_D8" ->
         WriteMemory(Tick(in.gb, 1), in.address, in.data)
    [] in.type \in {"R8_D8", "R8_HL_REL", "A_R16_REL", "A_D16_REL", "R16_D16",
                    "A_HLD", "A_HLI"} ->
         Put(in.gb, in.reg1, in.data)
    [] OTHER ->
         WriteMemory(Tick(in.gb, 1), in.address, Get(in.gb, in.reg1))

\* The store reads the register in.data numbers, which is 0, REG_A.
Ldh(in) ==
  IF Table!IsDstRegister(in.type) THEN Put(in.gb, in.reg1, in.data)
  ELSE WriteMemory(in.gb, in.address, Get(in.gb, in.data))

Push(in) == StackPush16(Tick(in.gb, 1), Get(in.gb, in.reg1))

\* The register takes the word that has been popped.
Popped(pop, reg) == Put(pop.gb, reg, pop.value)
MaskF(g) == Put(g, REG_F, 16 * (Get(g, REG_F) \div 16))

\* Variant of Pop: the unused bits of F are kept.
PopUnmasked(in) == Popped(StackPop16(in.gb), in.reg1)

\* The unused bits of F are cleared, whatever register is popped.
Pop(in) == MaskF(Popped(StackPop16(in.gb), in.reg1))

\* An 8-bit register takes the result r of an operation.
PutResult(g, reg, r) == PutFlags(Put(g, reg, r.a), r.f)

Step(name, value, f) == Apply(name, value, 0, f)

\* inc, dec: at (HL) the flags come from the byte before the two ticks, the
\* result from the byte after them.
IncDecAt(g, a, name, t) ==
  PutFlags(WriteMemory(t, a, Step(name, ReadMemory(t, a), GetFlags(g)).a),
           Step(name, ReadMemory(g, a), GetFlags(g)).f)

IncDec(in) ==
  CASE in.type = "HL_REL" ->
         IncDecAt(in.gb, in.address, in.name, Tick(in.gb, 2))
    [] in.type = "R16" ->
         Put(Tick(in.gb, 1), in.reg1,
             Get(in.gb, in.reg1) + (IF in.name = "INC" THEN 1 ELSE -1))
    [] OTHER ->
         PutResult(in.gb, in.reg1, Step(in.name, Get(in.gb, in.reg1), GetFlags(in.gb)))

\* The operations on A: with a register, a byte, or neither.
Arithmetic(in) ==
  PutResult(in.gb, REG_A,
            Apply(in.name, Get(in.gb, REG_A),
                  IF in.type = "A_R8" THEN Get(in.gb, in.reg2) ELSE in.data,
                  GetFlags(in.gb)))

\* add of a 16-bit register.
PutHl(g, sum) == PutFlags(Put(g, REG_HL, sum.hl), sum.f)
AddWide(in) ==
  IF in.type = "HL_R16"
  THEN PutHl(in.gb, AddHl(Get(in.gb, REG_HL), Get(in.gb, in.reg2), GetFlags(in.gb)))
  ELSE PutSum(in.gb, REG_SP, AddSp(Get(in.gb, REG_SP), in.data))

\* adc as a hole of the table runs it: on two registers of 16 bits that the
\* initialiser names.
AdcWide(g, reg, val, added, carry) ==
  PutFlags(Put(g, reg, val + added + carry),
           [z |-> (val + added + carry) % 256 = 0, n |-> FALSE,
            c |-> Bit(val + added + carry, 8),
            h |-> (val % 16) + (added % 16) + carry >= 16])
AdcHole(in) ==
  AdcWide(in.gb, in.reg1, Get(in.gb, in.reg1), Get(in.gb, in.reg2),
          Number(GetFlags(in.gb).c))

-----------------------------------------------------------------------------
(* instruction_cb.c *)

CbName(x, y) ==
  CASE x = 0 -> << "RLC", "RRC", "RL", "RR", "SLA", "SRA", "SWAP", "SRL" >>[y + 1]
    [] x = 1 -> "BIT"
    [] x = 2 -> "RES"
    [] x = 3 -> "SET"

\* bit only leaves flags; the other results go back to the register z or, if z
\* is 6, to the byte at (HL).
CbWritten(g, name, z, r) ==
  CASE name = "BIT" -> g
    [] name # "BIT" /\ z = 6 -> WriteMemory(Tick(g, 1), Get(g, REG_HL), r.a)
    [] name # "BIT" /\ z # 6 -> Put(g, FindRegister(z), r.a)
CbResult(g, name, z, r) == PutFlags(CbWritten(g, name, z, r), r.f)

CbOperate(g, name, y, z) ==
  CbResult(g, name, z,
           Apply(name, IF z = 6 THEN ReadMemory(g, Get(g, REG_HL))
                       ELSE Get(g, FindRegister(z)),
                 y, GetFlags(g)))

\* cb_execute_instruction, with the opcode in fetched.
CbDecoded(fetched, y, z) ==
  CbOperate(IF z = 6 THEN Tick(fetched.gb, 1) ELSE fetched.gb,
            CbName(Table!OpcodeX(fetched.value), y), y, z)
CbFetched(fetched) ==
  CbDecoded(fetched, Table!OpcodeY(fetched.value), Table!OpcodeZ(fetched.value))
Cb(in) == CbFetched(FetchByte(in.gb))

-----------------------------------------------------------------------------
\* g_instruction_handlers.
Handler(in) ==
  CASE in.name = "NOP"  -> in.gb
    [] in.name = "JP"   -> Jp(in)
    [] in.name = "JR"   -> Jr(in)
    [] in.name = "CALL" -> Call(in)
    [] in.name = "RET"  -> Ret(in)
    [] in.name = "RETI" -> Reti(in)
    [] in.name = "RST"  -> PushAndJump(in.gb, in.data)
    [] in.name = "LD"   -> Ld(in)
    [] in.name = "LDH"  -> Ldh(in)
    [] in.name = "PUSH" -> Push(in)
    [] in.name = "POP"  -> Pop(in)
    [] in.name = "DI"   -> [in.gb EXCEPT !.ime = FALSE]
    [] in.name = "EI"   -> [in.gb EXCEPT !.ime_scheduled = TRUE]
    [] in.name = "HALT" -> [in.gb EXCEPT !.halt = TRUE]
    [] in.name = "STOP" -> [in.gb EXCEPT !.div = 0]
    [] in.name = "CB"   -> Cb(in)
    [] in.name \in {"INC", "DEC"} -> IncDec(in)
    [] in.name = "ADD" /\ in.type \in {"HL_R16", "SP_S8"} -> AddWide(in)
    [] in.name = "ADC" /\ in.type = "ERR_OPERAND" -> AdcHole(in)
    [] OTHER            -> Arithmetic(in)

\* execute_instruction.
Decoded(opcode) == Handler(FetchInstruction(opcode.gb, opcode.value))
Execute(g) == Decoded(FetchByte(g))

-----------------------------------------------------------------------------
(* interrupt.c *)

Pending(g) == Bits(g.if_reg) \cap Bits(g.ie_reg) \cap 0..4

\* Variant of HandleInterrupt: PC is set before it is pushed.
HandleInterruptEarlyVector(g, i) ==
  StackPush16(Jump(Tick(g, 2), 64 + 8 * i), 64 + 8 * i)

\* handle_interrupt: PC is pushed, then set to the vector.
HandleInterrupt(g, i) ==
  Jump(StackPush16(Tick(g, 2), Get(g, REG_PC)), 64 + 8 * i)

\* The request i is served and then cleared.
Serve(g, i) == [HandleInterrupt(g, i) EXCEPT !.if_reg = FromBits(Bits(@) \ {i})]

\* Variant of HandleInterrupts: IME is not looked at.
HandleInterruptsAlways(g) ==
  IF Pending(g) = {} THEN g
  ELSE Serve([g EXCEPT !.halt = FALSE], Min(Pending(g)))

\* A request ends halt mode, and is served if IME allows it.
HandleInterrupts(g) ==
  CASE Pending(g) = {} -> g
    [] Pending(g) # {} /\ ~g.ime -> [g EXCEPT !.halt = FALSE]
    [] OTHER -> Serve([g EXCEPT !.halt = FALSE], Min(Pending(g)))

\* reset_cpu, reset_timer and the initialisers, with a cartridge loaded.
Reset(rom) ==
  [registers |-> ResetFile, memory |-> rom, halt |-> FALSE,
   ime_scheduled |-> FALSE, ime |-> TRUE, if_reg |-> 0, ie_reg |-> 0,
   div |-> 43980, tima |-> 0, tma |-> 0, tac |-> 0, tima_overflow |-> FALSE,
   exit_infinite_loop |-> FALSE, running |-> TRUE]

-----------------------------------------------------------------------------
(* For the properties. *)

\* The part of memory m that belongs to a program with these registers: its
\* data and the stack in use, below the address top.
OwnedCells(m, file, data, top) ==
  [a \in data \cup (ReadRegister16(file, REG_SP)..(top - 1)) |->
     IF a \in DOMAIN m THEN m[a] ELSE 0]
=============================================================================
