# A TLA+ model of emu-gb

This directory holds a verification project for emu-gb, the Game Boy emulator
in `src/`: TLA+ modules translated from the C code, TLC configurations that
check them on small instances, and theorems checked by TLAPS. Paths below are
relative to the repository (`src/cpu/timer.c` is the file itself; in
`PROJECT.json` every path has one more leading `src/`).

```
tlc -workers 2 -config gameboy_interrupts.cfg MCGameBoy.tla
tlapm GameBoyProofs.tla      # and each other module named ...Proofs, and ModuloTheorems
```

`PROJECT.json` lists the runs, the lines each definition is translated from, a
plausible bug for every property that the property's run must catch, the
disagreements found between code and documentation, and the hazards.

## 1. The system

The emulator is one thread: `main` loads a cartridge, resets the CPU and the
timer, and then loops for ever over one instruction (or one cycle of halt mode)
and one call of `handle_interrupts`. The hard part is that the components are
not called one after the other. The clock is advanced *inside* the execution of
an instruction, once per memory access, and each `timer_ticks` may request an
interrupt, reload TIMA and raise IME, while the same instruction also stores
into the registers these live in.

| Component | State | Operations | Talks to |
|---|---|---|---|
| Main loop (`main.c`) | `g_cpu.halt`, `is_running` | one instruction or cycle, one `handle_interrupts` | all |
| Timer (`cpu/timer.c`) | DIV, TIMA, TMA, TAC, `g_tima_overflow` | `timer_ticks`, `write_timer`, `read_timer`, `reset_timer` | requests interrupts, performs the delayed EI |
| Interrupts (`cpu/interrupt.c`) | IF, IE, `g_ime` | `interrupt_request`, `handle_interrupts`, `interrupt_set_ime`, register access | ticks and pushes during a dispatch, clears `halt` |
| Instructions (`cpu/instruction*.c`) | `ime_scheduled`, PC, SP, registers | `fetch_opcode`, `fetch_instruction`, 35 handlers, CB handlers | timer, bus, stack, interrupts |
| ALU and flags (same files, `cpu/flag.h`) | A, F, operands | arithmetic, DAA, rotations, shifts, bits | registers |
| Registers and stack (`cpu/cpu.c`, `cpu/stack.h`) | register file | byte and word access, push, pop | bus, timer |
| Bus (`cpu/memory.c`, `io.c`) | `g_cpu.memory` | `read_memory`, `write_memory` and 16-bit forms | cartridge, timer, interrupts |
| Cartridge loader (`cartridge/cartridge.c`) | `g_cartridge` | `load_cartridge`, `check_multicart` | controllers |
| Cartridge access (`cartridge/memory.c`) | `g_chip_registers`, `g_ram_access` | dispatch on the header's type byte | controllers |
| MBC1, MBC2 (`cartridge/mbc1.c`, `mbc2.c`) | chip registers | register writes, banked reads and writes | `g_cartridge` |
| MBC3 (`cartridge/mbc3.c`) | chip registers, clock, mapping, latch | the same, latch, clock update | the host's clock |
| Options, log (`options.c`, `log.c`) | `get_options()` | `parse_opt`, `log_print` | argp; `-x` and `-b` change the loop |
| Test ROM console (`test_rom.c`) | `g_output` and two sizes | `test_rom_update`, `test_rom_print`, after every step of the loop with `-b` | bus, log |
| Disassembly (`cpu/instruction_display.c`), `cartridge_info` | - | output | - |

What must hold, and is hard to test:

* **Timer**: no period of TAC is lost or counted twice, whatever the size of a
  call, the wrap-around of DIV or a pending reload; every overflow is reported.
* **Interrupts**: a request is lost neither by another dispatch nor by HALT;
  EI takes effect after the next instruction and never leaks into a dispatch.
* **Instructions**: each path lets the declared cycles pass, in order with its
  stores.
* **ALU**: chains of instructions compute word and decimal arithmetic through
  the flags they leave for one another.
* **The whole**: interrupts are transparent. A program runs as if alone,
  wherever a dispatch falls and though IME stays set in the handlers; it ends,
  its results are right, and what a test ROM prints is shown once and in full.
* **Banking**: registers written in any order and masked to different widths
  always name a bank that exists, and a write moves only its own part.
* **Clock**: while the tested bit of the clock's time is clear, a latch shows
  every second since the last update, and a store into a register first counts
  them into the others; the latched copy is stable and in range, the carry
  sticks.

The program has no locks, messages or persistent state; its failures are
failed assertions and `FATAL_ERROR`, both of which end the process.

## 2. The modules

| Module | Models | State | Actions |
|---|---|---|---|
| `Timer` | `timer.c` | `div tima tma tac tima_overflow` | `TimerTicks(n)`, `WriteTimer` |
| `Interrupts` | `interrupt.c` | `if_reg ie_reg ime` | `Request`, `WriteInterrupt`, `Pending`, `Highest` |
| `Bus` | decoding in `memory.c`, `io.c` | - | `Device` |
| `Instructions` | `g_opcodes`, `fetch_instruction`, the handlers, `stack.h` | - | `Program(op, o)`: an opcode as a sequence of micro-operations |
| `GameBoy` | `main.c` with all of the above | and `halt ime_scheduled phase todo addr serving` | `TickOnce` .. `Exit` (inside a call), `ExecuteInstruction`, `HaltTick`, `NoDispatch`, `BeginDispatch`, `ClearFlag` (the loop) |
| `InstructionCycles` | one instruction against the table's cycles | `op operands todo elapsed status` | `Begin`, `Advance`, `Return`, `Retire`, `Exit` |
| `Alu`, `AluPrograms` | the operations on values; programs of them | `program x y todo half a f out` | `Load`, `StoreByte`, `Operate` |
| `Registers` | `cpu.c`, `cpu.h`: the register file byte by byte | - | `ReadRegister16`, `WriteRegister16` |
| `Cpu` | one call of `execute_instruction` or `handle_interrupts` with all its data, on a record of the emulator's state | - | operators `Execute`, `HandleInterrupts`, `Tick`, `ReadMemory`, one per handler |
| `Options` | `options.c`, the filter of `log.c` | `options keys arg_num` | `ParseOpt`, `Usage`, `Logged` |
| `Processor` | `main.c` from the command line to the end, `test_rom.c`, over `Cpu` and `Options` | `job gb phase output last_output_size shown saved` | `Refuse`, `ParseOption`, `ExecuteInstruction`, `HaltTick`, `ServeInterrupts`, `TestRom` |
| `UninterruptedProgram` | *abstract*: a program that has the processor for itself | `rom registers ram` | one instruction |
| `ChipRegisters` | state shared by the controllers | `rom_size` .. `ram_access` | - |
| `Mbc1`, `Mbc2`, `Mbc3` | the controllers | - | `WriteMbc1` .. and `PhysicalMbc1` .. |
| `Rtc` | the MBC3's clock | `now time writable readable mapped last_value` | `Latch`, `Stored`, `HostClock` |
| `Cartridge` | loader, dispatch, reads and writes | `status type` | `Load`, `Write`, `Read`, `Tick` |
| `MemoryMap` | `memory.c` in front of `Cartridge` | and `memory` | `BusWrite` |
| `RomWindows` | *abstract*: what ROM banking promises | `span both low high` | `SelectLower`, `SelectUpper`, `SelectMode`, `Wire` |
| `MCGameBoy`, `MCCartridge`, `MCMemoryMap`, `MCProcessor` | instances for TLC | - | - |
| `ModuloTheorems`, `AluProofs`, `CpuProofs` | lemmas: division, the operations of `Alu`, the handlers of `Cpu` | - | - |
| `GameBoyProofs`, `InstructionCyclesProofs`, `CartridgeProofs`, `AluProgramsProofs`, `ProcessorProofs` | the theorems about each module | - | - |

**Micro-operations.** An instruction is one C call, but what the rest of the
system sees of it is the order of its `timer_ticks`, stores and IME updates.
`Program` translates an opcode into that sequence (`tick`, `tick2`, `store`,
`push`, `ime_on`, ...), from the table entry, the operand fetch and the handler.
`todo` is the part of the call still to run; `phase` says whether it is an
instruction or a dispatch. Every step of `GameBoy` is one call of `timer_ticks`
or `write_memory`, or one assignment to `halt`, IME or `ime_scheduled`.

**The environment.** The program in the cartridge is arbitrary: any opcode of
`Opcodes`, any outcome of its condition, any effective address of `Pointers`,
any byte of `TimerBytes` or `InterruptBytes`. The theorems hold for every
choice of these sets. A register is a set of bits in `Interrupts`, a number in
`Timer`. A store that reaches the cartridge does not disturb the CPU side here;
that it may end the process is modelled in `Cartridge`.

**Two views of the CPU.** `GameBoy` leaves the data open and makes every call
of the timer and of memory a step, so that any program is covered and the
theorems hold for all of them. `Cpu` and `Processor` have the data: registers,
flags, memory, PC and SP are exact, every opcode of both tables is translated
(the holes, which run ADC on registers that do not exist, included), and a step
is a whole call, which nothing can interleave with. `Cpu` keeps what the code
does where it is surprising: word-wide reads that bypass the I/O registers, a
read of 0x7FFF that ends the process, INC (HL) with two reads, LDH stores
without a tick of their own. Its cartridge is one of 32 KiB without a
controller, whose ROM a program may overwrite; a program that overwrites the
type byte at 0x0147 is outside the model.

**Transparency.** `Processor` records in `saved` the registers at a dispatch
that no handler is below, until the stack is back. The refinement mapping of
`InterruptsAreTransparent` shows `UninterruptedProgram` those registers while a
handler runs, and of memory only what the program owns: `Data` and the stack in
use. Each step of the loop must then be an instruction of the program alone or
no step at all.

**Variants.** A definition introduced as a "Variant of" another one is that
definition with a plausible bug, kept beside it so that each property can be
seen to fail; no specification uses it.

**Cartridges.** `Cartridge` models `read_cartridge` and `write_cartridge` as the
tests drive them, on all of 0x0000-0xFFFF. Note that in the running emulator
`write_memory` and `read_memory` only pass addresses below 0x8000 on, so the
external RAM and the clock registers are out of the program's reach (see the
hazards). Values of the chip registers, physical addresses and the truncation
of the bank number to a byte are exact.

## 3. The runs

| Run | Question | Instance |
|---|---|---|
| `gameboy_interrupts` | no sleep through a request, no stale enable, no lost request; overflows are reported, halt mode ends | opcodes NOP, EI, DI, RETI, HALT, LDH; interrupts LCD and TIMA; stores into IF, IE, TAC and by pushes; with fairness |
| `gameboy_timer` | TIMA counts every period | nine opcodes with all tick and store patterns; DIV of 8, TIMA of 3, periods 2 and 4; `-x` on |
| `instruction_cycles` | clock against table | all 256 opcodes, 256 CB opcodes, both outcomes |
| `cartridge` | banking refines `RomWindows`; nothing out of bounds; seconds at latches and stores, stability of the latched copy, carry | MBC1 of 2 MiB, MBC1 of 8 MiB with 0, 1 and 3 logos, files that are refused, end before a bank of the search or end inside a logo, MBC2, unsupported, with the first and last address of each area and bytes around every mask; ROM only, whose program also writes itself another type byte; MBC3 with moduli 2, 2, 1, 2, a host clock of 0..2, and stores to the gate, the ROM bank, the mapping, the latch and the clock |
| `alu_programs` | chained arithmetic | 17 programs in seven shapes on words of 7 (decimal: 7) boundary bytes |
| `processor_programs` | interrupts are transparent, a return restores the program, a pop undoes a push, results, console, termination | six programs in machine code, each from 112 points of the timer's cycle; a test ROM under 31 command lines |

The bounds are small but not below the interesting cases. The timer's moduli
leave room for a wrap-around of DIV, an overflow of TIMA and a reload in one
double tick, and periods keep the program's property that no call spans two of
them (`TimerAssumption`); the proofs cover the real widths. Two interrupts
suffice for one to be raised during the other's dispatch. The clock's moduli
are multiplied through in the code one at a time, so moduli of 2 (with one of
1) reach every carry, and a `HaltUnit` of 2 makes the bit of the time that the
code tests change within the bound. The bytes of `cartridge` straddle the
masks of 2, 4 and 5 bits. The programs of `processor_programs` multiply by
shifting, recurse 23 deep, increment two bytes under DI, sleep with and without
IME, print a string, and exercise the moves of SP and the pairs; their timer
overflows every 112 cycles and they are begun at each of these cycles, so an
interrupt falls on every instruction, its handler raises a second one inside
itself, and the handler checks that it never sees the section under DI half
done. Widths are the program's own here, nothing is scaled down. Both counters of `AluPrograms` are bounded by its
programs.

`gameboy_timer`, `instruction_cycles`, `infinite_jr`, `processor_programs` and
the cartridge runs switch deadlock checking off, because there the process may
end: by `-x`, by a refused command line, or by an assertion.
In `alu_programs` a program simply ends. In the other runs TLC also shows that
the loop never gets stuck.

**Fairness.** `FairSpec` is `WF_vars(Next)`: the loop is sequential code that
never blocks, so it keeps taking steps. Nothing is assumed about what the
program executes or which alternative is taken; a halted CPU takes only
`HaltTick` and what follows from it. The specification of `Processor` states the
same fairness with what enables `Next` written out, since the processor's step
is too large a formula for TLC to compute ENABLED of.

**Exceptions that a property names.** `ClockMatchesTable` leaves out `Inexact`,
the opcodes whose clock differs from the table (JP (HL), ADD HL,rr, ADD SP,d8,
LD HL,SP+d8, LDH stores, and the holes of the table). `SecondsAreCounted` is
stated while the tested bit of the host's time is clear and below the first
carry of the day counter, because the code goes wrong beyond, as two runs show.
`BanksExist` requires a file with all the banks the controller can name.
The first part of `ConsoleShowsOutput` is stated for command lines with one
cartridge: a second one is stored over the log level. `InterruptsAreTransparent` is about programs
that do not read what their handlers write, nor the timer.

### Disagreements between code and documentation

Six runs end in a violation, each of one property that restates a comment or
the README. `PROJECT.json` quotes the lines.

| Run | The code ... | ... while |
|---|---|---|
| `infinite_jr` | exits at a JR to itself that is not taken | `README.md:38`: `-x` stops at infinite loops |
| `rtc_halt` | tests a bit of the host's time for the halt flag | `mbc3.c:62` describes a stopped clock |
| `rtc_day_bit` | stores bit 1 of the day count's upper part | `mbc3.c:89` says bit 0 of the counter |
| `rtc_in_rom` | returns a mapped clock register at ROM addresses | `mbc3.c:132` restricts it to 0xA000-0xBFFF |
| `mbc2_fixed_bank` | masks the fixed bank with 13 bits | `mbc2.c:55` says 14 |
| `closed_ram` | stores into the external RAM whatever its gate | `memory.h:83` says such writes are ignored |

Others met while modelling, which the models keep as the code has them and
which need no run to be seen: a double tick that overflows TIMA in its first
cycle delays the request by two cycles or more (`timer.c:109` says one); ADD
HL,rr and ADD SP,d8 miss their internal cycles; one logo makes a multicart
(`cartridge.c:27` says multiple); the MBC2 is looked for in the version byte
(`cartridge.c:124`); a cartridge without a controller has its ROM written
(`cartridge.h:119` says never); LD A,(a16) at a timer register loads a byte of
`g_cpu.memory` (`memory.h:72`, "the 16bit value at the address"); a second
cartridge on the command line is not refused (`options.c:63`); an opcode
without an entry runs ADC and not `invalid` (`instruction.c:17`); IN_RANGE
leaves out the last address of its interval (`macro.h:38`).

## 4. The proofs

Every theorem below holds for every value of the constants that satisfies the
assumptions named with it; TLC evaluates those in the runs. Each module of
proofs has lemmas about the operators first, then an inductive invariant, then
the theorems.

### The loop, the timer and the interrupts: `GameBoyProofs`

| Theorem | Property | Argument |
|---|---|---|
| `TypeCorrect` | `TypeOK` | each action keeps each register in range |
| `HaltNeverSleepsThrough` | `NoSleepThroughInterrupt` | from `HaltInv` |
| `EnableIsConsumed` | `NoStaleEnable` | from `EnableInv` |
| `EnableNeedsInstruction` | `EnableOnlyInsideInstruction` | from `EnableInv` |
| `RequestsSurvive` | `NoLostRequest` | action property, by cases on `Next` |
| `TimerCounts` | `CountsEveryPeriod` | arithmetic of `ModuloTheorems` |

*Assumptions.* `TimerAssumption`: the periods divide DIV's range and no call
spans two period ends (the program's 65536; 256, 4, 16, 64; at most 2).
`SourcesAssumption`, `EnvironmentAssumption` and `ExitInfiniteLoopAssumption`
only give the constants their types, and `MaxTicks >= 2`.

*The inductive invariant.* Neither safety invariant is inductive. `IInv`
conjoins to `TypeOK`:

* `CallShape`: `todo` is not empty while an instruction or a dispatch runs, and
  empty otherwise; in an instruction the micro-operations of HALT and EI occur
  last, and a dispatch has only ticks and pushes left;
* `HaltInv`: with `halt` set, control is only at the loop or before
  `handle_interrupts`, never inside a call, nothing is pending at the loop, and
  no enable is outstanding (so `HaltTick` raises no IME). HALT, being the last
  micro-operation, is always followed by `handle_interrupts`, which clears
  `halt` if anything is pending, and `HaltTick` leads there too;
* `EnableInv`: an enable outstanding inside an instruction means that the next
  micro-operation is a tick, which consumes it. Every program begins with the
  tick of its opcode fetch (`ProgramType`), which is why no other effect of the
  next instruction comes first. A dispatch begins with IME set, and nothing in
  it clears it, so its ticks cannot raise it.

`ProgramType` and `HandlerType` establish these facts for all opcodes from the
translation of the handlers. `TimerCounts` needs that (div + n) and div differ
by one quotient exactly if the new remainder is below n, also modulo DIV's
range: `ModuloTheorems` proves it for all naturals from the division theorem.

### The clock of one instruction: `InstructionCyclesProofs`

| Theorem | Property | Argument |
|---|---|---|
| `InstructionTypes` | `TypeOK` | part of `Progress` |
| `ClockKeepsTable` | `ClockMatchesTable` | from `Progress` and `ProgramCosts` |

*Assumption.* Only that `-x` is given or not; the opcodes and their operands are
those of the tables.

*The inductive invariant.* `ClockMatchesTable` speaks of the end of an
instruction alone. `Progress` says at every moment that the cycles elapsed and
the cost of the micro-operations left, `Cost(todo)`, add up to the cost of the
whole program of the opcode; one step takes from one what it adds to the other
(`CostOfTail`). `Cost` is a sum over nine places, the length no program exceeds,
and is additive under concatenation (`CostOfJoin`), which is how `Program` is put
together. An instruction at which `-x`
ends the emulator has `exit` as its last micro-operation and so never runs out
of them; only those that return are compared with the table.

*The table.* `ProgramCosts` computes the cost of each opcode from the translated
fetch and handler and compares it with the declared cycles, row by row
(`LowCycles`, `HighCycles`) and for the regular half of the table at once
(`MiddleCycles`), for conditions true and false and for every CB opcode.

### The cartridge: `CartridgeProofs`

| Theorem | Property | Argument |
|---|---|---|
| `CartridgeTypes` | `TypeOK` | part of `CartridgeInv` |
| `ReadingsInRange` | `LatchedInRange` | part of `CartridgeInv` |
| `BanksAreThere` | `BanksExist` | from `BankInv`: bounds of the physical addresses against the file's size |
| `ReadingsStay` | `LatchedIsStable` | `ClockMoves`: what a step can do to the clock |
| `CarryStays` | `CarrySticks` | `ClockMoves` |
| `SecondsCount` | `SecondsAreCounted` | `UpdateIsDue`: the registers are the digits of the time; `OthersOfStored`: a store leaves all but one of them |
| `BankingRefines` | `BankingImplementsWindows` | refinement of `RomWindows`, step by step |

*Assumptions.* `FilesAssumption`: files are records of header fields and of the
part of a logo that each searched bank begins with, which lies in the file; addresses
have 16 bits, and a store is an address and a byte; the program that stores is
otherwise arbitrary, and so is the size of the file. `RtcAssumption`: the four
moduli lie in 1..256, since each register is a byte, and the unit of the halt
bit is not 0.

*The inductive invariant.* `CartridgeInv` is `TypeOK`, `LatchedInRange` and
`BankInv`. `TypeOK` alone does not say why a bank exists: an MBC1 keeps a bank
number of 5 bits and an MBC2 one of 4 bits that is never 0, while only an MBC1
has a mode or hidden games behind it. `BankInv` ties these ranges to the
controller in the type byte. It says also that nothing has touched the
registers while there is no controller: a cartridge without one has its ROM
written, the type byte included (`WriteRom`), and the controller that a
program so makes appear must find its registers in range.

*Bounds.* An MBC1's high window shows bank `upper * span + lower`, with a span
of 32 or, for a multicart, 16; `Mbc1Bounds` and `Mbc2Bounds` bound it below the
largest bank number that the mask lets through, which is the number of banks
`HasAllBanks` asks of the file.

*Seconds.* The update divides by products of the moduli and takes remainders.
`DigitsOfTime` shows from `MixedRadix` (in `ModuloTheorems`) that the digits so
taken add up to the number they come from while it is below the product of all
moduli, so that no carry loses a second, for the program's moduli and any
others.

*Refinement.* `RomWindows` wires the windows, selects the low and the high part
of the bank number or changes the mode. `Shown` computes what the two windows
show from the registers (the code's translation of 0 to 1, the multicart's
narrower register, the mode that puts the upper part into the low window);
`WindowsShow` proves it of every state that satisfies `CartridgeInv`.
`NextMoves` proves that a step moves at most one of the wiring, the lower part,
the upper part and the mode, and `MovesAreWindowMoves` that each such move is a
step of `RomWindows` or none.

### The arithmetic: `AluProofs` and `AluProgramsProofs`

| Theorem | Property | Covers |
|---|---|---|
| `ProgramTypes` | `TypeOK` | |
| `WordsAreAdded` | `WideArithmetic` | ADD, ADC, SUB, SBC, CP over two bytes, against ADD HL and integers |
| `DecimalsAreAdded` | `DecimalArithmetic` | DAA after each of ADD, ADC, SUB, SBC |
| `WordsAreShifted` | `WideShifts` | SLA/RL, RLA, SRL/RR, SRA/RRA |
| `BytesAgree` | `ByteIdentities` | rotations and SWAP, CPL, INC, DEC, AND, OR, XOR, BIT, SET, RES |

*Assumption.* `BytesAssumption`: `Bytes` are bytes and `DecimalBytes` have a
digit in each nibble. TLC's run takes seven bytes of each; the theorems hold of
all 256 and all 100, that is, of all 2^32 pairs of words.

*The operations.* `AluProofs` says what one operation does to the bytes and the
flags, with nothing about programs: that the sum, the carry and the half carry
of two bytes and a carry are those of the word (`AddHl` is computed on words,
and compared); what the borrow of the low byte does to the high one; that a
shift of one byte and a rotation of the other is a division or a
multiplication; that DAA's two corrections turn a sum or difference of nibbles
into one of digits. The logical operations are sums over sets of bits: a byte
is the sum of its bits and a set of bits the bits of its sum (`ByteOfItsBits`,
`BitsOfItsByte`), so that a rotation is a renaming of bits and four of them a
swap.

*The inductive invariant.* A program is a straight line, so `ProgramInv` says,
for each program, at which position of its line the machine stands, and what
the accumulator, the flags and the bytes stored are there, as applications of
the operations to x and y. That part needs no arithmetic, only that each
instruction leads to the next position. It is arithmetic, from `AluProofs`, that
turns the last position into the property.

### The processor with its data: `CpuProofs` and `ProcessorProofs`

| Theorem | Property | Argument |
|---|---|---|
| `ProcessorTypes` | `TypeOK` | `WellFormed`: every operator of `Cpu` keeps the state well formed |
| `InterruptsReturn` | `ReturnRestores` | a pop undoes the push of a dispatch |
| `StackIsUndone` | `PushesAreUndone` | a pop undoes the push of an instruction |
| `ConsoleShowsAll` | `ConsoleShowsOutput` | from `Conversation` |

`ProcessorTypes` proves `TypeOK` of `Processor` for every program, every command
line and every content of the memory: registers, ports and memory cells never
leave their widths, POP AF leaves nothing below the flags, and the console never
remembers more output than there is.

*Assumption.* `ProgramsAssumption`: a cartridge is a function from addresses of
the ROM to bytes, and argp hands over one key at least, its end. The bytes are
arbitrary, so that every opcode of both tables, the holes included, is met with
every operand, and so is the command line.

*The inductive invariant.* `WellFormed` is `TypeOK` with the emulator's state as
a member of the set `State` and the output as a sequence of bytes. The theorem
is an induction over calls, and each call is a composition of the operators of
`Cpu`, so that `CpuProofs` has one lemma per operator, with `Good(g)` (the state
g is in `State` and F holds nothing but flags) on both sides: timer, ports,
registers, stack, fetch, operands, one per handler, and at last `ExecuteGood`
and `HandleInterruptsGood`.

*Decoding.* A handler keeps `Good` only for the operands its opcodes can have.
`TableEntries` shows from the two tables which operand types an instruction
occurs with, and that an opcode whose operand is a register never has the digit
6, which stands for (HL) and would name PC; `FirstRegister`, `SecondRegister` and `OperandsType` what `in.reg1`, `in.reg2`,
`in.address` and `in.data` then hold (`WellFetched`). This is where the code
depends on its initialiser: LDH stores the register that a zeroed `in.data`
numbers, which happens to be A, and the holes of the table run ADC on the
registers 14 and 0xdead, which name bytes of PC and SP.

*The lower bits of F.* `PutFlags` keeps them and `Put` may write any register
but F and AF; of the handlers POP alone writes AF, and masks F afterwards
(`MaskFGood`).

*Stack.* `InterruptsReturn` proves `ReturnRestores`: a handler that does nothing
but return puts every register back, PC, SP and the flags included, and memory
differs only in the two bytes below the stack, where the stack lies in plain
memory (a push to the I/O area is a store to a port, and one to the ROM a store
into the cartridge), for every program, value of SP and state of the timer. It
is a step property under the invariant `WellFormed`. `Has` says what the eight byte
registers, PC and SP hold, and the lemmas that end in `Frame` what each
operation on the way leaves of it; `SameFile` turns it back into equality of the
register files, since a word has one upper and one lower byte.

`StackIsUndone` proves `PushesAreUndone`, the same of what a program pushes
itself, under the same conditions. `PushExecuted` decodes PUSH, RST and CALL (a
CALL that is not taken leaves SP alone and is excluded by that) down to one
push behind the operands' fetches, `CallReturns` and `PairReturns` take it
back. A pair is popped byte by byte into the bytes it was read from
(`PairRewritten`), and `MaskF` clears nothing of an F that `WellFormed` keeps
clean (`CleanFlags`).

*The console.* `ConsoleShowsAll` proves `ConsoleShowsOutput`. The property
compares what is shown with the whole command line and with all of the output,
neither of which the console looks at: it compares a length with the length it
printed last, and asks the filter of the log for a level that the options
overwrote as they came. `Conversation` joins `WellFormed` with what holds the
two together:

* `OptionsFollowKeys`: the keys left are a suffix of the command line, -b is set
  if it occurs among those before, and the level is LOG_INFO exactly if the last
  key on the level before them is an unknown one (or there is none); a second
  cartridge, stored over the level, is excepted;
* `NothingBefore`: nothing runs, and nothing is collected, while keys are left;
  no program begins with a byte to collect;
* `Printed`: a text that can be shown has been printed at its length, so that
  the test for new output misses none. A string that begins with a zero byte is
  never printed and shows nothing, whatever is appended to it (`TextGrows`);
* `ShownFollowsLevel`: what is shown is that text, or nothing;
* `NoByteWaits`: with -b, an instruction begins only after the console has
  acknowledged (`CheckCell`: the store reaches the cell the test reads).

### Only model-checked

* Liveness (`OverflowReachesIF`, `WakesFromHalt`, `Terminates`): fairness and
  ENABLED are outside the prover's reach. (Induction is within it only where a
  well-founded order can be given as a set: `LeastElement` of `CpuProofs` is
  proved so.)
* `ProgramsCompute` and `InterruptsAreTransparent` of `Processor`: they are about
  the programs of `MCProcessor` and what those compute. An arbitrary program may
  well have handlers that disturb it.

## 5. What is not modelled

* Contents of the ROM and RAM behind a controller: `Cartridge` says where a
  byte comes from. `Cpu` runs programs from a cartridge without one.
* Failures of `fopen`, `fseek` and `fread` (the process ends), output of any
  kind: `cartridge_info`, `display_instruction`, the wording of the log. Of the
  log only the filter is modelled, because the test ROM's result goes through
  it. `ppu.c` is empty.
* argp itself: it hands over the options in their order, then the other
  arguments, then the end.
* `map_rtc`, `write_cartridge_16bit` and the dump functions, which the program
  never calls.
* What a write past `g_output` hits; the model of the console ends there.
* `assert` is taken as enabled, as in the release build.

## 6. Plan

Done: the order was `Timer`, `Interrupts`, `Instructions`, `GameBoy` (the
interleaving that everything depends on), then `InstructionCycles`,
`Cartridge` with its controllers, `Alu`; then `Registers`, `Cpu`, `Options`,
`Processor` with `UninterruptedProgram`, and `MemoryMap`.

Then the proofs: `GameBoy`, `Cartridge`, `AluPrograms`, `Processor`,
`InstructionCycles`.

Left of the model: MBC3 banking against `RomWindows` (it uses BANK2 for ROM
and RAM), and programs in a cartridge with a controller, with their code in
switched banks.

Left of the proofs: a bracketing argument over whole handlers, which would
compose `PushesAreUndone` of their pushes with `ReturnRestores` of the dispatch
through a handler's other instructions; TLC checks it as
`InterruptsAreTransparent`.
