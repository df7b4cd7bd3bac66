----------------------------- MODULE CpuProofs ------------------------------
(***************************************************************************)
(* Every call of execute_instruction() and of handle_interrupts() keeps    *)
(* the emulator's state well formed, whatever the bytes in memory.         *)
(***************************************************************************)
EXTENDS Cpu, AluProofs, WellFoundedInduction

Memories == UNION {[D -> Byte] : D \in SUBSET Address}

State ==
  [registers : File, memory : Memories, halt : BOOLEAN, ime_scheduled : BOOLEAN,
   ime : BOOLEAN, if_reg : Byte, ie_reg : Byte, div : Address, tima : Byte,
   tma : Byte, tac : 0..7, tima_overflow : BOOLEAN, exit_infinite_loop : BOOLEAN,
   running : BOOLEAN]

(* A state whose F has no more than its four flags. *)
Good(g) == g \in State /\ g.registers[REG_F] % 16 = 0

-----------------------------------------------------------------------------
(* Widths. *)

LEMMA Bytes8 == \A m : m \in Byte <=> m \in Int /\ 0 <= m /\ m < 256
BY DEF Byte

LEMMA Words16 == \A m : m \in Address <=> m \in Int /\ 0 <= m /\ m < 65536
<1>1. AddressMod \in Nat
  BY DEF AddressMod
<1>2. \A m : m \in Address <=> m \in Int /\ 0 <= m /\ m < AddressMod
  BY <1>1 DEF Address
<1>3. QED
  BY <1>2 DEF AddressMod

(* A u16 wraps around, a u8 is truncated. *)
LEMMA Wrapped ==
  ASSUME NEW m \in Int
  PROVE  m % 65536 \in Address /\ m % AddressMod \in Address
BY Words16 DEF AddressMod

LEMMA WrappedSum ==
  ASSUME NEW d \in Address, NEW n \in Int
  PROVE  (d + n) % 65536 \in Address
<1>1. d + n \in Int
  BY Words16
<1>2. QED
  BY <1>1, Wrapped

LEMMA SplitWord ==
  ASSUME NEW a \in Address
  PROVE  MSB(a) \in Byte /\ LSB(a) \in Byte
BY Words16, Bytes8 DEF MSB, LSB

LEMMA JoinedWord ==
  ASSUME NEW l \in Byte, NEW h \in Byte
  PROVE  l + 256 * h \in Address /\ 256 * h + l \in Address
BY Words16, Bytes8

-----------------------------------------------------------------------------
(* Assignments to the fields. *)

LEMMA FieldTypes ==
  ASSUME NEW g \in State
  PROVE  /\ g.registers \in File /\ g.memory \in Memories
         /\ g.if_reg \in Byte /\ g.ie_reg \in Byte /\ g.div \in Address
         /\ g.tima \in Byte /\ g.tma \in Byte /\ g.tac \in 0..7
         /\ {g.halt, g.ime, g.ime_scheduled, g.tima_overflow, g.running,
             g.exit_infinite_loop} \subseteq BOOLEAN
BY DEF State

LEMMA PortUpdates ==
  ASSUME NEW g, Good(g), NEW b \in Byte, NEW c \in 0..7, NEW d \in Address
  PROVE  /\ Good([g EXCEPT !.tima = b])
         /\ Good([g EXCEPT !.tma = b])
         /\ Good([g EXCEPT !.if_reg = b])
         /\ Good([g EXCEPT !.ie_reg = b])
         /\ Good([g EXCEPT !.tac = c])
         /\ Good([g EXCEPT !.div = d])
BY DEF State, Good

LEMMA ModeUpdates ==
  ASSUME NEW g, Good(g), NEW b \in BOOLEAN
  PROVE  /\ Good([g EXCEPT !.halt = b])
         /\ Good([g EXCEPT !.ime = b])
         /\ Good([g EXCEPT !.ime_scheduled = b])
         /\ Good([g EXCEPT !.running = b])
         /\ Good([g EXCEPT !.exit_infinite_loop = b])
BY DEF State, Good

LEMMA PokeGood ==
  ASSUME NEW g, Good(g), NEW a \in Address, NEW b \in Byte
  PROVE  Good(Poke(g, a, b))
<1> DEFINE m == [x \in DOMAIN g.memory \cup {a} |-> IF x = a THEN b ELSE g.memory[x]]
<1>1. PICK D \in SUBSET Address : g.memory \in [D -> Byte]
  BY DEF State, Good, Memories
<1>2. m \in [D \cup {a} -> Byte]
  BY <1>1
<1>3. m \in Memories
  BY <1>2 DEF Memories
<1> HIDE DEF m
<1>4. Poke(g, a, b) = [g EXCEPT !.memory = m]
  BY DEF Poke, m
<1>5. QED
  BY <1>3, <1>4 DEF State, Good

LEMMA PeekType ==
  ASSUME NEW g, Good(g), NEW a
  PROVE  Peek(g, a) \in Byte
<1>1. PICK D \in SUBSET Address : g.memory \in [D -> Byte]
  BY DEF State, Good, Memories
<1>2. 0 \in Byte
  BY Bytes8
<1>3. QED
  BY <1>1, <1>2 DEF Peek

-----------------------------------------------------------------------------
(* The timer. *)

LEMMA PeriodEndsType ==
  ASSUME NEW div \in Nat, NEW n \in Nat, NEW freq \in Nat \ {0}
  PROVE  PeriodEnds(div, n, freq) \in Byte
<1> DEFINE p == (div + n) \div freq
           q == div \div freq
<1>1. p \in Int /\ q \in Int
  OBVIOUS
<1> HIDE DEF p, q
<1>2. (p - q) % 256 \in Byte
  BY <1>1, Truncated
<1>3. QED
  BY <1>2 DEF PeriodEnds, p, q

LEMMA CountedGood ==
  ASSUME NEW g, Good(g), NEW n \in Nat, NEW tima \in Byte, NEW increase \in Byte
  PROVE  Good(Counted(g, n, tima, increase))
<1> DEFINE overflows == increase # 0 /\ tima = 255
           div == (g.div + n) % 65536
           ime == g.ime \/ g.ime_scheduled
           if == IF g.tima_overflow THEN FromBits(Bits(g.if_reg) \cup {2}) ELSE g.if_reg
           t == IF overflows THEN 0 ELSE (tima + increase) % 256
<1>0. g \in State /\ g.div \in Address
  BY FieldTypes DEF Good
<1>1. div \in Address
  BY <1>0, WrappedSum
<1>2. ime \in BOOLEAN /\ overflows \in BOOLEAN
  OBVIOUS
<1>3. if \in Byte
  BY <1>0, FieldTypes, FromBitsType
<1>4. t \in Byte
  <2>1. 0 \in Byte /\ tima + increase \in Int
    BY Bytes8
  <2>2. QED
    BY <2>1, Truncated
<1>5. Counted(g, n, tima, increase) =
        [g EXCEPT !.div = div, !.ime = ime, !.ime_scheduled = FALSE, !.if_reg = if,
                  !.tima = t, !.tima_overflow = overflows]
  BY DEF Counted
<1> HIDE DEF div, ime, if, t, overflows
<1>6. QED
  BY <1>1, <1>2, <1>3, <1>4, <1>5 DEF State, Good

LEMMA TickGood ==
  ASSUME NEW g, Good(g), NEW n \in Nat
  PROVE  Good(Tick(g, n))
<1>0. g \in State
  BY DEF Good
<1>1. (IF g.tima_overflow THEN g.tma ELSE g.tima) \in Byte
  BY <1>0, FieldTypes
<1>2. (IF g.tac >= 4 THEN PeriodEnds(g.div, n, Divider[(g.tac % 4) + 1]) ELSE 0) \in Byte
  <2> DEFINE div == g.div
             tac == g.tac
  <2>0. tac \in 0..7 /\ div \in Address
    BY <1>0, FieldTypes
  <2> HIDE DEF div, tac
  <2>1. tac \in 0..7 /\ div \in Nat
    BY <2>0, Words16
  <2>2. Divider[(tac % 4) + 1] \in {256, 4, 16, 64}
    <3>1. tac % 4 \in 0..3
      BY <2>1
    <3>2. \A i \in 0..3 : Divider[i + 1] \in {256, 4, 16, 64}
      BY DEF Divider
    <3>3. QED
      BY <3>1, <3>2
  <2>3. \A freq \in {256, 4, 16, 64} : PeriodEnds(div, n, freq) \in Byte
    BY <2>1, PeriodEndsType
  <2>4. 0 \in Byte
    BY Bytes8
  <2>5. QED
    BY <2>2, <2>3, <2>4 DEF div, tac
<1>3. QED
  BY <1>1, <1>2, CountedGood DEF Tick

-----------------------------------------------------------------------------
(* Memory and ports. *)

LEMMA ReadMemoryType ==
  ASSUME NEW g, Good(g), NEW a
  PROVE  ReadMemory(g, a) \in Byte
<1>1. g \in State /\ Peek(g, a) \in Byte
  BY PeekType DEF Good
<1>2. MSB(g.div) \in Byte
  BY <1>1, FieldTypes, SplitWord
<1>3. {g.tima, g.tma, g.tac, g.if_reg, g.ie_reg} \subseteq Byte
  <2>1. \A n \in 0..7 : n \in Byte
    BY Bytes8
  <2>2. QED
    BY <1>1, <2>1, FieldTypes
<1>4. QED
  BY <1>1, <1>2, <1>3 DEF ReadMemory, ReadDevice

LEMMA WriteMemoryGood ==
  ASSUME NEW g, Good(g), NEW a \in Address, NEW b \in Byte
  PROVE  Good(WriteMemory(g, a, b))
<1>1. b % 8 \in 0..7 /\ 0 \in Address
  BY Bytes8, Words16
<1>2. /\ Good([g EXCEPT !.div = 0])
      /\ Good([g EXCEPT !.tima = b])
      /\ Good([g EXCEPT !.tma = b])
      /\ Good([g EXCEPT !.tac = b % 8])
      /\ Good([g EXCEPT !.if_reg = b])
      /\ Good([g EXCEPT !.ie_reg = b])
      /\ Good(Poke(g, a, b))
  BY <1>1, PortUpdates, PokeGood
<1>3. QED
  BY <1>2 DEF WriteMemory, WriteDevice

LEMMA WriteMemory16Good ==
  ASSUME NEW g, Good(g), NEW a \in Address, NEW w \in Address
  PROVE  Good(WriteMemory16(g, a, w))
<1>1. LSB(w) \in Byte /\ MSB(w) \in Byte
  BY SplitWord
<1>2. a + 1 \in Int
  BY Words16
<1>3. (a + 1) % AddressMod \in Address
  BY <1>2, Wrapped
<1>4. QED
  BY <1>1, <1>3, WriteMemoryGood DEF WriteMemory16

-----------------------------------------------------------------------------
(* Registers. *)

ByteRegisters == {REG_A, REG_B, REG_C, REG_B + 2, REG_B + 3, REG_H, REG_L}
WordRegisters == {REG_PC, REG_SP, REG_BC, REG_DE, REG_HL, REG_ERR}

(* The registers a handler but POP may write. *)
Writable == ByteRegisters \cup WordRegisters

(* Those it may read: the initialiser's 0xdead is one. *)
Readable == Writable \cup {REG_F, REG_AF, 57005}

LEMMA FileType == File = [0..11 -> Byte]
BY DEF File, Byte

LEMMA RegisterBytes ==
  ASSUME NEW reg \in Readable
  PROVE  /\ Is16bit(reg) => LowByte(reg) \in 0..11 /\ HighByte(reg) \in 0..11
         /\ ~Is16bit(reg) => reg \in 0..7
BY DEF Readable, Writable, ByteRegisters, WordRegisters, Is16bit, LowByte, HighByte,
       REG_A, REG_F, REG_B, REG_C, REG_H, REG_L, REG_PC, REG_SP, REG_AF, REG_BC,
       REG_DE, REG_HL, REG_ERR

LEMMA GetType ==
  ASSUME NEW g, Good(g), NEW reg \in Readable
  PROVE  /\ Get(g, reg) \in Address
         /\ ~Is16bit(reg) => Get(g, reg) \in Byte
<1>1. g.registers \in [0..11 -> Byte]
  BY FieldTypes, FileType DEF Good
<1>2. CASE Is16bit(reg)
  <2>1. g.registers[LowByte(reg)] \in Byte /\ g.registers[HighByte(reg)] \in Byte
    BY <1>1, <1>2, RegisterBytes
  <2>2. QED
    BY <1>2, <2>1, JoinedWord DEF Get, ReadRegister16
<1>3. CASE ~Is16bit(reg)
  <2>1. reg \in 0..11
    BY <1>3, RegisterBytes
  <2>2. g.registers[reg] \in Byte
    BY <1>1, <2>1
  <2>3. QED
    BY <1>3, <2>2, Bytes8, Words16 DEF Get, ReadRegister16
<1>4. QED
  BY <1>2, <1>3

(* What a register takes, F is left alone. *)
LEMMA PutType ==
  ASSUME NEW g \in State, NEW reg \in Readable, NEW value \in Int
  PROVE  Put(g, reg, value) \in State
<1> DEFINE file == WriteRegister16(g.registers, reg, value)
<1>1. g.registers \in [0..11 -> Byte]
  BY FieldTypes, FileType
<1>2. LSB(value) \in Byte /\ MSB(value % 65536) \in Byte
  BY Truncated, Wrapped, SplitWord DEF LSB
<1>3. file \in [0..11 -> Byte]
  BY <1>1, <1>2, RegisterBytes DEF WriteRegister16
<1> HIDE DEF file
<1>4. Put(g, reg, value) = [g EXCEPT !.registers = file]
  BY DEF Put, file
<1>5. QED
  BY <1>3, <1>4, FileType DEF State

LEMMA PutGood ==
  ASSUME NEW g, Good(g), NEW reg \in Writable, NEW value \in Int
  PROVE  Good(Put(g, reg, value))
<1>1. reg \in Readable /\ g \in State
  BY DEF Readable, Good
<1>2. Put(g, reg, value) \in State
  BY <1>1, PutType
<1>3. g.registers \in [0..11 -> Byte]
  BY <1>1, FieldTypes, FileType
<1>4. /\ Is16bit(reg) => LowByte(reg) # REG_F /\ HighByte(reg) # REG_F
      /\ ~Is16bit(reg) => reg # REG_F
  BY DEF Writable, ByteRegisters, WordRegisters, Is16bit, LowByte, HighByte,
         REG_A, REG_F, REG_B, REG_C, REG_H, REG_L, REG_PC, REG_SP, REG_AF, REG_BC,
         REG_DE, REG_HL, REG_ERR
<1>5. WriteRegister16(g.registers, reg, value)[REG_F] = g.registers[REG_F]
  BY <1>3, <1>4 DEF WriteRegister16, REG_F
<1>6. Put(g, reg, value).registers = WriteRegister16(g.registers, reg, value)
  BY <1>1 DEF Put, State
<1>7. QED
  BY <1>2, <1>5, <1>6 DEF Good

(* F with its lower four bits as v has them. *)
LEMMA PutFGood ==
  ASSUME NEW g \in State, NEW v \in Int, v % 16 = 0
  PROVE  Good(Put(g, REG_F, v))
<1>1. REG_F \in Readable
  BY DEF Readable
<1>2. Put(g, REG_F, v) \in State
  BY <1>1, PutType
<1>3. g.registers \in [0..11 -> Byte]
  BY FieldTypes, FileType
<1>4. ~Is16bit(REG_F)
  BY DEF Is16bit, REG_F, REG_PC
<1>5. WriteRegister16(g.registers, REG_F, v)[REG_F] = v % 256
  BY <1>3, <1>4 DEF WriteRegister16, REG_F, LSB
<1>6. (v % 256) % 16 = 0
  OBVIOUS
<1>7. Put(g, REG_F, v).registers = WriteRegister16(g.registers, REG_F, v)
  BY DEF Put, State
<1>8. QED
  BY <1>2, <1>5, <1>6, <1>7 DEF Good

LEMMA FlagRegister ==
  ASSUME NEW g \in State
  PROVE  Get(g, REG_F) \in Byte /\ Get(g, REG_F) = g.registers[REG_F]
<1>1. g.registers \in [0..11 -> Byte]
  BY FieldTypes, FileType
<1>2. Get(g, REG_F) = g.registers[REG_F]
  BY DEF Get, ReadRegister16, Is16bit, REG_F, REG_PC
<1>3. QED
  BY <1>1, <1>2 DEF REG_F

LEMMA PutFlagsGood ==
  ASSUME NEW g, Good(g), NEW f
  PROVE  Good(PutFlags(g, f))
<1> DEFINE low == Get(g, REG_F) % 16
           v == 128 * Number(f.z) + 64 * Number(f.n) + 32 * Number(f.h)
                  + 16 * Number(f.c) + low
<1>1. g \in State
  BY DEF Good
<1>2. low = 0
  BY <1>1, FlagRegister DEF Good
<1>3. /\ Number(f.z) \in 0..1 /\ Number(f.n) \in 0..1
      /\ Number(f.h) \in 0..1 /\ Number(f.c) \in 0..1
  BY DEF Number
<1>4. v \in Int /\ v % 16 = 0
  <2> DEFINE z == Number(f.z)
             n == Number(f.n)
             h == Number(f.h)
             c == Number(f.c)
  <2>1. z \in 0..1 /\ n \in 0..1 /\ h \in 0..1 /\ c \in 0..1
    BY <1>3
  <2> HIDE DEF z, n, h, c, low
  <2>2. 128 * z + 64 * n + 32 * h + 16 * c + low \in Int
    BY <1>2, <2>1
  <2>3. (128 * z + 64 * n + 32 * h + 16 * c + low) % 16 = 0
    BY <1>2, <2>1
  <2>4. QED
    BY <2>2, <2>3 DEF z, n, h, c
<1> HIDE DEF v
<1>5. PutFlags(g, f) = Put(g, REG_F, v)
  BY DEF PutFlags, v
<1>6. QED
  BY <1>1, <1>4, <1>5, PutFGood

LEMMA MaskFGood ==
  ASSUME NEW g \in State
  PROVE  Good(MaskF(g))
<1> DEFINE v == Get(g, REG_F)
<1>1. v \in Int
  BY FlagRegister, Bytes8
<1> HIDE DEF v
<1>2. 16 * (v \div 16) \in Int /\ (16 * (v \div 16)) % 16 = 0
  BY <1>1
<1>3. Good(Put(g, REG_F, 16 * (v \div 16)))
  BY <1>2, PutFGood
<1>4. QED
  BY <1>3 DEF MaskF, v

LEMMA GetFlagsType ==
  ASSUME NEW g
  PROVE  GetFlags(g) \in Flags
<1>1. /\ Bit(Get(g, REG_F), 7) \in BOOLEAN /\ Bit(Get(g, REG_F), 6) \in BOOLEAN
      /\ Bit(Get(g, REG_F), 5) \in BOOLEAN /\ Bit(Get(g, REG_F), 4) \in BOOLEAN
  BY Zenon DEF Bit
<1>2. QED
  BY <1>1, Zenon DEF GetFlags, FlagsOf, Flags

-----------------------------------------------------------------------------
(* The stack and what is read at a register. *)

LEMMA PointerTypes ==
  /\ REG_PC \in Writable /\ REG_SP \in Writable /\ REG_HL \in Writable
  /\ REG_A \in Writable /\ REG_C \in Writable
  /\ REG_PC \in Readable /\ REG_SP \in Readable /\ REG_HL \in Readable
  /\ REG_A \in Readable /\ REG_C \in Readable
  /\ Is16bit(REG_HL) /\ ~Is16bit(REG_A) /\ ~Is16bit(REG_C)
BY DEF Readable, Writable, ByteRegisters, WordRegisters, Is16bit, REG_PC, REG_A,
       REG_C, REG_HL

LEMMA StackPushGood ==
  ASSUME NEW g, Good(g), NEW b \in Byte
  PROVE  Good(StackPush(g, b))
<1>1. Get(g, REG_SP) \in Address
  BY PointerTypes, GetType
<1>2. Get(g, REG_SP) - 1 \in Int
  BY <1>1, Words16
<1>3. Below(g) \in Address
  BY <1>2, Wrapped DEF Below
<1>4. Good(Tick(g, 1)) /\ Below(g) \in Int
  BY <1>3, TickGood, Words16
<1>5. Good(Put(Tick(g, 1), REG_SP, Below(g)))
  BY <1>4, PutGood, PointerTypes
<1>6. QED
  BY <1>3, <1>5, WriteMemoryGood DEF StackPush, PushAt

LEMMA StackPush16Good ==
  ASSUME NEW g, Good(g), NEW w \in Address
  PROVE  Good(StackPush16(g, w))
<1>1. LSB(w) \in Byte /\ MSB(w) \in Byte
  BY SplitWord
<1>2. Good(StackPush(g, MSB(w)))
  BY <1>1, StackPushGood
<1>3. QED
  BY <1>1, <1>2, StackPushGood DEF StackPush16

ReadsByte(read) == Good(read.gb) /\ read.value \in Byte
ReadsWord(read) == Good(read.gb) /\ read.value \in Address

LEMMA ReadNextType ==
  ASSUME NEW g, Good(g), NEW reg \in {REG_PC, REG_SP}
  PROVE  ReadsByte(ReadNext(g, reg))
<1> DEFINE a == Get(g, reg)
<1>1. reg \in Readable /\ reg \in Writable
  BY PointerTypes
<1>2. a \in Address
  BY <1>1, GetType
<1>3. a + 1 \in Int /\ Good(Tick(g, 1))
  BY <1>2, Words16, TickGood
<1>4. Good(Put(Tick(g, 1), reg, a + 1)) /\ ReadMemory(Tick(g, 1), a) \in Byte
  BY <1>1, <1>3, PutGood, ReadMemoryType
<1>5. QED
  BY <1>4 DEF ReadsByte, ReadNext, ReadAt, Read

LEMMA ReadNext16Type ==
  ASSUME NEW g, Good(g), NEW reg \in {REG_PC, REG_SP}
  PROVE  ReadsWord(ReadNext16(g, reg))
<1> DEFINE low == ReadNext(g, reg)
           high == ReadNext(low.gb, reg)
<1>1. Good(low.gb) /\ low.value \in Byte
  BY ReadNextType DEF ReadsByte
<1> HIDE DEF low
<1>2. Good(high.gb) /\ high.value \in Byte
  BY <1>1, ReadNextType DEF ReadsByte
<1>3. low.value + 256 * high.value \in Address
  BY <1>1, <1>2, JoinedWord
<1>4. ReadNext16(g, reg) = Read(high.gb, low.value + 256 * high.value)
  BY DEF ReadNext16, ReadUpper, Joined, low
<1> HIDE DEF high
<1>5. QED
  BY <1>2, <1>3, <1>4 DEF ReadsWord, Read

LEMMA FetchTypes ==
  ASSUME NEW g, Good(g)
  PROVE  /\ ReadsByte(FetchByte(g))
         /\ ReadsWord(FetchWord(g))
         /\ ReadsWord(StackPop16(g))
BY ReadNextType, ReadNext16Type DEF FetchByte, FetchWord, StackPop16

-----------------------------------------------------------------------------
(* The opcode table. *)

LdTypes ==
  {"R16_D16", "R16_REL_A", "R8_D8", "D16_REL_SP", "A_R16_REL", "HLI_A", "A_HLI",
   "HLD_A", "HL_REL_D8", "A_HLD", "HL_REL_R8", "R8_HL_REL", "R8_R8", "D16_REL_A",
   "HL_S8", "SP_HL", "A_D16_REL"}

AccumulatorTypes == {"A_R8", "A_D8", "A_HL_REL"}
WithOperand == {"ADD", "ADC", "SUB", "SBC", "AND", "XOR", "OR", "CP"}
WithoutOperand == {"RLCA", "RRCA", "RLA", "RRA", "DAA", "CPL", "SCF", "CCF"}

(* The operand types an instruction occurs with. *)
Entry(name, type) ==
  \/ name = "LD" /\ type \in LdTypes
  \/ name = "LDH" /\ type \in {"D8_REL_A", "C_REL_A", "A_D8_REL", "A_C_REL"}
  \/ name \in {"INC", "DEC"} /\ type \in {"R8", "R16", "HL_REL"}
  \/ name \in {"PUSH", "POP"} /\ type = "R16"
  \/ name = "JP" /\ type \in {"A16", "FLAG_A16", "HL_REL"}
  \/ name = "CALL" /\ type \in {"A16", "FLAG_A16"}
  \/ name = "JR" /\ type \in {"S8", "FLAG_S8"}
  \/ name = "RET" /\ type \in {"FLAG", "NO_OPERAND"}
  \/ name \in {"NOP", "RETI", "DI", "EI", "HALT", "STOP", "CB"} /\ type = "NO_OPERAND"
  \/ name = "RST" /\ type = "RST"
  \/ name = "ADD" /\ type \in {"HL_R16", "SP_S8"}
  \/ name = "ADC" /\ type = "ERR_OPERAND"
  \/ name \in WithOperand /\ type \in AccumulatorTypes
  \/ name \in WithoutOperand /\ type = "NO_OPERAND"

(* Where the middle and the low digit of an opcode number a register, they *)
(* are not 6.                                                              *)
Numbered(type, y, z) ==
  /\ type \in {"R8", "R8_D8", "R8_HL_REL", "R8_R8"} => y # 6
  /\ type \in {"HL_REL_R8", "R8_R8", "A_R8"} => z # 6

TableEntry(op) ==
  /\ Entry(Table!Name(op), Table!Type(op))
  /\ Numbered(Table!Type(op), Table!OpcodeY(op), Table!OpcodeZ(op))

LEMMA LowRow ==
  ASSUME NEW y \in 0..7, NEW z \in 0..7
  PROVE  /\ Entry(Table!NamesLow[8 * y + z + 1], Table!TypesLow[8 * y + z + 1])
         /\ Numbered(Table!TypesLow[8 * y + z + 1], y, z)
<1> USE DEF Entry, Numbered, LdTypes, WithoutOperand, Table!NamesLow, Table!TypesLow
<1>1. CASE y = 0
  BY <1>1
<1>2. CASE y = 1
  BY <1>2
<1>3. CASE y = 2
  BY <1>3
<1>4. CASE y = 3
  BY <1>4
<1>5. CASE y = 4
  BY <1>5
<1>6. CASE y = 5
  BY <1>6
<1>7. CASE y = 6
  BY <1>7
<1>8. CASE y = 7
  BY <1>8
<1> HIDE DEF Entry, Numbered, Table!NamesLow, Table!TypesLow
<1>9. QED
  BY <1>1, <1>2, <1>3, <1>4, <1>5, <1>6, <1>7, <1>8

LEMMA HighRow ==
  ASSUME NEW y \in 0..7, NEW z \in 0..7
  PROVE  /\ Entry(Table!NamesHigh[8 * y + z + 1], Table!TypesHigh[8 * y + z + 1])
         /\ Numbered(Table!TypesHigh[8 * y + z + 1], y, z)
<1> USE DEF Entry, Numbered, LdTypes, AccumulatorTypes, WithOperand,
            Table!NamesHigh, Table!TypesHigh
<1>1. CASE y = 0
  BY <1>1
<1>2. CASE y = 1
  BY <1>2
<1>3. CASE y = 2
  BY <1>3
<1>4. CASE y = 3
  BY <1>4
<1>5. CASE y = 4
  BY <1>5
<1>6. CASE y = 5
  BY <1>6
<1>7. CASE y = 6
  BY <1>7
<1>8. CASE y = 7
  BY <1>8
<1> HIDE DEF Entry, Numbered, Table!NamesHigh, Table!TypesHigh
<1>9. QED
  BY <1>1, <1>2, <1>3, <1>4, <1>5, <1>6, <1>7, <1>8

LEMMA OctalDigits ==
  ASSUME NEW op \in Byte
  PROVE  /\ Table!OpcodeX(op) \in 0..3
         /\ Table!OpcodeY(op) \in 0..7
         /\ Table!OpcodeZ(op) \in 0..7
         /\ op = 64 * Table!OpcodeX(op) + 8 * Table!OpcodeY(op) + Table!OpcodeZ(op)
<1>1. op \in Int /\ 0 <= op /\ op < 256
  BY Bytes8
<1>2. op \div 64 \in 0..3 /\ (op \div 8) % 8 \in 0..7 /\ op % 8 \in 0..7
  BY <1>1
<1>3. op = 64 * (op \div 64) + 8 * ((op \div 8) % 8) + (op % 8)
  BY <1>1
<1>4. QED
  BY <1>2, <1>3 DEF Table!OpcodeX, Table!OpcodeY, Table!OpcodeZ

LEMMA TableEntries ==
  ASSUME NEW op \in Byte
  PROVE  TableEntry(op)
<1> DEFINE x == Table!OpcodeX(op)
           y == Table!OpcodeY(op)
           z == Table!OpcodeZ(op)
<1>1. x \in 0..3 /\ y \in 0..7 /\ z \in 0..7 /\ op = 64 * x + 8 * y + z
  BY OctalDigits
<1>d. /\ x = Table!OpcodeX(op) /\ y = Table!OpcodeY(op) /\ z = Table!OpcodeZ(op)
  OBVIOUS
<1> HIDE DEF x, y, z
<1>2. CASE x = 0
  <2>0. op # 118
    BY <1>1, <1>2
  <2>1. Table!Name(op) = Table!NamesLow[op + 1] /\ Table!Type(op) = Table!TypesLow[op + 1]
    BY <1>d, <1>2, <2>0 DEF Table!Name, Table!Type
  <2>2. op + 1 = 8 * y + z + 1
    BY <1>1, <1>2
  <2>3. QED
    BY <1>1, <1>d, <2>1, <2>2, LowRow DEF TableEntry
<1>3. CASE x = 1
  <2>1. CASE op = 118
    <3>0. y = 6
      BY <1>1, <1>3, <2>1
    <3>1. Table!Name(op) = "HALT" /\ Table!Type(op) = "NO_OPERAND"
      BY <1>d, <1>3, <2>1, <3>0 DEF Table!Name, Table!Type
    <3>2. QED
      BY <3>1 DEF TableEntry, Entry, Numbered
  <2>2. CASE op # 118
    <3>1. ~(y = 6 /\ z = 6)
      BY <1>1, <1>3, <2>2
    <3>2. /\ Table!Name(op) = "LD"
          /\ Table!Type(op) = IF y = 6 THEN "HL_REL_R8"
                              ELSE IF z = 6 THEN "R8_HL_REL" ELSE "R8_R8"
      BY <1>d, <1>3, <2>2 DEF Table!Name, Table!Type
    <3>3. QED
      BY <1>d, <3>1, <3>2 DEF TableEntry, Entry, Numbered, LdTypes
  <2>3. QED
    BY <2>1, <2>2
<1>4. CASE x = 2
  <2>0. op # 118
    BY <1>1, <1>4
  <2>1. /\ Table!Name(op) = Table!Arithmetic[y + 1]
        /\ Table!Type(op) = IF z = 6 THEN "A_HL_REL" ELSE "A_R8"
    BY <1>d, <1>4, <2>0 DEF Table!Name, Table!Type
  <2>2. \A i \in 0..7 : Table!Arithmetic[i + 1] \in WithOperand
    BY DEF Table!Arithmetic, WithOperand
  <2>3. QED
    BY <1>1, <1>d, <2>1, <2>2 DEF TableEntry, Entry, Numbered, AccumulatorTypes
<1>5. CASE x = 3
  <2>0. op # 118
    BY <1>1, <1>5
  <2>1. Table!Name(op) = Table!NamesHigh[op - 191] /\ Table!Type(op) = Table!TypesHigh[op - 191]
    BY <1>d, <1>5, <2>0 DEF Table!Name, Table!Type
  <2>2. op - 191 = 8 * y + z + 1
    BY <1>1, <1>5
  <2>3. QED
    BY <1>1, <1>d, <2>1, <2>2, HighRow DEF TableEntry
<1>6. QED
  BY <1>1, <1>2, <1>3, <1>4, <1>5

-----------------------------------------------------------------------------
(* The registers an opcode names. *)

LEMMA FoundRegister ==
  ASSUME NEW code \in 0..7, code # 6
  PROVE  FindRegister(code) \in ByteRegisters
BY DEF FindRegister, ByteRegisters, REG_A, REG_B, REG_C, REG_H, REG_L

LEMMA FoundPair ==
  ASSUME NEW op \in Byte
  PROVE  /\ FindRegister16(OpcodeP(op)) \in WordRegisters
         /\ FindRegister16PushPop(OpcodeP(op)) \in Readable
<1>1. OpcodeP(op) \in 0..3
  BY Bytes8 DEF OpcodeP
<1>2. \A code \in 0..3 : /\ FindRegister16(code) \in WordRegisters
                         /\ FindRegister16PushPop(code) \in Readable
  BY DEF FindRegister16, FindRegister16PushPop, WordRegisters, Readable, Writable,
         REG_SP, REG_AF, REG_BC, REG_DE, REG_HL
<1>3. QED
  BY <1>1, <1>2

LEMMA ByteRegister ==
  ASSUME NEW reg \in ByteRegisters
  PROVE  reg \in Writable /\ reg \in Readable /\ ~Is16bit(reg)
BY DEF Writable, Readable, ByteRegisters, Is16bit, REG_A, REG_B, REG_C, REG_H,
       REG_L, REG_PC

LEMMA WordRegister ==
  ASSUME NEW reg \in WordRegisters
  PROVE  reg \in Writable /\ reg \in Readable
BY DEF Writable, Readable

(* The types whose first register holds a byte. *)
ByteTypes ==
  {"R8", "R8_R8", "R8_D8", "R8_HL_REL", "HL_REL_R8", "A_R16_REL", "A_D16_REL",
   "A_HLD", "A_HLI", "A_C_REL", "A_D8_REL", "A_R8", "A_D8", "A_HL_REL",
   "R16_REL_A", "D16_REL_A", "HLD_A", "HLI_A", "C_REL_A", "D8_REL_A"}

LEMMA FirstRegister ==
  ASSUME NEW op \in Byte, NEW type, NEW name,
         Numbered(type, Table!OpcodeY(op), Table!OpcodeZ(op))
  PROVE  /\ Reg1(op, type, name) \in Readable
         /\ name \notin {"POP", "PUSH"} => Reg1(op, type, name) \in Writable
         /\ type \in ByteTypes => Reg1(op, type, name) \in ByteRegisters
<1> DEFINE r == Reg1(op, type, name)
           A == {"A_R16_REL", "A_D16_REL", "A_HLD", "A_HLI", "A_C_REL", "A_D8_REL",
                 "A_R8", "A_D8", "A_HL_REL", "R16_REL_A", "D16_REL_A", "HLD_A",
                 "HLI_A", "C_REL_A", "D8_REL_A"}
<1>1. CASE type \in {"R8", "R8_R8", "R8_D8", "R8_HL_REL"}
  <2>1. r = FindRegister(Table!OpcodeY(op))
    BY <1>1 DEF Reg1
  <2>2. r \in ByteRegisters
    BY <1>1, <2>1, OctalDigits, FoundRegister DEF Numbered
  <2>3. QED
    BY <2>2, ByteRegister
<1>2. CASE type = "HL_REL_R8"
  <2>1. r = FindRegister(Table!OpcodeZ(op))
    BY <1>2 DEF Reg1
  <2>2. r \in ByteRegisters
    BY <1>2, <2>1, OctalDigits, FoundRegister DEF Numbered
  <2>3. QED
    BY <2>2, ByteRegister
<1>3. CASE type \in A
  <2>1. r = REG_A
    BY <1>3 DEF Reg1
  <2>2. r \in ByteRegisters
    BY <2>1 DEF ByteRegisters
  <2>3. QED
    BY <2>2, ByteRegister
<1>4. CASE type \notin ByteTypes
  <2>1. CASE type = "R16" /\ name \in {"POP", "PUSH"}
    <3>1. r = FindRegister16PushPop(OpcodeP(op))
      BY <2>1 DEF Reg1
    <3>2. QED
      BY <1>4, <2>1, <3>1, FoundPair
  <2>2. CASE ~(type = "R16" /\ name \in {"POP", "PUSH"})
    <3>1. r \in {FindRegister16(OpcodeP(op)), REG_SP, REG_HL, REG_ERR}
      BY <1>4, <2>2 DEF Reg1, ByteTypes
    <3>2. r \in WordRegisters
      BY <3>1, FoundPair DEF WordRegisters
    <3>3. QED
      BY <1>4, <3>2, WordRegister
  <2>3. QED
    BY <2>1, <2>2
<1>5. QED
  BY <1>1, <1>2, <1>3, <1>4 DEF ByteTypes

LEMMA SecondRegister ==
  ASSUME NEW op \in Byte, NEW type,
         Numbered(type, Table!OpcodeY(op), Table!OpcodeZ(op))
  PROVE  /\ Reg2(op, type) \in Readable
         /\ type = "A_R8" => Reg2(op, type) \in ByteRegisters
<1> DEFINE r == Reg2(op, type)
<1>1. CASE type \in {"R8_R8", "A_R8"}
  <2>1. r = FindRegister(Table!OpcodeZ(op))
    BY <1>1 DEF Reg2
  <2>2. r \in ByteRegisters
    BY <1>1, <2>1, OctalDigits, FoundRegister DEF Numbered
  <2>3. QED
    BY <2>2, ByteRegister
<1>2. CASE type \notin {"R8_R8", "A_R8"}
  <2>1. r \in {REG_HL, FindRegister16(OpcodeP(op)), 57005}
    BY <1>2 DEF Reg2
  <2>2. FindRegister16(OpcodeP(op)) \in Readable
    BY FoundPair, WordRegister
  <2>3. 57005 \in Readable
    BY DEF Readable
  <2>4. QED
    BY <1>2, <2>1, <2>2, <2>3, PointerTypes
<1>3. QED
  BY <1>1, <1>2

-----------------------------------------------------------------------------
(* The operands. *)

LEMMA HighPage ==
  ASSUME NEW b \in Byte
  PROVE  65280 + b \in Address /\ b \in Address
BY Bytes8, Words16

LEMMA LoadWideType ==
  ASSUME NEW h, Good(h), NEW a
  PROVE  ReadsByte(LoadWide(h, a))
<1>1. Peek(h, a) \in Byte /\ Good([h EXCEPT !.running = FALSE])
  BY PeekType, ModeUpdates
<1>2. QED
  BY <1>1 DEF LoadWide, ReadsByte, Read, ReadWide

LEMMA LoadHlType ==
  ASSUME NEW h, Good(h), NEW hl \in Address, NEW step \in {-1, 1}
  PROVE  ReadsByte(LoadHl(h, hl, step))
<1>1. hl + step \in Int
  BY Words16
<1>2. Good(Put(h, REG_HL, hl + step)) /\ ReadMemory(h, hl) \in Byte
  BY <1>1, PutGood, PointerTypes, ReadMemoryType
<1>3. QED
  BY <1>2 DEF LoadHl, ReadsByte, Read

LEMMA LoadType ==
  ASSUME NEW h, Good(h), NEW a
  PROVE  ReadsByte(Load(h, a))
BY ReadMemoryType DEF Load, ReadsByte, Read

LEMMA LoadedType ==
  ASSUME NEW t, Good(t), NEW op, NEW type
  PROVE  ReadsByte(Loaded(t, op, type))
<1>1. Get(t, REG_HL) \in Address
  BY GetType, PointerTypes
<1>2. /\ ReadsByte(LoadHl(t, Get(t, REG_HL), -1))
      /\ ReadsByte(LoadHl(t, Get(t, REG_HL), 1))
  BY <1>1, LoadHlType
<1>3. Good(FetchByte(t).gb) /\ Good(FetchWord(t).gb)
  BY FetchTypes DEF ReadsByte, ReadsWord
<1>4. ReadsByte(LoadHigh(FetchByte(t))) /\ ReadsByte(LoadWideAt(FetchWord(t)))
  BY <1>3, LoadType, LoadWideType DEF LoadHigh, LoadWideAt
<1>5. /\ ReadsByte(Load(t, 65280 + Get(t, REG_C)))
      /\ ReadsByte(Load(t, Get(t, REG_HL)))
      /\ ReadsByte(LoadWide(t, Get(t, FindRegister16(OpcodeP(op)))))
  BY LoadType, LoadWideType
<1>6. QED
  BY <1>2, <1>4, <1>5 DEF Loaded

(* The types whose operand is a byte, and those that store at 0xFF00. *)
ByteOperand == ByteData \cup {"A_HL_REL", "NO_OPERAND"}
HighStores  == {"D8_REL_A", "C_REL_A"}
Loads == {"R8_HL_REL", "A_HL_REL", "A_R16_REL", "A_D16_REL", "A_HLD", "A_HLI",
          "A_C_REL", "A_D8_REL"}

OperandsOK(o, type) ==
  /\ Good(o.gb) /\ o.address \in Address /\ o.data \in Address
  /\ type \in ByteOperand => o.data \in Byte
  /\ type \in HighStores => o.data = 0

LEMMA ByteIn ==
  ASSUME NEW read, ReadsByte(read), NEW address \in Address, NEW type,
         type \notin HighStores
  PROVE  OperandsOK(InData(read, address), type)
<1>1. read.value \in Byte /\ read.value \in Address
  BY HighPage DEF ReadsByte
<1>2. QED
  BY <1>1 DEF OperandsOK, InData, ReadsByte

LEMMA WordIn ==
  ASSUME NEW read, ReadsWord(read), NEW address \in Address, NEW type,
         type \notin HighStores, type \notin ByteOperand
  PROVE  OperandsOK(InData(read, address), type)
BY DEF OperandsOK, InData, ReadsWord

LEMMA AddressIn ==
  ASSUME NEW read, ReadsWord(read), NEW data \in Address, NEW type,
         type \notin HighStores, type \notin ByteOperand
  PROVE  OperandsOK(InAddress(read, 0, data), type)
<1>1. 0 + read.value = read.value
  BY Words16 DEF ReadsWord
<1>2. QED
  BY <1>1 DEF OperandsOK, InAddress, ReadsWord

LEMMA HighIn ==
  ASSUME NEW read, ReadsByte(read), NEW type
  PROVE  type \notin ByteOperand => OperandsOK(InAddress(read, 65280, 0), type)
<1>1. 65280 + read.value \in Address /\ 0 \in Address
  BY HighPage, Words16 DEF ReadsByte
<1>2. QED
  BY <1>1 DEF OperandsOK, InAddress, ReadsByte

LEMMA HlIn ==
  ASSUME NEW g, Good(g), NEW step \in {-1, 0, 1}, NEW type,
         type \notin HighStores, type \notin ByteOperand
  PROVE  OperandsOK(InHl(g, Get(g, REG_HL), step), type)
<1> DEFINE hl == Get(g, REG_HL)
<1>1. hl \in Address
  BY GetType, PointerTypes
<1> HIDE DEF hl
<1>2. hl + step \in Int /\ 0 \in Address
  BY <1>1, Words16
<1>3. ReadsWord(Read(Put(g, REG_HL, hl + step), hl))
  BY <1>1, <1>2, PutGood, PointerTypes DEF ReadsWord, Read
<1>4. QED
  BY <1>2, <1>3, AddressIn DEF InHl, hl

LEMMA OperandsType ==
  ASSUME NEW g, Good(g), NEW op \in Byte, NEW type
  PROVE  OperandsOK(Operands(g, op, type), type)
<1> DEFINE o == Operands(g, op, type)
<1>z. 0 \in Address
  BY Words16
<1>0. 0 \in Address /\ Get(g, REG_HL) \in Address /\ Get(g, REG_SP) \in Address
  BY <1>z, GetType, PointerTypes
<1>1. CASE type \in ByteData
  <2>1. o = InData(FetchByte(g), Get(g, REG_HL))
    BY <1>1 DEF Operands, ByteData, WordAddress
  <2>2. type \notin HighStores
    BY <1>1 DEF ByteData, HighStores
  <2>3. QED
    BY <1>0, <2>1, <2>2, ByteIn, FetchTypes
<1>2. CASE type \in WordAddress
  <2>1. o = InAddress(FetchWord(g), 0, Get(g, REG_SP))
    BY <1>2 DEF Operands, ByteData, WordAddress
  <2>2. type \notin HighStores /\ type \notin ByteOperand
    BY <1>2 DEF WordAddress, HighStores, ByteOperand, ByteData
  <2>3. QED
    BY <1>0, <2>1, <2>2, AddressIn, FetchTypes
<1>3. CASE type = "R16_D16"
  <2>1. o = InData(FetchWord(g), 0)
    BY <1>3 DEF Operands, ByteData, WordAddress
  <2>2. type \notin HighStores /\ type \notin ByteOperand
    BY <1>3 DEF HighStores, ByteOperand, ByteData
  <2>3. QED
    BY <1>0, <2>1, <2>2, WordIn, FetchTypes
<1>4. CASE type \in HighStores
  <2>1. o \in {InAddress(FetchByte(g), 65280, 0),
               InAddress(Read(g, Get(g, REG_C)), 65280, 0)}
    BY <1>4 DEF Operands, ByteData, WordAddress, HighStores
  <2>2. type \notin ByteOperand
    BY <1>4 DEF HighStores, ByteOperand, ByteData
  <2>3. ReadsByte(Read(g, Get(g, REG_C)))
    BY GetType, PointerTypes DEF ReadsByte, Read
  <2>4. QED
    BY <2>1, <2>2, <2>3, HighIn, FetchTypes
<1>5. CASE type = "R16_REL_A"
  <2> DEFINE reg == FindRegister16(OpcodeP(op))
  <2>1. o = InAddress(Read(g, Get(g, reg)), 0, 0)
    BY <1>5 DEF Operands, ByteData, WordAddress
  <2>2. type \notin HighStores /\ type \notin ByteOperand
    BY <1>5 DEF HighStores, ByteOperand, ByteData
  <2>3. reg \in Readable
    BY FoundPair, WordRegister
  <2>4. ReadsWord(Read(g, Get(g, reg)))
    BY <2>3, GetType DEF ReadsWord, Read
  <2>5. QED
    BY <1>0, <2>1, <2>2, <2>4, AddressIn
<1>6. CASE type \in {"HLD_A", "HLI_A", "HL_REL", "HL_REL_R8"}
  <2>1. o \in {InHl(g, Get(g, REG_HL), step) : step \in {-1, 0, 1}}
    BY <1>6 DEF Operands, ByteData, WordAddress
  <2>2. type \notin HighStores /\ type \notin ByteOperand
    BY <1>6 DEF HighStores, ByteOperand, ByteData
  <2>3. QED
    BY <2>1, <2>2, HlIn
<1>7. CASE type = "RST"
  <2>1. o = InData(Read(g, 8 * Table!OpcodeY(op)), 0)
    BY <1>7 DEF Operands, ByteData, WordAddress
  <2>2. type \notin HighStores /\ type \notin ByteOperand
    BY <1>7 DEF HighStores, ByteOperand, ByteData
  <2>3. \A y \in 0..7 : 8 * y \in Address
    BY Words16
  <2>4. ReadsWord(Read(g, 8 * Table!OpcodeY(op)))
    BY <2>3, OctalDigits DEF ReadsWord, Read
  <2>5. QED
    BY <1>0, <2>1, <2>2, <2>4, WordIn
<1>8. CASE type \in Loads
  <2>1. o = InData(Loaded(Tick(g, 1), op, type), 0)
    BY <1>8 DEF Operands, ByteData, WordAddress, Loads
  <2>2. type \notin HighStores
    BY <1>8 DEF HighStores, Loads
  <2>3. QED
    BY <1>0, <2>1, <2>2, ByteIn, LoadedType, TickGood
<1>9. CASE /\ type \notin (ByteData \cup WordAddress \cup HighStores \cup Loads)
           /\ type \notin {"R16_D16", "R16_REL_A", "HLD_A", "HLI_A", "HL_REL",
                           "HL_REL_R8", "RST"}
  <2>1. o = InData(Read(g, 0), 0)
    BY <1>9 DEF Operands, HighStores, Loads
  <2>2. ReadsByte(Read(g, 0))
    BY Bytes8 DEF ReadsByte, Read
  <2>3. QED
    BY <1>0, <1>9, <2>1, <2>2, ByteIn
<1>10. QED
  BY <1>1, <1>2, <1>3, <1>4, <1>5, <1>6, <1>7, <1>8, <1>9

(* An instruction as the handlers meet it. *)
WellFetched(in) ==
  /\ Entry(in.name, in.type)
  /\ Good(in.gb) /\ in.address \in Address /\ in.data \in Address
  /\ in.type \in ByteOperand => in.data \in Byte
  /\ in.type \in HighStores => in.data = 0
  /\ in.reg1 \in Readable
  /\ in.name \notin {"POP", "PUSH"} => in.reg1 \in Writable
  /\ in.type \in ByteTypes => in.reg1 \in ByteRegisters
  /\ in.reg2 \in Readable
  /\ in.type = "A_R8" => in.reg2 \in ByteRegisters

LEMMA FetchWell ==
  ASSUME NEW g, Good(g), NEW op \in Byte
  PROVE  WellFetched(FetchInstruction(g, op))
<1> DEFINE type == Table!Type(op)
           name == Table!Name(op)
           o == Operands(g, op, type)
           r1 == Reg1(op, type, name)
           r2 == Reg2(op, type)
<1>1. Entry(name, type) /\ Numbered(type, Table!OpcodeY(op), Table!OpcodeZ(op))
  BY TableEntries DEF TableEntry
<1>2. OperandsOK(o, type)
  BY OperandsType
<1>3. /\ r1 \in Readable /\ (name \notin {"POP", "PUSH"} => r1 \in Writable)
      /\ type \in ByteTypes => r1 \in ByteRegisters
  BY <1>1, FirstRegister
<1>4. r2 \in Readable /\ (type = "A_R8" => r2 \in ByteRegisters)
  BY <1>1, SecondRegister
<1>5. FetchInstruction(g, op) =
        [gb |-> o.gb, name |-> name, type |-> type, reg1 |-> r1, reg2 |-> r2,
         condition |-> Condition(g, op, type), address |-> o.address, data |-> o.data]
  BY DEF FetchInstruction, FetchTyped, Fetched
<1> HIDE DEF type, name, o, r1, r2
<1>6. QED
  BY <1>1, <1>2, <1>3, <1>4, <1>5 DEF WellFetched, OperandsOK

-----------------------------------------------------------------------------
(* The handlers. *)

LEMMA JumpGood ==
  ASSUME NEW g, Good(g), NEW address \in Int
  PROVE  Good(Jump(g, address))
BY TickGood, PutGood, PointerTypes DEF Jump

LEMMA PushAndJumpGood ==
  ASSUME NEW g, Good(g), NEW address \in Int
  PROVE  Good(PushAndJump(g, address))
<1>1. Good(Tick(g, 1)) /\ Get(g, REG_PC) \in Address
  BY TickGood, GetType, PointerTypes
<1>2. Good(StackPush16(Tick(g, 1), Get(g, REG_PC)))
  BY <1>1, StackPush16Good
<1>3. QED
  BY <1>2, PutGood, PointerTypes DEF PushAndJump

LEMMA ReturnGood ==
  ASSUME NEW g, Good(g)
  PROVE  Good(Return(StackPop16(g)))
<1> DEFINE pop == StackPop16(g)
<1>1. Good(pop.gb) /\ pop.value \in Address
  BY FetchTypes DEF ReadsWord
<1>2. pop.value \in Int
  BY <1>1, Words16
<1>3. QED
  BY <1>1, <1>2, JumpGood DEF Return

LEMMA FetchedWords ==
  ASSUME NEW in, WellFetched(in)
  PROVE  /\ Good(in.gb) /\ in.address \in Address /\ in.data \in Address
         /\ in.address \in Int /\ in.data \in Int
<1>1. Good(in.gb) /\ in.address \in Address /\ in.data \in Address
  BY DEF WellFetched
<1>2. QED
  BY <1>1, Words16

LEMMA JumpsGood ==
  ASSUME NEW in, WellFetched(in)
  PROVE  /\ Good(Jp(in)) /\ Good(Jr(in)) /\ Good(Call(in)) /\ Good(Ret(in))
         /\ Good(Reti(in)) /\ Good(PushAndJump(in.gb, in.data))
<1>0. Good(in.gb) /\ in.address \in Int /\ in.data \in Int
  BY FetchedWords
<1>1. Good(Jp(in)) /\ Good(Call(in)) /\ Good(PushAndJump(in.gb, in.data))
  BY <1>0, JumpGood, PushAndJumpGood DEF Jp, Call
<1>2. Good(Jr(in))
  <2>1. Get(in.gb, REG_PC) \in Address
    BY <1>0, GetType, PointerTypes
  <2>2. Get(in.gb, REG_PC) + Signed(in.data) \in Int
    BY <1>0, <2>1, Words16 DEF Signed
  <2>3. Good(Exit(in.gb))
    BY <1>0, ModeUpdates DEF Exit
  <2>4. QED
    BY <1>0, <2>2, <2>3, JumpGood DEF Jr
<1>3. Good(Ret(in))
  <2>1. Good(IF in.type # "NO_OPERAND" THEN Tick(in.gb, 1) ELSE in.gb)
    BY <1>0, TickGood
  <2>2. QED
    BY <2>1, ReturnGood DEF Ret, RetTested
<1>4. Good(Reti(in))
  BY <1>0, ReturnGood, ModeUpdates DEF Reti
<1>5. QED
  BY <1>1, <1>2, <1>3, <1>4

LEMMA PutSumGood ==
  ASSUME NEW g, Good(g), NEW reg \in Writable, NEW sp \in Address, NEW d \in Int
  PROVE  Good(PutSum(g, reg, AddSp(sp, d)))
<1>1. sp + Signed(d) \in Int
  BY Words16 DEF Signed
<1>2. (sp + Signed(d)) % 65536 \in Int
  BY <1>1
<1>3. AddSp(sp, d).sp = (sp + Signed(d)) % 65536
  BY DEF AddSp
<1>4. QED
  BY <1>2, <1>3, PutGood, PutFlagsGood DEF PutSum

LEMMA LdGood ==
  ASSUME NEW in, WellFetched(in), in.name = "LD"
  PROVE  Good(Ld(in))
<1>0. /\ Good(in.gb) /\ in.address \in Address /\ in.data \in Address
      /\ in.address \in Int /\ in.data \in Int
      /\ Good(Tick(in.gb, 1)) /\ Good(Tick(in.gb, 2))
  BY FetchedWords, TickGood
<1>1. in.type \in LdTypes /\ in.reg1 \in Writable /\ in.reg1 \in Readable /\ in.reg2 \in Readable
  BY DEF WellFetched, Entry, WithOperand, WithoutOperand
<1>2. CASE in.type = "HL_S8"
  <2>1. Get(in.gb, REG_SP) \in Address
    BY <1>0, GetType, PointerTypes
  <2>2. QED
    BY <1>0, <1>2, <2>1, PutSumGood, PointerTypes DEF Ld
<1>3. CASE in.type \in {"SP_HL", "R8_R8"}
  <2>1. Get(in.gb, in.reg2) \in Address
    BY <1>0, <1>1, GetType
  <2>2. Get(in.gb, in.reg2) \in Int
    BY <2>1, Words16
  <2>3. QED
    BY <1>0, <1>1, <1>3, <2>2, PutGood DEF Ld
<1>4. CASE in.type = "D16_REL_SP"
  BY <1>0, <1>4, WriteMemory16Good DEF Ld
<1>5. CASE in.type = "HL_REL_D8"
  <2>1. in.data \in Byte
    BY <1>5 DEF WellFetched, ByteOperand, ByteData
  <2>2. QED
    BY <1>0, <1>5, <2>1, WriteMemoryGood DEF Ld
<1>6. CASE in.type \in {"R8_D8", "R8_HL_REL", "A_R16_REL", "A_D16_REL", "R16_D16",
                        "A_HLD", "A_HLI"}
  BY <1>0, <1>1, <1>6, PutGood DEF Ld
<1>7. CASE in.type \in {"R16_REL_A", "D16_REL_A", "HLI_A", "HLD_A", "HL_REL_R8"}
  <2>1. in.reg1 \in ByteRegisters
    BY <1>7 DEF WellFetched, ByteTypes
  <2>2. Get(in.gb, in.reg1) \in Byte
    BY <1>0, <2>1, ByteRegister, GetType
  <2>3. QED
    BY <1>0, <1>7, <2>2, WriteMemoryGood DEF Ld
<1>8. QED
  BY <1>1, <1>2, <1>3, <1>4, <1>5, <1>6, <1>7 DEF LdTypes

LEMMA LdhGood ==
  ASSUME NEW in, WellFetched(in), in.name = "LDH"
  PROVE  Good(Ldh(in))
<1>0. Good(in.gb) /\ in.address \in Address /\ in.data \in Int
  BY FetchedWords
<1>1. /\ in.type \in {"D8_REL_A", "C_REL_A", "A_D8_REL", "A_C_REL"}
      /\ in.reg1 \in Writable
  BY DEF WellFetched, Entry, WithOperand, WithoutOperand
<1>2. CASE Table!IsDstRegister(in.type)
  BY <1>0, <1>1, <1>2, PutGood DEF Ldh
<1>3. CASE ~Table!IsDstRegister(in.type)
  <2>1. in.type \in HighStores
    BY <1>1, <1>3 DEF Table!IsDstRegister, HighStores
  <2>2. in.data = REG_A
    BY <2>1 DEF WellFetched, REG_A
  <2>3. Get(in.gb, in.data) \in Byte
    BY <1>0, <2>2, GetType, PointerTypes
  <2>4. QED
    BY <1>0, <1>3, <2>3, WriteMemoryGood DEF Ldh
<1>4. QED
  BY <1>2, <1>3

LEMMA StackGood ==
  ASSUME NEW in, WellFetched(in)
  PROVE  Good(Push(in)) /\ Good(Pop(in))
<1>0. Good(in.gb) /\ in.reg1 \in Readable
  BY DEF WellFetched
<1>1. Good(Push(in))
  BY <1>0, TickGood, GetType, StackPush16Good DEF Push
<1>2. Good(Pop(in))
  <2> DEFINE pop == StackPop16(in.gb)
  <2>1. Good(pop.gb) /\ pop.value \in Address
    BY <1>0, FetchTypes DEF ReadsWord
  <2>2. pop.gb \in State
    BY <2>1 DEF Good
  <2>3. pop.value \in Int
    BY <2>1, Words16
  <2>4. Put(pop.gb, in.reg1, pop.value) \in State
    BY <1>0, <2>2, <2>3, PutType
  <2>5. QED
    BY <2>4, MaskFGood DEF Pop, Popped
<1>3. QED
  BY <1>1, <1>2

LEMMA PutResultGood ==
  ASSUME NEW g, Good(g), NEW reg \in Writable, NEW r \in Results
  PROVE  Good(PutResult(g, reg, r))
<1>1. r.a \in Byte
  BY DEF Results
<1>2. r.a \in Int
  BY <1>1, Bytes8
<1>3. QED
  BY <1>2, PutGood, PutFlagsGood DEF PutResult

LEMMA StepType ==
  ASSUME NEW name \in {"INC", "DEC"}, NEW value \in Byte, NEW f \in Flags
  PROVE  Step(name, value, f) \in Results
<1>1. 0 \in Byte
  BY Bytes8
<1>2. name \in AccumulatorOperations
  BY DEF AccumulatorOperations
<1>3. QED
  BY <1>1, <1>2, AccumulatorType DEF Step

LEMMA IncDecGood ==
  ASSUME NEW in, WellFetched(in), in.name \in {"INC", "DEC"}
  PROVE  Good(IncDec(in))
<1>0. Good(in.gb) /\ in.address \in Address /\ GetFlags(in.gb) \in Flags
  BY FetchedWords, GetFlagsType
<1>1. in.type \in {"R8", "R16", "HL_REL"} /\ in.reg1 \in Writable
  BY DEF WellFetched, Entry, WithOperand, WithoutOperand
<1>2. CASE in.type = "HL_REL"
  <2> DEFINE t == Tick(in.gb, 2)
             r == Step(in.name, ReadMemory(t, in.address), GetFlags(in.gb))
  <2>1. Good(t)
    BY <1>0, TickGood
  <2>2. ReadMemory(t, in.address) \in Byte /\ GetFlags(t) \in Flags
    BY <2>1, ReadMemoryType, GetFlagsType
  <2>3. r \in Results
    BY <1>0, <2>2, StepType
  <2>4. r.a \in Byte
    BY <2>3 DEF Results
  <2>5. Good(WriteMemory(t, in.address, r.a))
    BY <1>0, <2>1, <2>4, WriteMemoryGood
  <2>6. QED
    BY <1>2, <2>5, PutFlagsGood DEF IncDec, IncDecAt
<1>3. CASE in.type = "R16"
  <2>1. Get(in.gb, in.reg1) \in Address
    BY <1>0, GetType DEF WellFetched
  <2>2. Get(in.gb, in.reg1) + (IF in.name = "INC" THEN 1 ELSE -1) \in Int
    BY <2>1, Words16
  <2>3. QED
    BY <1>0, <1>1, <1>3, <2>2, TickGood, PutGood DEF IncDec
<1>4. CASE in.type = "R8"
  <2>1. in.reg1 \in ByteRegisters
    BY <1>4 DEF WellFetched, ByteTypes
  <2>2. Get(in.gb, in.reg1) \in Byte
    BY <1>0, <2>1, ByteRegister, GetType
  <2>3. QED
    BY <1>0, <1>1, <1>4, <2>2, StepType, PutResultGood DEF IncDec
<1>5. QED
  BY <1>1, <1>2, <1>3, <1>4

LEMMA ArithmeticGood ==
  ASSUME NEW in, WellFetched(in),
         \/ in.name \in WithOperand /\ in.type \in AccumulatorTypes
         \/ in.name \in WithoutOperand /\ in.type = "NO_OPERAND"
  PROVE  Good(Arithmetic(in))
<1> DEFINE a == Get(in.gb, REG_A)
           d == IF in.type = "A_R8" THEN Get(in.gb, in.reg2) ELSE in.data
           f == GetFlags(in.gb)
<1>0. Good(in.gb) /\ a \in Byte /\ f \in Flags
  BY FetchedWords, GetType, PointerTypes, GetFlagsType
<1>1. d \in Byte
  <2>1. CASE in.type = "A_R8"
    <3>1. in.reg2 \in ByteRegisters
      BY <2>1 DEF WellFetched
    <3>2. QED
      BY <1>0, <2>1, <3>1, ByteRegister, GetType
  <2>2. CASE in.type # "A_R8"
    <3>1. in.type \in ByteOperand
      BY <2>2 DEF AccumulatorTypes, ByteOperand, ByteData
    <3>2. QED
      BY <2>2, <3>1 DEF WellFetched
  <2>3. QED
    BY <2>1, <2>2
<1>2. in.name \in AccumulatorOperations \/ in.name \in Rotations
  BY DEF WithOperand, WithoutOperand, AccumulatorOperations, Rotations
<1> HIDE DEF a, d, f
<1>3. Apply(in.name, a, d, f) \in Results
  BY <1>0, <1>1, <1>2, AccumulatorType, RotationType
<1>4. Good(PutResult(in.gb, REG_A, Apply(in.name, a, d, f)))
  BY <1>0, <1>3, PutResultGood, PointerTypes
<1>5. QED
  BY <1>4 DEF Arithmetic, a, d, f

LEMMA AddWideGood ==
  ASSUME NEW in, WellFetched(in)
  PROVE  Good(AddWide(in))
<1>0. Good(in.gb) /\ in.data \in Int /\ in.reg2 \in Readable
  BY FetchedWords DEF WellFetched
<1>1. /\ Get(in.gb, REG_HL) \in Address /\ Get(in.gb, REG_SP) \in Address
      /\ Get(in.gb, in.reg2) \in Address
  BY <1>0, GetType, PointerTypes
<1>2. \A f : AddHl(Get(in.gb, REG_HL), Get(in.gb, in.reg2), f).hl \in Int
  <2> DEFINE h == Get(in.gb, REG_HL)
             r == Get(in.gb, in.reg2)
  <2>1. h + r \in Int
    BY <1>1, Words16
  <2>2. (h + r) % 65536 \in Int
    BY <2>1
  <2>3. QED
    BY <2>2 DEF AddHl
<1>3. \A f : Good(PutHl(in.gb, AddHl(Get(in.gb, REG_HL), Get(in.gb, in.reg2), f)))
  BY <1>0, <1>2, PutGood, PutFlagsGood, PointerTypes DEF PutHl
<1>4. Good(PutSum(in.gb, REG_SP, AddSp(Get(in.gb, REG_SP), in.data)))
  BY <1>0, <1>1, PutSumGood, PointerTypes
<1>5. QED
  BY <1>3, <1>4 DEF AddWide

LEMMA AdcHoleGood ==
  ASSUME NEW in, WellFetched(in), in.name = "ADC"
  PROVE  Good(AdcHole(in))
<1>0. /\ Good(in.gb) /\ in.reg1 \in Writable /\ in.reg1 \in Readable
      /\ in.reg2 \in Readable
  BY DEF WellFetched
<1>1. Get(in.gb, in.reg1) \in Address /\ Get(in.gb, in.reg2) \in Address
  BY <1>0, GetType
<1>2. \A b : Number(b) \in Int
  BY DEF Number
<1>3. \A b : Get(in.gb, in.reg1) + Get(in.gb, in.reg2) + Number(b) \in Int
  <2> DEFINE v == Get(in.gb, in.reg1)
             w == Get(in.gb, in.reg2)
  <2>1. v \in Int /\ w \in Int
    BY <1>1, Words16
  <2> HIDE DEF v, w
  <2>2. \A b : v + w + Number(b) \in Int
    BY <1>2, <2>1
  <2>3. QED
    BY <2>2 DEF v, w
<1>4. QED
  BY <1>0, <1>3, PutGood, PutFlagsGood DEF AdcHole, AdcWide

LEMMA CbNames ==
  ASSUME NEW x \in 0..3, NEW y \in 0..7
  PROVE  CbName(x, y) \in Rotations \cup BitOperations
<1>1. \A i \in 0..7 :
        << "RLC", "RRC", "RL", "RR", "SLA", "SRA", "SWAP", "SRL" >>[i + 1] \in Rotations
  BY DEF Rotations
<1>2. QED
  BY <1>1 DEF CbName, BitOperations

LEMMA CbResultGood ==
  ASSUME NEW g, Good(g), NEW name, NEW z \in 0..7, NEW r \in Results
  PROVE  Good(CbResult(g, name, z, r))
<1>1. r.a \in Byte
  BY DEF Results
<1>2. r.a \in Int
  BY <1>1, Bytes8
<1>3. CASE name # "BIT" /\ z = 6
  <2>1. Get(g, REG_HL) \in Address /\ Good(Tick(g, 1))
    BY GetType, PointerTypes, TickGood
  <2>2. Good(WriteMemory(Tick(g, 1), Get(g, REG_HL), r.a))
    BY <1>1, <2>1, WriteMemoryGood
  <2>3. QED
    BY <1>3, <2>2, PutFlagsGood DEF CbResult, CbWritten
<1>4. CASE name # "BIT" /\ z # 6
  <2>1. Good(Put(g, FindRegister(z), r.a))
    BY <1>2, <1>4, FoundRegister, ByteRegister, PutGood
  <2>2. QED
    BY <1>4, <2>1, PutFlagsGood DEF CbResult, CbWritten
<1>5. CASE name = "BIT"
  BY <1>5, PutFlagsGood DEF CbResult, CbWritten
<1>6. QED
  BY <1>3, <1>4, <1>5

LEMMA CbGood ==
  ASSUME NEW in, WellFetched(in)
  PROVE  Good(Cb(in))
<1> DEFINE fetched == FetchByte(in.gb)
           x == Table!OpcodeX(fetched.value)
           y == Table!OpcodeY(fetched.value)
           z == Table!OpcodeZ(fetched.value)
           g == IF z = 6 THEN Tick(fetched.gb, 1) ELSE fetched.gb
           value == IF z = 6 THEN ReadMemory(g, Get(g, REG_HL))
                    ELSE Get(g, FindRegister(z))
           name == CbName(x, y)
<1>1. Good(fetched.gb) /\ fetched.value \in Byte
  BY FetchedWords, FetchTypes DEF ReadsByte
<1>2. x \in 0..3 /\ y \in 0..7 /\ z \in 0..7
  BY <1>1, OctalDigits
<1>3. Good(g)
  BY <1>1, TickGood
<1>4. name \in Rotations \cup BitOperations
  BY <1>2, CbNames
<1>5. Cb(in) = CbResult(g, name, z, Apply(name, value, y, GetFlags(g)))
  BY DEF Cb, CbFetched, CbDecoded, CbOperate
<1> HIDE DEF fetched, x, y, z, g, name
<1>6. value \in Byte
  BY <1>2, <1>3, ReadMemoryType, FoundRegister, ByteRegister, GetType
<1> HIDE DEF value
<1>7. Apply(name, value, y, GetFlags(g)) \in Results
  BY <1>3, <1>4, <1>6, GetFlagsType, RotationType, BitOperationType
<1>8. QED
  BY <1>2, <1>3, <1>5, <1>7, CbResultGood

LEMMA HandlerGood ==
  ASSUME NEW in, WellFetched(in)
  PROVE  Good(Handler(in))
<1>1. /\ Good(in.gb) /\ Entry(in.name, in.type) /\ 0 \in Address
  BY Words16 DEF WellFetched
<1>2. /\ Good(Jp(in)) /\ Good(Jr(in)) /\ Good(Call(in)) /\ Good(Ret(in))
      /\ Good(Reti(in)) /\ Good(PushAndJump(in.gb, in.data))
      /\ Good(Push(in)) /\ Good(Pop(in)) /\ Good(Cb(in)) /\ Good(AddWide(in))
  BY JumpsGood, StackGood, CbGood, AddWideGood
<1>3. /\ Good([in.gb EXCEPT !.ime = FALSE])
      /\ Good([in.gb EXCEPT !.ime_scheduled = TRUE])
      /\ Good([in.gb EXCEPT !.halt = TRUE])
  BY <1>1, ModeUpdates
<1>4. Good([in.gb EXCEPT !.div = 0])
  <2>1. 0 \in Byte /\ 0 \in 0..7
    BY Bytes8
  <2>2. QED
    BY <1>1, <2>1, PortUpdates
<1>5. /\ in.name = "LD" => Good(Ld(in))
      /\ in.name = "LDH" => Good(Ldh(in))
      /\ in.name \in {"INC", "DEC"} => Good(IncDec(in))
      /\ in.name = "ADC" => Good(AdcHole(in))
  BY LdGood, LdhGood, IncDecGood, AdcHoleGood
<1>6. CASE \/ in.name \in WithOperand /\ in.type \in AccumulatorTypes
           \/ in.name \in WithoutOperand /\ in.type = "NO_OPERAND"
  <2>1. Handler(in) = Arithmetic(in)
    BY <1>6 DEF Handler, WithOperand, WithoutOperand, AccumulatorTypes
  <2>2. QED
    BY <1>6, <2>1, ArithmeticGood
<1>7. CASE \/ in.name = "ADD" /\ in.type \in {"HL_R16", "SP_S8"}
           \/ in.name = "ADC" /\ in.type = "ERR_OPERAND"
  BY <1>2, <1>5, <1>7 DEF Handler
<1>8. CASE in.name \notin (WithOperand \cup WithoutOperand)
  BY <1>1, <1>2, <1>3, <1>4, <1>5, <1>8 DEF Handler, Entry, WithOperand, WithoutOperand
<1>9. QED
  BY <1>1, <1>6, <1>7, <1>8 DEF Entry, WithOperand, WithoutOperand

(* execute_instruction keeps the state well formed, whatever it fetches. *)
LEMMA ExecuteGood ==
  ASSUME NEW g, Good(g)
  PROVE  Good(Execute(g))
<1> DEFINE opcode == FetchByte(g)
<1>1. Good(opcode.gb) /\ opcode.value \in Byte
  BY FetchTypes DEF ReadsByte
<1> HIDE DEF opcode
<1>2. WellFetched(FetchInstruction(opcode.gb, opcode.value))
  BY <1>1, FetchWell
<1>3. QED
  BY <1>2, HandlerGood DEF Execute, Decoded, opcode

-----------------------------------------------------------------------------
(* The interrupts. *)

(* Every set of natural numbers that is not empty has a least element.     *)
LEMMA LeastElement ==
  ASSUME NEW S, S \subseteq Nat, S # {}
  PROVE  Min(S) \in S /\ \A n \in S : Min(S) <= n
<1> DEFINE Less == {p \in Nat \X Nat : p[1] < p[2]}
<1>1. IsWellFoundedOn(Less, Nat)
  BY NatLessThanWellFounded DEF OpToRel
<1>2. \E m \in S : \A n \in S : <<n, m>> \notin Less
  <2> HIDE DEF Less
  <2> QED
    BY <1>1, WFMin
<1>3. \A n, m \in S : <<n, m>> \notin Less => m <= n
  <2>1. \A n, m \in Nat : <<n, m>> \notin Less => m <= n
    OBVIOUS
  <2> HIDE DEF Less
  <2>2. QED
    BY <2>1
<1> HIDE DEF Less
<1>4. \E m \in S : \A n \in S : m <= n
  BY <1>2, <1>3
<1>5. QED
  BY <1>4 DEF Min

LEMMA LowestRequest ==
  ASSUME NEW g, Pending(g) # {}
  PROVE  Min(Pending(g)) \in 0..4
<1>1. Pending(g) \subseteq 0..4
  BY DEF Pending
<1>2. Pending(g) \subseteq Nat
  BY <1>1
<1>3. QED
  BY <1>1, <1>2, LeastElement

LEMMA ServeGood ==
  ASSUME NEW g, Good(g), NEW i \in 0..4
  PROVE  Good(Serve(g, i))
<1>1. Good(Tick(g, 2)) /\ Get(g, REG_PC) \in Address /\ 64 + 8 * i \in Int
  BY TickGood, GetType, PointerTypes
<1>2. Good(HandleInterrupt(g, i))
  BY <1>1, StackPush16Good, JumpGood DEF HandleInterrupt
<1> DEFINE h == HandleInterrupt(g, i)
<1>3. FromBits(Bits(h.if_reg) \ {i}) \in Byte
  BY FromBitsType
<1>4. Good([h EXCEPT !.if_reg = FromBits(Bits(h.if_reg) \ {i})])
  <2> HIDE DEF h
  <2>1. 0 \in 0..7 /\ 0 \in Address
    BY Words16
  <2>2. Good(h)
    BY <1>2 DEF h
  <2>3. QED
    BY <1>3, <2>1, <2>2, PortUpdates
<1>5. QED
  BY <1>4 DEF Serve

(* So does handle_interrupts. *)
LEMMA HandleInterruptsGood ==
  ASSUME NEW g, Good(g)
  PROVE  Good(HandleInterrupts(g))
<1>1. Good([g EXCEPT !.halt = FALSE])
  BY ModeUpdates
<1>2. CASE Pending(g) # {} /\ g.ime
  <2>1. Good(Serve([g EXCEPT !.halt = FALSE], Min(Pending(g))))
    BY <1>1, <1>2, LowestRequest, ServeGood
  <2>2. HandleInterrupts(g) = Serve([g EXCEPT !.halt = FALSE], Min(Pending(g)))
    BY <1>2 DEF HandleInterrupts
  <2>3. QED
    BY <2>1, <2>2
<1>3. CASE Pending(g) = {}
  BY <1>3 DEF HandleInterrupts
<1>4. CASE Pending(g) # {} /\ ~g.ime
  BY <1>1, <1>4 DEF HandleInterrupts
<1>5. QED
  BY <1>2, <1>3, <1>4

LEMMA ResetGood ==
  ASSUME NEW rom \in Memories
  PROVE  Good(Reset(rom))
<1>1. ResetFile \in File /\ ResetFile[REG_F] % 16 = 0
  <2> DEFINE bytes == <<1, 176, 0, 19, 0, 216, 1, 77, 0, 1, 254, 255>>
  <2>1. \A i \in 0..11 : bytes[i + 1] \in Byte
    BY Bytes8
  <2>2. ResetFile \in [0..11 -> Byte]
    BY <2>1 DEF ResetFile
  <2>3. ResetFile[REG_F] = 176
    BY DEF ResetFile, REG_F
  <2>4. QED
    BY <2>2, <2>3, FileType
<1>2. 0 \in Byte /\ 0 \in 0..7 /\ 43980 \in Address
  BY Bytes8, Words16
<1>3. QED
  BY <1>1, <1>2 DEF Reset, State, Good

-----------------------------------------------------------------------------
(* What is written can be read back. *)

(* The eight byte registers, PC and SP; they make up the file. *)
Has(g, bytes, pc, sp) ==
  /\ Good(g)
  /\ \A i \in 0..7 : g.registers[i] = bytes[i]
  /\ Get(g, REG_PC) = pc
  /\ Get(g, REG_SP) = sp

LEMMA PointerBytes ==
  ASSUME NEW g \in State
  PROVE  /\ Get(g, REG_PC) = 256 * g.registers[9] + g.registers[8]
         /\ Get(g, REG_SP) = 256 * g.registers[11] + g.registers[10]
         /\ \A i \in 0..11 : g.registers[i] \in Byte
<1>1. g.registers \in [0..11 -> Byte]
  BY FieldTypes, FileType
<1>2. /\ Is16bit(REG_PC) /\ LowByte(REG_PC) = 8 /\ HighByte(REG_PC) = 9
      /\ Is16bit(REG_SP) /\ LowByte(REG_SP) = 10 /\ HighByte(REG_SP) = 11
  BY DEF Is16bit, LowByte, HighByte, REG_PC, REG_SP
<1>3. QED
  BY <1>1, <1>2 DEF Get, ReadRegister16

(* A word has one upper and one lower byte. *)
LEMMA WordParts ==
  ASSUME NEW h \in Byte, NEW l \in Byte, NEW i \in Byte, NEW m \in Byte,
         256 * h + l = 256 * i + m
  PROVE  h = i /\ l = m
<1>1. /\ h \in Int /\ l \in Int /\ i \in Int /\ m \in Int
      /\ 0 <= l /\ l < 256 /\ 0 <= m /\ m < 256
  BY Bytes8
<1>2. h = (256 * h + l) \div 256 /\ i = (256 * i + m) \div 256
  BY <1>1
<1>3. h = i
  BY <1>2
<1>4. QED
  BY <1>1, <1>3

LEMMA SameFile ==
  ASSUME NEW g, NEW h, NEW bytes, NEW pc, NEW sp, Has(g, bytes, pc, sp), Has(h, bytes, pc, sp)
  PROVE  g.registers = h.registers
<1>1. g \in State /\ h \in State
  BY DEF Has, Good
<1>2. g.registers \in [0..11 -> Byte] /\ h.registers \in [0..11 -> Byte]
  BY <1>1, FieldTypes, FileType
<1>3. \A i \in 0..7 : g.registers[i] = h.registers[i]
  BY DEF Has
<1>4. g.registers[8] = h.registers[8] /\ g.registers[9] = h.registers[9]
  <2>1. 256 * g.registers[9] + g.registers[8] = 256 * h.registers[9] + h.registers[8]
    BY <1>1, PointerBytes DEF Has
  <2>2. /\ g.registers[9] \in Byte /\ g.registers[8] \in Byte
        /\ h.registers[9] \in Byte /\ h.registers[8] \in Byte
    BY <1>2
  <2>3. QED
    BY <2>1, <2>2, WordParts
<1>5. g.registers[10] = h.registers[10] /\ g.registers[11] = h.registers[11]
  <2>1. 256 * g.registers[11] + g.registers[10] = 256 * h.registers[11] + h.registers[10]
    BY <1>1, PointerBytes DEF Has
  <2>2. /\ g.registers[11] \in Byte /\ g.registers[10] \in Byte
        /\ h.registers[11] \in Byte /\ h.registers[10] \in Byte
    BY <1>2
  <2>3. QED
    BY <2>1, <2>2, WordParts
<1>6. \A i \in 0..11 : i \in 0..7 \/ i = 8 \/ i = 9 \/ i = 10 \/ i = 11
  OBVIOUS
<1>7. \A i \in 0..11 : g.registers[i] = h.registers[i]
  BY <1>3, <1>4, <1>5, <1>6
<1>8. QED
  BY <1>2, <1>7

(* A word stored in a pointer is there modulo 2^16, and nothing else changes. *)
LEMMA StoredWord ==
  ASSUME NEW value \in Int
  PROVE  256 * MSB(value % 65536) + LSB(value) = value % AddressMod
<1> DEFINE w == value % 65536
<1>1. w \in Int /\ 0 <= w /\ w < 65536 /\ w % 256 = value % 256
  OBVIOUS
<1> HIDE DEF w
<1>2. 256 * (w \div 256) + (w % 256) = w
  BY <1>1
<1>3. QED
  BY <1>1, <1>2 DEF MSB, LSB, w, AddressMod

LEMMA PutPointers ==
  ASSUME NEW g, NEW bytes, NEW pc, NEW sp, Has(g, bytes, pc, sp),
         NEW value \in Int, NEW word, word = value % AddressMod
  PROVE  /\ Has(Put(g, REG_PC, value), bytes, word, sp)
         /\ Has(Put(g, REG_SP, value), bytes, pc, word)
         /\ Put(g, REG_PC, value).memory = g.memory
         /\ Put(g, REG_SP, value).memory = g.memory
<1> DEFINE p == Put(g, REG_PC, value)
           s == Put(g, REG_SP, value)
           low == LSB(value)
           high == MSB(value % 65536)
<1>1. g \in State /\ Good(g) /\ Good(p) /\ Good(s) /\ p \in State /\ s \in State
  BY PutGood, PointerTypes DEF Has, Good
<1>2. g.registers \in [0..11 -> Byte]
  BY <1>1, FieldTypes, FileType
<1>3. /\ Is16bit(REG_PC) /\ LowByte(REG_PC) = 8 /\ HighByte(REG_PC) = 9
      /\ Is16bit(REG_SP) /\ LowByte(REG_SP) = 10 /\ HighByte(REG_SP) = 11
  BY DEF Is16bit, LowByte, HighByte, REG_PC, REG_SP
<1>4. /\ p = [g EXCEPT !.registers = [@ EXCEPT ![8] = low, ![9] = high]]
      /\ s = [g EXCEPT !.registers = [@ EXCEPT ![10] = low, ![11] = high]]
  BY <1>3 DEF Put, WriteRegister16
<1> HIDE DEF p, s, low, high
<1>5. /\ p.registers = [g.registers EXCEPT ![8] = low, ![9] = high]
      /\ s.registers = [g.registers EXCEPT ![10] = low, ![11] = high]
      /\ p.memory = g.memory /\ s.memory = g.memory
  BY <1>1, <1>4 DEF State
<1>6. /\ \A i \in 0..7 : p.registers[i] = g.registers[i] /\ s.registers[i] = g.registers[i]
      /\ p.registers[8] = low /\ p.registers[9] = high
      /\ p.registers[10] = g.registers[10] /\ p.registers[11] = g.registers[11]
      /\ s.registers[10] = low /\ s.registers[11] = high
      /\ s.registers[8] = g.registers[8] /\ s.registers[9] = g.registers[9]
  BY <1>2, <1>5
<1>7. 256 * high + low = word
  BY StoredWord DEF high, low
<1>8. Get(p, REG_PC) = word /\ Get(p, REG_SP) = sp
  BY <1>1, <1>6, <1>7, PointerBytes DEF Has
<1>9. Get(s, REG_SP) = word /\ Get(s, REG_PC) = pc
  BY <1>1, <1>6, <1>7, PointerBytes DEF Has
<1>10. QED
  BY <1>1, <1>5, <1>6, <1>8, <1>9 DEF Has, p, s

(* Time passes beside the registers and the memory. *)
LEMMA TickFrame ==
  ASSUME NEW g, NEW bytes, NEW pc, NEW sp, Has(g, bytes, pc, sp), NEW n \in Nat
  PROVE  Has(Tick(g, n), bytes, pc, sp) /\ Tick(g, n).memory = g.memory
<1>1. Good(Tick(g, n)) /\ g \in State
  BY TickGood DEF Has, Good
<1>2. Tick(g, n).registers = g.registers /\ Tick(g, n).memory = g.memory
  BY <1>1 DEF Tick, Counted, State
<1>3. QED
  BY <1>1, <1>2 DEF Has, Get

(* A store to plain memory. *)
LEMMA StoreFrame ==
  ASSUME NEW g, NEW bytes, NEW pc, NEW sp, Has(g, bytes, pc, sp),
         NEW a \in Address, Device(a) = "memory", NEW b \in Byte
  PROVE  /\ Has(WriteMemory(g, a, b), bytes, pc, sp)
         /\ \A x : Peek(WriteMemory(g, a, b), x) = IF x = a THEN b ELSE Peek(g, x)
<1> DEFINE h == WriteMemory(g, a, b)
           m == [x \in DOMAIN g.memory \cup {a} |-> IF x = a THEN b ELSE g.memory[x]]
<1>1. Good(h) /\ g \in State
  BY WriteMemoryGood DEF Has, Good
<1>2. h = [g EXCEPT !.memory = m]
  BY DEF WriteMemory, WriteDevice, Poke
<1> HIDE DEF h, m
<1>3. h.registers = g.registers /\ h.memory = m
  BY <1>1, <1>2 DEF State
<1>4. Has(h, bytes, pc, sp)
  BY <1>1, <1>3 DEF Has, Get
<1>5. \A x : Peek(h, x) = IF x = a THEN b ELSE Peek(g, x)
  BY <1>3 DEF Peek, m
<1>6. QED
  BY <1>4, <1>5 DEF h

-----------------------------------------------------------------------------
(* A word that is pushed is popped again. *)

LEMMA BackAndForth ==
  ASSUME NEW sp \in Address
  PROVE  /\ (((sp - 1) % AddressMod) + 1) % AddressMod = sp
         /\ ((((sp - 1) % AddressMod) - 1) % AddressMod) = (sp - 2) % AddressMod
         /\ (((sp - 2) % AddressMod) + 1) % AddressMod = (sp - 1) % AddressMod
         /\ (sp - 1) % AddressMod # (sp - 2) % AddressMod
<1>1. sp \in Int /\ 0 <= sp /\ sp < 65536 /\ AddressMod = 65536
  BY Words16 DEF AddressMod
<1>2. /\ (((sp - 1) % 65536) + 1) % 65536 = sp
      /\ ((((sp - 1) % 65536) - 1) % 65536) = (sp - 2) % 65536
      /\ (((sp - 2) % 65536) + 1) % 65536 = (sp - 1) % 65536
      /\ (sp - 1) % 65536 # (sp - 2) % 65536
  BY <1>1
<1>3. QED
  BY <1>1, <1>2

LEMMA NoWrap ==
  ASSUME NEW a \in Address
  PROVE  a % AddressMod = a
<1>1. a \in Int /\ 0 <= a /\ a < 65536
  BY Words16
<1>2. a % 65536 = a
  BY <1>1
<1>3. QED
  BY <1>2 DEF AddressMod

LEMMA PushFrame ==
  ASSUME NEW g, NEW bytes, NEW pc, NEW sp \in Address, Has(g, bytes, pc, sp),
         NEW b \in Byte, NEW a, a = (sp - 1) % AddressMod, Device(a) = "memory"
  PROVE  /\ Has(StackPush(g, b), bytes, pc, a)
         /\ \A x : Peek(StackPush(g, b), x) = IF x = a THEN b ELSE Peek(g, x)
<1> DEFINE t == Tick(g, 1)
           p == Put(t, REG_SP, a)
<1>1. sp - 1 \in Int
  BY Words16
<1>2. a \in Address /\ a \in Int
  BY <1>1, Wrapped, Words16
<1>3. a % AddressMod = a
  BY <1>2, NoWrap
<1>4. Below(g) = a
  BY DEF Below, Has
<1>5. Has(t, bytes, pc, sp) /\ t.memory = g.memory
  BY TickFrame
<1> HIDE DEF t
<1>6. Has(p, bytes, pc, a) /\ p.memory = g.memory
  BY <1>2, <1>3, <1>5, PutPointers
<1> HIDE DEF p
<1>7. /\ Has(WriteMemory(p, a, b), bytes, pc, a)
      /\ \A x : Peek(WriteMemory(p, a, b), x) = IF x = a THEN b ELSE Peek(p, x)
  BY <1>2, <1>6, StoreFrame
<1>8. \A x : Peek(p, x) = Peek(g, x)
  BY <1>6 DEF Peek
<1>9. StackPush(g, b) = WriteMemory(p, a, b)
  BY <1>4 DEF StackPush, PushAt, p, t
<1>10. QED
  BY <1>7, <1>8, <1>9

LEMMA PushWordFrame ==
  ASSUME NEW g, NEW bytes, NEW pc, NEW sp \in Address, Has(g, bytes, pc, sp),
         NEW w \in Address,
         NEW upper, upper = (sp - 1) % AddressMod, Device(upper) = "memory",
         NEW lower, lower = (sp - 2) % AddressMod, Device(lower) = "memory"
  PROVE  /\ Has(StackPush16(g, w), bytes, pc, lower)
         /\ \A x : Peek(StackPush16(g, w), x) =
                     IF x = lower THEN LSB(w)
                     ELSE IF x = upper THEN MSB(w) ELSE Peek(g, x)
<1> DEFINE h == StackPush(g, MSB(w))
<1>1. LSB(w) \in Byte /\ MSB(w) \in Byte
  BY SplitWord
<1>2. /\ Has(h, bytes, pc, upper)
      /\ \A x : Peek(h, x) = IF x = upper THEN MSB(w) ELSE Peek(g, x)
  BY <1>1, PushFrame
<1>3. sp - 1 \in Int
  BY Words16
<1>4. upper \in Address /\ lower = (upper - 1) % AddressMod
  BY <1>3, Wrapped, BackAndForth
<1> HIDE DEF h
<1>5. /\ Has(StackPush(h, LSB(w)), bytes, pc, lower)
      /\ \A x : Peek(StackPush(h, LSB(w)), x) = IF x = lower THEN LSB(w) ELSE Peek(h, x)
  BY <1>1, <1>2, <1>4, PushFrame
<1>6. StackPush16(g, w) = StackPush(h, LSB(w))
  BY DEF StackPush16, h
<1>7. QED
  BY <1>2, <1>5, <1>6

LEMMA PopFrame ==
  ASSUME NEW g, NEW bytes, NEW pc, NEW sp \in Address, Has(g, bytes, pc, sp),
         Device(sp) = "memory", NEW b, Peek(g, sp) = b,
         NEW above, above = (sp + 1) % AddressMod
  PROVE  /\ Has(ReadNext(g, REG_SP).gb, bytes, pc, above)
         /\ ReadNext(g, REG_SP).gb.memory = g.memory
         /\ ReadNext(g, REG_SP).value = b
<1> DEFINE t == Tick(g, 1)
           next == sp + 1
<1>1. next \in Int /\ above = next % AddressMod
  BY Words16
<1>2. Get(g, REG_SP) = sp
  BY DEF Has
<1>3. ReadNext(g, REG_SP) = Read(Put(t, REG_SP, next), ReadMemory(t, sp))
  BY <1>2 DEF ReadNext, ReadAt
<1>t. Has(t, bytes, pc, sp) /\ t.memory = g.memory
  BY TickFrame
<1> HIDE DEF t, next
<1>4. /\ Has(Put(t, REG_SP, next), bytes, pc, above)
      /\ Put(t, REG_SP, next).memory = g.memory
  BY <1>1, <1>t, PutPointers
<1>5. ReadMemory(t, sp) = Peek(t, sp)
  BY DEF ReadMemory, ReadDevice
<1>6. ReadMemory(t, sp) = b
  BY <1>t, <1>5 DEF Peek
<1>7. QED
  BY <1>3, <1>4, <1>6 DEF Read

LEMMA PopWordFrame ==
  ASSUME NEW g, NEW bytes, NEW pc, NEW sp \in Address, NEW w \in Address,
         NEW upper, upper = (sp - 1) % AddressMod, Device(upper) = "memory",
         NEW lower, lower = (sp - 2) % AddressMod, Device(lower) = "memory",
         Has(g, bytes, pc, lower), Peek(g, lower) = LSB(w), Peek(g, upper) = MSB(w)
  PROVE  /\ Has(StackPop16(g).gb, bytes, pc, sp)
         /\ StackPop16(g).gb.memory = g.memory
         /\ StackPop16(g).value = w
<1> DEFINE low == ReadNext(g, REG_SP)
           high == ReadNext(low.gb, REG_SP)
<1>1. sp - 1 \in Int /\ sp - 2 \in Int
  BY Words16
<1>2. upper \in Address /\ lower \in Address
  BY <1>1, Wrapped
<1>3. (lower + 1) % AddressMod = upper /\ (upper + 1) % AddressMod = sp
  BY BackAndForth
<1>4. /\ Has(low.gb, bytes, pc, upper) /\ low.gb.memory = g.memory
      /\ low.value = LSB(w)
  BY <1>2, <1>3, PopFrame
<1>5. Peek(low.gb, upper) = MSB(w)
  BY <1>4 DEF Peek
<1> HIDE DEF low
<1>6. /\ Has(high.gb, bytes, pc, sp) /\ high.gb.memory = g.memory
      /\ high.value = MSB(w)
  BY <1>2, <1>3, <1>4, <1>5, PopFrame
<1>7. LSB(w) + 256 * MSB(w) = w
  <2>1. w \in Int
    BY Words16
  <2>2. QED
    BY <2>1 DEF LSB, MSB
<1>8. StackPop16(g) = Read(high.gb, low.value + 256 * high.value)
  BY DEF StackPop16, ReadNext16, ReadUpper, Joined, low
<1> HIDE DEF high
<1>9. QED
  BY <1>4, <1>6, <1>7, <1>8 DEF Read

LEMMA JumpFrame ==
  ASSUME NEW g, NEW bytes, NEW pc, NEW sp, Has(g, bytes, pc, sp),
         NEW value \in Int, NEW word, word = value % AddressMod
  PROVE  Has(Jump(g, value), bytes, word, sp) /\ Jump(g, value).memory = g.memory
<1>1. Has(Tick(g, 1), bytes, pc, sp) /\ Tick(g, 1).memory = g.memory
  BY TickFrame
<1>2. QED
  BY <1>1, PutPointers DEF Jump

(* A handler that returns at once: the pop undoes the push. *)
LEMMA ServeRestores ==
  ASSUME NEW g, Good(g), NEW i \in 0..4,
         NEW upper, upper = (Get(g, REG_SP) - 1) % AddressMod, Device(upper) = "memory",
         NEW lower, lower = (Get(g, REG_SP) - 2) % AddressMod, Device(lower) = "memory"
  PROVE  /\ Return(StackPop16(Serve(g, i))).registers = g.registers
         /\ Return(StackPop16(Serve(g, i))).memory = Serve(g, i).memory
         /\ \A x : x \notin {upper, lower} => Peek(Serve(g, i), x) = Peek(g, x)
<1> DEFINE bytes == g.registers
           pc == Get(g, REG_PC)
           sp == Get(g, REG_SP)
           t == Tick(g, 2)
           p == StackPush16(t, pc)
           vector == 64 + 8 * i
           word == vector % AddressMod
           j == Jump(p, vector)
           s == [j EXCEPT !.if_reg = FromBits(Bits(@) \ {i})]
           pop == StackPop16(s)
           back == Jump(pop.gb, pc)
<1>1. Has(g, bytes, pc, sp) /\ pc \in Address /\ sp \in Address /\ pc \in Int
  BY GetType, PointerTypes, Words16 DEF Has
<1>2. Has(t, bytes, pc, sp) /\ t.memory = g.memory
  BY <1>1, TickFrame
<1>3. s = Serve(g, i)
  BY DEF Serve, HandleInterrupt
<1>4. Good(s)
  BY <1>3, ServeGood
<1>5. back = Return(StackPop16(Serve(g, i))) <=> Jump(pop.gb, pc) = Jump(pop.gb, pop.value)
  BY <1>3 DEF Return
<1>6. /\ upper = (sp - 1) % AddressMod /\ lower = (sp - 2) % AddressMod
      /\ vector \in Int
  OBVIOUS
<1>7. LSB(pc) \in Byte /\ MSB(pc) \in Byte /\ upper # lower
  BY <1>1, SplitWord, BackAndForth
<1> HIDE DEF bytes, pc, sp, t, vector, word
<1>8. /\ Has(p, bytes, pc, lower)
      /\ \A x : Peek(p, x) = IF x = lower THEN LSB(pc)
                             ELSE IF x = upper THEN MSB(pc) ELSE Peek(t, x)
  BY <1>1, <1>2, <1>6, PushWordFrame
<1> HIDE DEF p
<1>9. Has(j, bytes, word, lower) /\ j.memory = p.memory
  BY <1>6, <1>8, JumpFrame DEF word
<1> HIDE DEF j
<1>10. Has(s, bytes, word, lower) /\ s.memory = p.memory
  <2>1. j \in State
    BY <1>9 DEF Has, Good
  <2>2. s.registers = j.registers /\ s.memory = j.memory
    BY <2>1 DEF State
  <2>3. QED
    BY <1>4, <1>9, <2>2 DEF Has, Get
<1> HIDE DEF s
<1>11. Peek(s, lower) = LSB(pc) /\ Peek(s, upper) = MSB(pc)
  <2>1. \A x : Peek(s, x) = Peek(p, x)
    BY <1>10 DEF Peek
  <2>2. QED
    BY <1>7, <1>8, <2>1
<1>12. Has(pop.gb, bytes, word, sp) /\ pop.gb.memory = s.memory /\ pop.value = pc
  BY <1>1, <1>6, <1>10, <1>11, PopWordFrame
<1> HIDE DEF pop
<1>13. Has(back, bytes, pc, sp) /\ back.memory = s.memory
  <2>1. pc = pc % AddressMod
    BY <1>1, NoWrap
  <2>2. QED
    BY <1>1, <1>12, <2>1, JumpFrame
<1> HIDE DEF back
<1>14. back.registers = g.registers
  BY <1>1, <1>13, SameFile
<1>15. \A x : x \notin {upper, lower} => Peek(s, x) = Peek(g, x)
  BY <1>2, <1>8, <1>10 DEF Peek
<1>16. back = Return(StackPop16(Serve(g, i)))
  BY <1>5, <1>12 DEF back
<1>17. QED
  BY <1>3, <1>13, <1>14, <1>15, <1>16

-----------------------------------------------------------------------------
(* What CALL, RST and PUSH leave on the stack is taken back. *)

LEMMA FetchFrame ==
  ASSUME NEW g, NEW bytes, NEW pc \in Address, NEW sp, Has(g, bytes, pc, sp),
         NEW next, next = (pc + 1) % AddressMod
  PROVE  /\ Has(FetchByte(g).gb, bytes, next, sp)
         /\ FetchByte(g).gb.memory = g.memory
<1> DEFINE t == Tick(g, 1)
<1>1. pc + 1 \in Int
  BY Words16
<1>2. FetchByte(g) = Read(Put(t, REG_PC, pc + 1), ReadMemory(t, pc))
  BY DEF FetchByte, ReadNext, ReadAt, Has
<1>3. Has(t, bytes, pc, sp) /\ t.memory = g.memory
  BY TickFrame
<1> HIDE DEF t
<1>4. /\ Has(Put(t, REG_PC, pc + 1), bytes, next, sp)
      /\ Put(t, REG_PC, pc + 1).memory = g.memory
  BY <1>1, <1>3, PutPointers
<1>5. QED
  BY <1>2, <1>4 DEF Read

(* Addresses are counted modulo 2^16. *)
LEMMA NextAddresses ==
  ASSUME NEW pc \in Address
  PROVE  /\ (pc + 1) % AddressMod \in Address
         /\ (pc + 3) % AddressMod = ((((pc + 1) % AddressMod) + 2) % AddressMod)
         /\ (pc + 2) % AddressMod = ((((pc + 1) % AddressMod) + 1) % AddressMod)
<1>1. pc \in Int /\ 0 <= pc /\ pc < 65536 /\ AddressMod = 65536
  BY Words16 DEF AddressMod
<1>2. /\ (pc + 1) % 65536 \in Int /\ 0 <= (pc + 1) % 65536 /\ (pc + 1) % 65536 < 65536
      /\ (pc + 3) % 65536 = ((((pc + 1) % 65536) + 2) % 65536)
      /\ (pc + 2) % 65536 = ((((pc + 1) % 65536) + 1) % 65536)
  BY <1>1
<1>3. QED
  BY <1>1, <1>2, Words16

LEMMA FetchWordFrame ==
  ASSUME NEW g, NEW bytes, NEW pc \in Address, NEW sp, Has(g, bytes, pc, sp),
         NEW after, after = (pc + 2) % AddressMod
  PROVE  /\ Has(FetchWord(g).gb, bytes, after, sp)
         /\ FetchWord(g).gb.memory = g.memory
<1> DEFINE low == FetchByte(g)
           next == (pc + 1) % AddressMod
<1>1. next \in Address /\ after = (next + 1) % AddressMod
  BY NextAddresses
<1> HIDE DEF next
<1>2. Has(low.gb, bytes, next, sp) /\ low.gb.memory = g.memory
  BY FetchFrame DEF next
<1>3. FetchWord(g).gb = FetchByte(low.gb).gb
  BY DEF FetchWord, ReadNext16, ReadUpper, Joined, Read, FetchByte
<1> HIDE DEF low
<1>4. /\ Has(FetchByte(low.gb).gb, bytes, after, sp)
      /\ FetchByte(low.gb).gb.memory = low.gb.memory
  BY <1>1, <1>2, FetchFrame
<1>5. QED
  BY <1>2, <1>3, <1>4

(* The word at the top of the stack, and nothing else in memory. *)
LEMMA PushedWord ==
  ASSUME NEW g, NEW bytes, NEW pc, NEW sp \in Address, Has(g, bytes, pc, sp),
         NEW w \in Address,
         NEW upper, upper = (sp - 1) % AddressMod, Device(upper) = "memory",
         NEW lower, lower = (sp - 2) % AddressMod, Device(lower) = "memory"
  PROVE  LET p == StackPush16(Tick(g, 1), w)
         IN  /\ Has(p, bytes, pc, lower)
             /\ Peek(p, lower) = LSB(w) /\ Peek(p, upper) = MSB(w)
             /\ \A x : x \notin {upper, lower} => Peek(p, x) = Peek(g, x)
<1> DEFINE t == Tick(g, 1)
           p == StackPush16(t, w)
<1>1. Has(t, bytes, pc, sp) /\ t.memory = g.memory
  BY TickFrame
<1> HIDE DEF t
<1>2. /\ Has(p, bytes, pc, lower)
      /\ \A x : Peek(p, x) = IF x = lower THEN LSB(w)
                             ELSE IF x = upper THEN MSB(w) ELSE Peek(t, x)
  BY <1>1, PushWordFrame
<1>3. upper # lower
  BY BackAndForth
<1>4. \A x : Peek(t, x) = Peek(g, x)
  BY <1>1 DEF Peek
<1> HIDE DEF p
<1>5. /\ Peek(p, lower) = LSB(w) /\ Peek(p, upper) = MSB(w)
      /\ \A x : x \notin {upper, lower} => Peek(p, x) = Peek(g, x)
  BY <1>2, <1>3, <1>4
<1>6. QED
  BY <1>2, <1>5 DEF p, t

(* There is plain memory below the stack.                                  *)
PlainBelow(sp) ==
  Device((sp - 1) % AddressMod) = "memory" /\ Device((sp - 2) % AddressMod) = "memory"

(* After a push and its counterpart the registers are these, and the push  *)
(* has stored nothing but its word.                                        *)
Regained(back, pushed, g, bytes, pc, sp) ==
  /\ Has(back, bytes, pc, sp)
  /\ back.memory = pushed.memory
  /\ \A x : x \notin {(sp - 1) % AddressMod, (sp - 2) % AddressMod}
             => Peek(pushed, x) = Peek(g, x)

LEMMA CallReturns ==
  ASSUME NEW g, NEW bytes, NEW pc \in Address, NEW sp \in Address, Has(g, bytes, pc, sp),
         NEW address \in Int, PlainBelow(sp)
  PROVE  Regained(Return(StackPop16(PushAndJump(g, address))), PushAndJump(g, address),
                  g, bytes, pc, sp)
<1> DEFINE upper == (sp - 1) % AddressMod
           lower == (sp - 2) % AddressMod
           p == StackPush16(Tick(g, 1), pc)
           c == Put(p, REG_PC, address)
           word == address % AddressMod
           pop == StackPop16(c)
           back == Jump(pop.gb, pc)
<1>0. Device(upper) = "memory" /\ Device(lower) = "memory"
  BY DEF PlainBelow
<1>1. Get(g, REG_PC) = pc
  BY DEF Has
<1>2. c = PushAndJump(g, address)
  BY <1>1 DEF PushAndJump
<1>3. /\ Has(p, bytes, pc, lower)
      /\ Peek(p, lower) = LSB(pc) /\ Peek(p, upper) = MSB(pc)
      /\ \A x : x \notin {upper, lower} => Peek(p, x) = Peek(g, x)
  BY <1>0, PushedWord
<1> HIDE DEF p
<1>4. Has(c, bytes, word, lower) /\ c.memory = p.memory
  BY <1>3, PutPointers
<1>5. \A x : Peek(c, x) = Peek(p, x)
  BY <1>4 DEF Peek
<1> HIDE DEF c, word
<1>6. Peek(c, lower) = LSB(pc) /\ Peek(c, upper) = MSB(pc)
  BY <1>3, <1>5
<1>7. Has(pop.gb, bytes, word, sp) /\ pop.gb.memory = c.memory /\ pop.value = pc
  BY <1>0, <1>4, <1>6, PopWordFrame
<1>8. back = Return(pop)
  BY <1>7 DEF Return
<1> HIDE DEF pop
<1>9. pc \in Int /\ pc = pc % AddressMod
  BY Words16, NoWrap
<1>10. Has(back, bytes, pc, sp) /\ back.memory = c.memory
  BY <1>7, <1>9, JumpFrame
<1>11. back = Return(StackPop16(PushAndJump(g, address)))
  BY <1>2, <1>8 DEF pop
<1>12. QED
  BY <1>2, <1>3, <1>5, <1>10, <1>11 DEF Regained

(* A pair that is written with its own value keeps it, and a clean F too. *)
LEMMA PairRewritten ==
  ASSUME NEW g, Good(g), NEW reg \in {REG_AF, REG_BC, REG_DE, REG_HL}
  PROVE  Put(g, reg, Get(g, reg)) = g
<1> DEFINE file == g.registers
           low == LowByte(reg)
           high == HighByte(reg)
           v == 256 * file[high] + file[low]
<1>1. g \in State /\ file \in [0..11 -> Byte]
  BY FieldTypes, FileType DEF Good
<1>2. /\ Is16bit(reg) /\ low \in 0..11 /\ high \in 0..11 /\ low # high
  BY DEF Is16bit, LowByte, HighByte, REG_PC, REG_SP, REG_AF, REG_BC, REG_DE, REG_HL
<1>3. Get(g, reg) = v
  BY <1>2 DEF Get, ReadRegister16
<1>4. Put(g, reg, v) = [g EXCEPT !.registers =
                         [@ EXCEPT ![low] = LSB(v), ![high] = MSB(v % 65536)]]
  BY <1>2 DEF Put, WriteRegister16
<1>5. file[low] \in Byte /\ file[high] \in Byte
  BY <1>1, <1>2
<1> HIDE DEF low, high
<1>6. LSB(v) = file[low] /\ MSB(v % 65536) = file[high]
  <2>1. ASSUME NEW h \in Byte, NEW l \in Byte
        PROVE  LSB(256 * h + l) = l /\ MSB((256 * h + l) % 65536) = h
    <3>1. h \in Int /\ l \in Int /\ 0 <= h /\ h < 256 /\ 0 <= l /\ l < 256
      BY Bytes8
    <3>2. (256 * h + l) % 65536 = 256 * h + l
      BY <3>1
    <3>3. (256 * h + l) % 256 = l /\ (256 * h + l) \div 256 = h
      BY <3>1
    <3>4. QED
      BY <3>2, <3>3 DEF LSB, MSB
  <2>2. QED
    BY <1>5, <2>1
<1> HIDE DEF v, file
<1>7. [file EXCEPT ![low] = LSB(v), ![high] = MSB(v % 65536)] = file
  BY <1>1, <1>6
<1>8. [g EXCEPT !.registers = file] = g
  BY <1>1 DEF State, file
<1>9. QED
  BY <1>3, <1>4, <1>7, <1>8 DEF file

LEMMA CleanFlags ==
  ASSUME NEW g, Good(g)
  PROVE  MaskF(g) = g
<1> DEFINE file == g.registers
           f == file[1]
<1>1. g \in State /\ file \in [0..11 -> Byte] /\ f % 16 = 0 /\ f \in Byte
  BY FieldTypes, FileType DEF Good, REG_F
<1>2. Get(g, REG_F) = f /\ ~Is16bit(REG_F) /\ REG_F = 1
  BY DEF Get, ReadRegister16, Is16bit, REG_F, REG_PC
<1>3. MaskF(g) = [g EXCEPT !.registers = [@ EXCEPT ![1] = LSB(16 * (f \div 16))]]
  BY <1>2 DEF MaskF, Put, WriteRegister16
<1> HIDE DEF f
<1>4. LSB(16 * (f \div 16)) = f
  <2>1. f \in Int /\ 0 <= f /\ f < 256
    BY <1>1, Bytes8
  <2>2. 16 * (f \div 16) = f /\ f % 256 = f
    BY <1>1, <2>1
  <2>3. QED
    BY <2>2 DEF LSB
<1>5. [file EXCEPT ![1] = f] = file
  BY <1>1 DEF f
<1> HIDE DEF file
<1>6. [g EXCEPT !.registers = file] = g
  BY <1>1 DEF State, file
<1>7. QED
  BY <1>3, <1>4, <1>5, <1>6 DEF file

LEMMA PairReturns ==
  ASSUME NEW g, NEW bytes, NEW pc, NEW sp \in Address, Has(g, bytes, pc, sp),
         NEW reg \in {REG_AF, REG_BC, REG_DE, REG_HL}, PlainBelow(sp),
         NEW p, p = StackPush16(Tick(g, 1), Get(g, reg))
  PROVE  Regained(MaskF(Popped(StackPop16(p), reg)), p, g, bytes, pc, sp)
<1> DEFINE upper == (sp - 1) % AddressMod
           lower == (sp - 2) % AddressMod
           w == Get(g, reg)
           pop == StackPop16(p)
<1>0. Device(upper) = "memory" /\ Device(lower) = "memory"
  BY DEF PlainBelow
<1>p. p = StackPush16(Tick(g, 1), w)
  OBVIOUS
<1>1. w \in Address
  <2>1. reg \in Readable
    BY DEF Readable, Writable, WordRegisters
  <2>2. QED
    BY <2>1, GetType DEF Has
<1>2. /\ Has(p, bytes, pc, lower)
      /\ Peek(p, lower) = LSB(w) /\ Peek(p, upper) = MSB(w)
      /\ \A x : x \notin {upper, lower} => Peek(p, x) = Peek(g, x)
  BY <1>0, <1>1, <1>p, PushedWord
<1> HIDE DEF w
<1>3. Has(pop.gb, bytes, pc, sp) /\ pop.gb.memory = p.memory /\ pop.value = w
  BY <1>0, <1>1, <1>2, PopWordFrame
<1> HIDE DEF pop
<1>4. Good(pop.gb) /\ w = Get(pop.gb, reg)
  <2>1. pop.gb.registers = g.registers
    BY <1>3, SameFile
  <2>2. QED
    BY <1>3, <2>1 DEF w, Get, Has
<1>5. Popped(pop, reg) = pop.gb
  BY <1>3, <1>4, PairRewritten DEF Popped
<1>6. MaskF(Popped(pop, reg)) = pop.gb
  BY <1>4, <1>5, CleanFlags
<1>7. QED
  BY <1>2, <1>3, <1>6 DEF pop, Regained

(* The instructions that push, decoded; a CALL may not be taken.           *)
LEMMA PushEntries ==
  ASSUME NEW op \in Byte
  PROVE  /\ Table!Name(op) = "PUSH" => Table!Type(op) = "R16"
         /\ Table!Name(op) = "CALL" => Table!Type(op) \in {"A16", "FLAG_A16"}
         /\ Table!Name(op) = "RST" => Table!Type(op) = "RST"
<1>1. Entry(Table!Name(op), Table!Type(op))
  BY TableEntries DEF TableEntry
<1>2. QED
  BY <1>1 DEF Entry, WithOperand, WithoutOperand

LEMMA Executed ==
  ASSUME NEW g, NEW op, NEW name, NEW type, NEW operands,
         op = FetchByte(g).value, name = Table!Name(op), type = Table!Type(op),
         operands = Operands(FetchByte(g).gb, op, type)
  PROVE  Execute(g) = Handler(Fetched(FetchByte(g).gb, op, type, name, operands))
BY DEF Execute, Decoded, FetchInstruction, FetchTyped

LEMMA PushExecuted ==
  ASSUME NEW g, Good(g), NEW h, h = FetchByte(g).gb, NEW op, op = FetchByte(g).value
  PROVE  /\ op \in Byte
         /\ Table!Name(op) = "PUSH" =>
              Execute(g) = StackPush16(Tick(h, 1), Get(h, FindRegister16PushPop(OpcodeP(op))))
         /\ Table!Name(op) = "RST" => Execute(g) = PushAndJump(h, 8 * Table!OpcodeY(op))
         /\ Table!Name(op) = "CALL" =>
              \/ Execute(g) = FetchWord(h).gb
              \/ Execute(g) = PushAndJump(FetchWord(h).gb, FetchWord(h).value)
<1> DEFINE type == Table!Type(op)
           operands == Operands(h, op, type)
<1>1. op \in Byte /\ Good(h)
  BY FetchTypes DEF ReadsByte
<1>2. ASSUME Table!Name(op) = "PUSH"
      PROVE  Execute(g) = StackPush16(Tick(h, 1), Get(h, FindRegister16PushPop(OpcodeP(op))))
  <2> DEFINE in == Fetched(h, op, type, "PUSH", operands)
  <2>1. type = "R16"
    BY <1>1, <1>2, PushEntries
  <2>2. operands.gb = h
    BY <2>1 DEF Operands, InData, Read, ByteData, WordAddress
  <2>3. in.gb = h /\ in.reg1 = FindRegister16PushPop(OpcodeP(op)) /\ in.name = "PUSH"
    BY <2>1, <2>2 DEF Fetched, Reg1
  <2>4. Execute(g) = Handler(in)
    BY <1>2, Executed
  <2> HIDE DEF in
  <2>5. QED
    BY <2>3, <2>4 DEF Handler, Push
<1>3. ASSUME Table!Name(op) = "RST"
      PROVE  Execute(g) = PushAndJump(h, 8 * Table!OpcodeY(op))
  <2> DEFINE in == Fetched(h, op, type, "RST", operands)
  <2>1. type = "RST"
    BY <1>1, <1>3, PushEntries
  <2>2. operands.gb = h /\ operands.data = 8 * Table!OpcodeY(op)
    BY <2>1 DEF Operands, InData, Read, ByteData, WordAddress
  <2>3. in.gb = h /\ in.data = 8 * Table!OpcodeY(op) /\ in.name = "RST"
    BY <2>2 DEF Fetched
  <2>4. Execute(g) = Handler(in)
    BY <1>3, Executed
  <2> HIDE DEF in
  <2>5. QED
    BY <2>3, <2>4 DEF Handler
<1>4. ASSUME Table!Name(op) = "CALL"
      PROVE  \/ Execute(g) = FetchWord(h).gb
             \/ Execute(g) = PushAndJump(FetchWord(h).gb, FetchWord(h).value)
  <2> DEFINE in == Fetched(h, op, type, "CALL", operands)
  <2>1. type \in {"A16", "FLAG_A16"}
    BY <1>1, <1>4, PushEntries
  <2>2. FetchWord(h).value \in Int
    <3>1. ReadsWord(FetchWord(h))
      BY <1>1, FetchTypes
    <3>2. QED
      BY <3>1, Words16 DEF ReadsWord
  <2>3. operands.gb = FetchWord(h).gb /\ operands.address = FetchWord(h).value
    <3>1. operands = InAddress(FetchWord(h), 0, Get(h, REG_SP))
      BY <2>1 DEF Operands, ByteData, WordAddress
    <3>2. QED
      BY <2>2, <3>1 DEF InAddress
  <2>4. /\ in.gb = FetchWord(h).gb /\ in.address = FetchWord(h).value
        /\ in.name = "CALL"
    BY <2>3 DEF Fetched
  <2>5. Execute(g) = Handler(in)
    BY <1>4, Executed
  <2> HIDE DEF in
  <2>6. Execute(g) = Call(in)
    BY <2>4, <2>5 DEF Handler
  <2>7. QED
    BY <2>4, <2>6 DEF Call
<1>5. QED
  BY <1>1, <1>2, <1>3, <1>4

(* A register of the pairs that are pushed. *)
LEMMA PushedPair ==
  ASSUME NEW op \in Byte
  PROVE  LET reg == FindRegister16PushPop(OpcodeP(op))
         IN  /\ reg \in {REG_AF, REG_BC, REG_DE, REG_HL}
             /\ reg = <<REG_BC, REG_DE, REG_HL, REG_AF>>[OpcodeP(op) + 1]
<1> DEFINE p == OpcodeP(op)
<1>1. p \in 0..3
  <2>1. op \in Int
    BY Bytes8
  <2>2. QED
    BY <2>1 DEF OpcodeP
<1> HIDE DEF p
<1>2. /\ FindRegister16PushPop(p) \in {REG_AF, REG_BC, REG_DE, REG_HL}
      /\ FindRegister16PushPop(p) = <<REG_BC, REG_DE, REG_HL, REG_AF>>[p + 1]
  BY <1>1 DEF FindRegister16PushPop, REG_AF, REG_BC, REG_DE, REG_HL
<1>3. QED
  BY <1>2 DEF p

=============================================================================
