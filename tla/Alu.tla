-------------------------------- MODULE Alu ---------------------------------
(***************************************************************************)
(* The arithmetic of the CPU (src/src/cpu/instruction.c and                *)
(* instruction_cb.c): what an instruction makes of a register a, the       *)
(* operand d and the flags f.  A result is a record of the byte left in    *)
(* the register and of the flags left behind.                              *)
(***************************************************************************)
EXTENDS Integers

Byte == 0..255

Flags == [z : BOOLEAN, n : BOOLEAN, h : BOOLEAN, c : BOOLEAN]

\* Variant of Result: the value is not truncated.
ResultWide(value, z, n, h, c) ==
  [a |-> value, f |-> [z |-> z, n |-> n, h |-> h, c |-> c]]

\* A u8 register takes the value modulo 256.
Result(value, z, n, h, c) ==
  [a |-> value % 256, f |-> [z |-> z, n |-> n, h |-> h, c |-> c]]

\* The common case: Z tells whether the byte written is 0.
Zeroed(value, n, h, c) == Result(value, value % 256 = 0, n, h, c)

Number(flag) == IF flag THEN 1 ELSE 0

\* BIT(byte, n), as a flag, and the byte with the bits of a set.
Bit(byte, n) == (byte \div 2^n) % 2 = 1
Bits(byte) == {n \in 0..7 : Bit(byte, n)}
FromBits(S) ==
  LET Weight(n) == IF n \in S THEN 2^n ELSE 0
  IN  Weight(0) + Weight(1) + Weight(2) + Weight(3)
        + Weight(4) + Weight(5) + Weight(6) + Weight(7)

-----------------------------------------------------------------------------
(* add, adc, sub, sbc, cp: the operand is another register, (HL) or d8. *)

Add(a, d, f) == Zeroed(a + d, FALSE, (a % 16) + (d % 16) >= 16, a + d >= 256)

\* Variant of Adc: the half carry leaves out the carry.
AdcHalf(a, d, f) ==
  Zeroed(a + d + Number(f.c), FALSE,
         (a % 16) + (d % 16) >= 16, a + d + Number(f.c) >= 256)

Adc(a, d, f) ==
  LET carry == Number(f.c)
  IN  Zeroed(a + d + carry, FALSE,
             (a % 16) + (d % 16) + carry >= 16, a + d + carry >= 256)

Sub(a, d, f) == Zeroed(a - d, TRUE, a % 16 < d % 16, d > a)

\* The half carry is bit 4 of a wrapped u8, the carry bit 8 of a wrapped u16.
Sbc(a, d, f) ==
  LET carry == Number(f.c)
  IN  Zeroed(a - d - carry, TRUE,
             Bit(((a % 16) - (d % 16) - carry) % 256, 4),
             Bit((a - d - carry) % 65536, 8))

Cp(a, d, f) == Result(a, a = d, TRUE, a % 16 < d % 16, a < d)

And(a, d, f) == Zeroed(FromBits(Bits(a) \cap Bits(d)), FALSE, TRUE, FALSE)
Or(a, d, f)  == Zeroed(FromBits(Bits(a) \cup Bits(d)), FALSE, FALSE, FALSE)
Xor(a, d, f) ==
  Zeroed(FromBits((Bits(a) \cup Bits(d)) \ (Bits(a) \cap Bits(d))),
         FALSE, FALSE, FALSE)

\* inc, dec of an 8-bit register; the carry stays.
Inc(a, d, f) == Zeroed(a + 1, FALSE, (a % 16) + 1 > 15, f.c)
Dec(a, d, f) == Zeroed(a - 1, TRUE, (a - 1) % 16 = 15, f.c)

\* add of HL and a 16-bit register: Z stays.
AddHl(hl, rr, f) ==
  [hl |-> (hl + rr) % 65536,
   f  |-> [f EXCEPT !.n = FALSE, !.c = hl + rr >= 65536,
                    !.h = (hl % 4096) + (rr % 4096) >= 4096]]

\* An i8 operand.
Signed(d) == IF d >= 128 THEN d - 256 ELSE d

\* add of SP and an i8, also the value of LD HL,SP+d8: the sum is signed, the
\* flags are those of the lower bytes as unsigned numbers.
AddSp(sp, d) ==
  [sp |-> (sp + Signed(d)) % 65536,
   f  |-> [z |-> FALSE, n |-> FALSE,
           h |-> (sp % 16) + (d % 16) >= 16, c |-> (sp % 256) + d >= 256]]

-----------------------------------------------------------------------------
(* daa, cpl, scf, ccf: the accumulator and the flags only. *)

\* Variant of DaaHigh: a high digit above 9 is not corrected.
DaaHighCarried(a, f) == ~f.n /\ f.c

\* After an addition, the high digit has overflowed.
DaaHigh(a, f) == ~f.n /\ (f.c \/ a > 153)

\* The correction of the high digit looks at the carry and the whole byte,
\* that of the low digit at the byte already corrected.
Daa(a, d, f) ==
  LET high == DaaHigh(a, f)
      once == IF f.n THEN (IF f.c THEN a - 96 ELSE a) % 256
              ELSE (IF high THEN a + 96 ELSE a) % 256
      low  == f.h \/ (~f.n /\ once % 16 > 9)
      twice == IF ~low THEN once ELSE IF f.n THEN once - 6 ELSE once + 6
  IN  Zeroed(twice, f.n, FALSE, f.c \/ high)

Cpl(a, d, f) == [a |-> 255 - a, f |-> [f EXCEPT !.n = TRUE, !.h = TRUE]]
Scf(a, d, f) == [a |-> a, f |-> [f EXCEPT !.n = FALSE, !.h = FALSE, !.c = TRUE]]
Ccf(a, d, f) == [a |-> a, f |-> [f EXCEPT !.n = FALSE, !.h = FALSE, !.c = ~f.c]]

-----------------------------------------------------------------------------
(* The CB rotations and shifts; z tells whether the result is 0. *)

Rlc(a, d, f) == Zeroed(2 * a + Number(Bit(a, 7)), FALSE, FALSE, Bit(a, 7))
\* Variant of Rrc: the carry is rotated in.
RrcCarried(a, d, f) == Zeroed((a \div 2) + 128 * Number(f.c), FALSE, FALSE, Bit(a, 0))

Rrc(a, d, f) == Zeroed((a \div 2) + 128 * Number(Bit(a, 0)), FALSE, FALSE, Bit(a, 0))
Rl(a, d, f)  == Zeroed(2 * a + Number(f.c), FALSE, FALSE, Bit(a, 7))

\* Variant of Rr: the byte's own bit is rotated in.
RrUncarried(a, d, f) ==
  Zeroed((a \div 2) + 128 * Number(Bit(a, 0)), FALSE, FALSE, Bit(a, 0))

Rr(a, d, f)  == Zeroed((a \div 2) + 128 * Number(f.c), FALSE, FALSE, Bit(a, 0))
Sla(a, d, f) == Zeroed(2 * a, FALSE, FALSE, Bit(a, 7))
Sra(a, d, f) == Zeroed((a \div 2) + 128 * Number(Bit(a, 7)), FALSE, FALSE, Bit(a, 0))
Srl(a, d, f) == Zeroed(a \div 2, FALSE, FALSE, Bit(a, 0))
Swap(a, d, f) == Zeroed((a \div 16) + 16 * (a % 16), FALSE, FALSE, FALSE)

\* rlca, rrca, rla, rra: the same on the accumulator, but Z is always clear.
NoZero(result) == [result EXCEPT !.f.z = FALSE]

Rlca(a, d, f) == NoZero(Rlc(a, d, f))
Rrca(a, d, f) == NoZero(Rrc(a, d, f))
Rla(a, d, f)  == NoZero(Rl(a, d, f))
Rra(a, d, f)  == NoZero(Rr(a, d, f))

\* res, set and bit; the operand is the bit's number.
Res(a, d, f) == [a |-> FromBits(Bits(a) \ {d}), f |-> f]
Set(a, d, f) == [a |-> FromBits(Bits(a) \cup {d}), f |-> f]
TestBit(a, d, f) == Result(a, ~Bit(a, d), FALSE, TRUE, f.c)

-----------------------------------------------------------------------------
\* g_instruction_handlers and g_rot_list: the handler of an operation.
Apply(operation, a, d, f) ==
  CASE operation = "ADD"  -> Add(a, d, f)
    [] operation = "ADC"  -> Adc(a, d, f)
    [] operation = "SUB"  -> Sub(a, d, f)
    [] operation = "SBC"  -> Sbc(a, d, f)
    [] operation = "CP"   -> Cp(a, d, f)
    [] operation = "AND"  -> And(a, d, f)
    [] operation = "OR"   -> Or(a, d, f)
    [] operation = "XOR"  -> Xor(a, d, f)
    [] operation = "INC"  -> Inc(a, d, f)
    [] operation = "DEC"  -> Dec(a, d, f)
    [] operation = "DAA"  -> Daa(a, d, f)
    [] operation = "CPL"  -> Cpl(a, d, f)
    [] operation = "SCF"  -> Scf(a, d, f)
    [] operation = "CCF"  -> Ccf(a, d, f)
    [] operation = "RLC"  -> Rlc(a, d, f)
    [] operation = "RRC"  -> Rrc(a, d, f)
    [] operation = "RL"   -> Rl(a, d, f)
    [] operation = "RR"   -> Rr(a, d, f)
    [] operation = "SLA"  -> Sla(a, d, f)
    [] operation = "SRA"  -> Sra(a, d, f)
    [] operation = "SRL"  -> Srl(a, d, f)
    [] operation = "SWAP" -> Swap(a, d, f)
    [] operation = "RLCA" -> Rlca(a, d, f)
    [] operation = "RRCA" -> Rrca(a, d, f)
    [] operation = "RLA"  -> Rla(a, d, f)
    [] operation = "RRA"  -> Rra(a, d, f)
    [] operation = "RES"  -> Res(a, d, f)
    [] operation = "SET"  -> Set(a, d, f)
    [] operation = "BIT"  -> TestBit(a, d, f)
=============================================================================
