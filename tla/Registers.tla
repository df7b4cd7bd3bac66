------------------------------ MODULE Registers -----------------------------
(***************************************************************************)
(* The register file (src/src/cpu/cpu.c, src/include/cpu/cpu.h): twelve    *)
(* bytes that hold the eight 8-bit registers and, after them, PC and SP    *)
(* with their lower byte first.  A register is a number; the pairs AF, BC, *)
(* DE and HL are the 8-bit registers two by two, the upper byte first.     *)
(* Nothing checks the number: one past the last pair names bytes of PC     *)
(* and SP.                                                                 *)
(***************************************************************************)
EXTENDS Integers

REG_A == 0
REG_F == 1
REG_B == 2
REG_C == 3
REG_H == 6
REG_L == 7
REG_PC == 8
REG_SP == 9
REG_AF == 10
REG_BC == 11
REG_DE == 12
REG_HL == 13
REG_ERR == 14

File == [0..11 -> 0..255]

LSB(value) == value % 256
MSB(value) == value \div 256

Is16bit(reg) == reg >= REG_PC

\* The offsets of the lower and of the upper byte of a 16-bit register.
LowByte(reg) ==
  IF reg \in {REG_PC, REG_SP} THEN 2 * reg - 8 ELSE 2 * (reg % REG_AF) + 1
HighByte(reg) ==
  IF reg \in {REG_PC, REG_SP} THEN 2 * reg - 7 ELSE 2 * (reg % REG_AF)

\* read_register_16bit; read_register, which is only asked for 8-bit
\* registers, does the same.
ReadRegister16(file, reg) ==
  IF Is16bit(reg) THEN 256 * file[HighByte(reg)] + file[LowByte(reg)]
  ELSE file[reg]

\* write_register_16bit: a u16 is stored, of which an 8-bit register takes
\* the lower byte; write_register, only called for 8-bit registers, does the
\* same.
WriteRegister16(file, reg, value) ==
  IF Is16bit(reg)
  THEN [file EXCEPT ![LowByte(reg)]  = LSB(value),
                    ![HighByte(reg)] = MSB(value % 65536)]
  ELSE [file EXCEPT ![reg] = LSB(value)]

\* reset_cpu: AF = 0x01B0, BC = 0x0013, DE = 0x00D8, HL = 0x014D, PC = 0x0100
\* and SP = 0xFFFE, in the order of the bytes.
ResetFile ==
  LET bytes == <<1, 176, 0, 19, 0, 216, 1, 77, 0, 1, 254, 255>>
  IN  [i \in 0..11 |-> bytes[i + 1]]
=============================================================================
