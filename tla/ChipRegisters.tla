---------------------------- MODULE ChipRegisters ---------------------------
(***************************************************************************)
(* What the memory bank controllers share: the loaded cartridge            *)
(* (g_cartridge), the chip registers a program sets by writing into the    *)
(* ROM area (g_chip_registers), and the gate of the external RAM           *)
(* (g_ram_access).                                                         *)
(***************************************************************************)
EXTENDS Integers

VARIABLES rom_size, ram_size, multicart,      \* g_cartridge
          ram_g, rom_bank, ram_bank, mode,    \* g_chip_registers
          ram_access                          \* g_ram_access

cartVars == <<rom_size, ram_size, multicart>>
bankVars == <<rom_bank, ram_bank, mode>>
chipVars == <<ram_g, rom_bank, ram_bank, mode, ram_access>>

RomBankSize == 16384
RamBankSize == 8192
VideoRam    == 40960

\* The areas of the cartridge's address space, by their first address past
\* the end: RAM_GATE, ROM_BANK, ROM_BANK2, ROM_BANK_SWITCHABLE, VIDEO_RAM,
\* EXTERNAL_RAM.
Area(address) ==
  CASE address < 8192                       -> "gate"
    [] address >= 8192 /\ address < 16384   -> "bank"
    [] address >= 16384 /\ address < 24576  -> "bank2"
    [] address >= 24576 /\ address < 32768  -> "mode"
    [] address >= VideoRam /\ address < 49152  -> "ram"
    [] OTHER                                -> "none"

ChipTypeOK ==
  /\ rom_size \in Nat
  /\ ram_size \in Nat
  /\ multicart \in BOOLEAN
  /\ ram_g \in 0..15
  /\ rom_bank \in 0..255
  /\ ram_bank \in 0..3
  /\ mode \in BOOLEAN
  /\ ram_access \in BOOLEAN

\* The initialisers of g_chip_registers and g_ram_access.
ChipInit ==
  /\ ram_g = 0
  /\ rom_bank = 1
  /\ ram_bank = 0
  /\ mode = FALSE
  /\ ram_access = FALSE

\* A bank number of zero is stored as one.
NonZero(bank) == IF bank = 0 THEN 1 ELSE bank

\* The offset of a RAM access: bank 0 unless mode is set (MBC1 and MBC3).
BankedRam(address) ==
  (address % RamBankSize) + (IF mode THEN ram_bank ELSE 0) * RamBankSize
=============================================================================
