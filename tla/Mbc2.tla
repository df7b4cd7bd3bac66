-------------------------------- MODULE Mbc2 --------------------------------
(***************************************************************************)
(* The MBC2 controller (src/src/cartridge/mbc2.c): bit 8 of the address    *)
(* tells the RAM gate from the ROM bank register.                          *)
(***************************************************************************)
EXTENDS ChipRegisters

Bit8(address) == (address \div 256) % 2 = 1

\* Variant of Mbc2Rom: the register keeps five bits.
Mbc2RomWide(data) == NonZero(data % 32)

\* The bank register has four bits.
Mbc2Rom(data) == NonZero(data % 16)

\* write_mbc2 to the ROM area.
WriteMbc2(address, data) ==
  LET register == address < RomBankSize
      gate     == register /\ ~Bit8(address)
  IN  /\ ram_g' = IF gate THEN data % 16 ELSE ram_g
      /\ ram_access' = IF gate THEN data % 16 = 10 ELSE ram_access
      /\ rom_bank' = IF register /\ ~gate THEN Mbc2Rom(data) ELSE rom_bank
      /\ UNCHANGED <<ram_bank, mode>>

\* compute_physical_adress: the fixed bank is masked with 13 bits.
PhysicalMbc2(address) ==
  CASE Area(address) = "ram"   -> address - VideoRam
    [] address < RomBankSize   -> address % 8192
    [] OTHER -> NonZero(rom_bank) * RomBankSize + (address % RomBankSize)
=============================================================================
