-------------------------------- MODULE Mbc1 --------------------------------
(***************************************************************************)
(* The MBC1 controller (src/src/cartridge/mbc1.c).                         *)
(***************************************************************************)
EXTENDS ChipRegisters

\* Variant of Mbc1Bank2: the byte is not masked.
Mbc1Bank2Unmasked(data) == data

\* BANK2 has two bits.
Mbc1Bank2(data) == data % 4

\* write_mbc1 to the ROM area; the RAM area leaves the registers alone.
WriteMbc1(address, data) ==
  /\ ram_g' = IF Area(address) = "gate" THEN data % 16 ELSE ram_g
  /\ ram_access' = IF Area(address) = "gate" THEN data % 16 = 10 ELSE ram_access
  /\ rom_bank' = IF Area(address) = "bank" THEN NonZero(data % 32) ELSE rom_bank
  /\ ram_bank' = IF Area(address) = "bank2" THEN Mbc1Bank2(data) ELSE ram_bank
  /\ mode' = IF Area(address) = "mode" THEN data % 2 = 1 ELSE mode

\* The number of banks BANK1 chooses from: a multicart wires one bit less.
Mbc1Span == IF multicart THEN 16 ELSE 32

\* Variant of Mbc1Lower: a bank of 0 is not read as 1.
Mbc1LowerZero == IF multicart THEN rom_bank % 16 ELSE rom_bank

\* BANK1, as compute_physical_address uses it.
Mbc1Lower ==
  IF rom_bank = 0 THEN 1 ELSE IF multicart THEN rom_bank % 16 ELSE rom_bank

\* compute_physical_address; bank is a u8.
Mbc1Bank(address) ==
  IF address < RomBankSize
  THEN IF mode THEN (ram_bank * Mbc1Span) % 256 ELSE 0
  ELSE (ram_bank * Mbc1Span + Mbc1Lower) % 256

PhysicalMbc1(address) ==
  IF Area(address) = "ram" THEN BankedRam(address)
  ELSE (address % RomBankSize) + Mbc1Bank(address) * RomBankSize
=============================================================================
