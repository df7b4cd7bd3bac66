-------------------------------- MODULE Mbc3 --------------------------------
(***************************************************************************)
(* The MBC3 controller (src/src/cartridge/mbc3.c): ROM banking, and the    *)
(* registers of the real-time clock in place of a RAM bank.                *)
(***************************************************************************)
EXTENDS ChipRegisters, Rtc

CONSTANT OpenAddresses   \* gate addresses a where rom[a] & 0b1010 is not zero

RtcMapped == mapped \in 8..12

\* Variant of LatchRequested: the first byte of the sequence is forgotten.
LatchAtOnce(data) == data = 1

LatchRequested(data) == data = 1 /\ last_value = 0

\* Variant of StoreClock: update_rtc is not called.
StoreOutdated(data) ==
  /\ UNCHANGED time
  /\ \E bits \in DayFlags : writable' = Stored(writable, mapped, data, bits)

\* A store into the mapped register brings all of them up to date first.
StoreClock(data) ==
  /\ time' = now
  /\ \E bits \in DayFlags : writable' = Stored(Updated, mapped, data, bits)

\* write_mbc3, by area.
WriteMbc3(address, data) ==
  \/ /\ Area(address) = "gate"
     /\ ram_g' = data % 16
     /\ ram_access' = (address \in OpenAddresses)
     /\ UNCHANGED <<bankVars, rtcVars>>
  \/ /\ Area(address) = "bank"
     /\ rom_bank' = NonZero(data)
     /\ UNCHANGED <<ram_g, ram_bank, mode, ram_access, rtcVars>>
  \/ /\ Area(address) = "bank2"
     /\ ram_bank' = IF data <= 3 THEN data ELSE ram_bank
     /\ mapped' = data
     /\ UNCHANGED <<ram_g, rom_bank, mode, ram_access>>
     /\ UNCHANGED <<now, time, writable, readable, last_value>>
  \/ /\ Area(address) = "mode"
     /\ IF LatchRequested(data) THEN Latch
        ELSE UNCHANGED <<time, writable, readable>>
     /\ last_value' = data
     /\ UNCHANGED <<chipVars, now, mapped>>
  \/ /\ Area(address) = "ram" /\ ram_access /\ RtcMapped
     /\ StoreClock(data)
     /\ UNCHANGED <<chipVars, now, readable, mapped, last_value>>
  \/ /\ \/ Area(address) = "none"
        \/ Area(address) = "ram" /\ ~(ram_access /\ RtcMapped)
     /\ UNCHANGED <<chipVars, rtcVars>>

\* compute_physical_addresss; bank is a u8.
Mbc3Bank(address) ==
  IF address < RomBankSize
  THEN IF mode THEN (ram_bank * 32) % 256 ELSE 0
  ELSE (ram_bank * 32 + rom_bank) % 256

PhysicalMbc3(address) ==
  IF Area(address) = "ram" THEN BankedRam(address)
  ELSE (address % RomBankSize) + Mbc3Bank(address) * RomBankSize
=============================================================================
