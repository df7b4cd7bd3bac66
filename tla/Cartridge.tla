----------------------------- MODULE Cartridge ------------------------------
(***************************************************************************)
(* A cartridge from its file to its use: load_cartridge and                *)
(* check_multicart (src/src/cartridge/cartridge.c), and the dispatch of    *)
(* reads and writes to the controller named by the header's type byte      *)
(* (src/src/cartridge/memory.c).  The type byte is read again from the ROM *)
(* at every access, and a cartridge without a controller lets the program  *)
(* write there.                                                            *)
(***************************************************************************)
EXTENDS Mbc1, Mbc2, Mbc3

CONSTANTS Files,       \* the ROM files that may be loaded
          Addresses,   \* the cartridge addresses the program reads
          Stores       \* per controller, the pairs of an address and a byte
                       \* it writes

VARIABLES status,        \* "file", "ready" or "stopped"
          type           \* the header's type byte, as it is in the ROM now

vars == <<status, type, cartVars, chipVars, rtcVars>>

\* The banks that may begin with a logo, as values of BANK2, the length of
\* g_nintendo_logo, and read_cartridge(0x0104) with multicart and mode set and
\* BANK2 = bank.
LogoBanks  == 0..3
LogoLength == 48
LogoAddress(bank) == 260 + bank * 16 * RomBankSize

\* What load_cartridge reads of a file: its length and, of its header, the
\* fields below; matching is the number of leading bytes of the logo found in
\* a bank, sum_is_zero the result of verify_header_checksum.
FileRecords ==
  [type : 0..255, rom_version : 0..255, rom_code : 0..255, ram_code : 0..255,
   size : Nat, matching : [LogoBanks -> 0..LogoLength], sum_is_zero : BOOLEAN]

\* A u16 and a u8, as write_cartridge takes them.
LastAddress == 65535
StorePairs  == (0..LastAddress) \X (0..255)

Chips == {"ROM_ONLY", "MBC1", "MBC2", "MBC3", "unsupported"}

\* The matching bytes are bytes of the file.
ASSUME FilesAssumption ==
  /\ Files \subseteq FileRecords
  /\ \A file \in Files, bank \in LogoBanks :
       file.matching[bank] > 0 =>
         LogoAddress(bank) + file.matching[bank] <= file.size
  /\ Addresses \subseteq 0..LastAddress
  /\ Stores \in [Chips -> SUBSET StorePairs]

TypeOK ==
  /\ ChipTypeOK
  /\ RtcTypeOK
  /\ status \in {"file", "ready", "stopped"}
  /\ type \in 0..255

Init ==
  /\ ChipInit
  /\ RtcInit
  /\ rom_size = 0 /\ ram_size = 0 /\ multicart = FALSE
  /\ status = "file"
  /\ type = 0

-----------------------------------------------------------------------------
(* load_cartridge *)

\* cartridge_type: every type up to the constant belongs to the controller.
Chip(t) ==
  CASE t = 0        -> "ROM_ONLY"
    [] t \in 1..3   -> "MBC1"
    [] t \in 4..6   -> "MBC2"
    [] t \in 7..19  -> "MBC3"
    [] OTHER        -> "unsupported"

\* The test for the MBC2's built-in RAM looks at the version byte.
RamSizeOf(file) ==
  CASE file.rom_version \in 4..6 -> 512
    [] file.ram_code = 2 /\ file.rom_version \notin 4..6 -> 16384
    [] file.ram_code = 3 /\ file.rom_version \notin 4..6 -> 65536
    [] file.ram_code = 4 /\ file.rom_version \notin 4..6 -> 262144
    [] file.ram_code = 5 /\ file.rom_version \notin 4..6 -> 131072
    [] OTHER -> 0

\* check_multicart is called and looks for logos.
Searches(file) == Chip(file.type) = "MBC1" /\ file.rom_code >= 8

HasLogo(file) == \E bank \in LogoBanks : file.matching[bank] = LogoLength

\* The last byte that the search reads in a bank: the first one that is no
\* byte of the logo, or the logo's last.
LastSearched(file, bank) ==
  LogoAddress(bank) + (IF file.matching[bank] < LogoLength
                       THEN file.matching[bank] ELSE LogoLength - 1)

\* The program ends: at the checksum, or at a byte the file does not have.
LoadStops(file) ==
  \/ file.sum_is_zero
  \/ /\ Searches(file)
     /\ \E bank \in LogoBanks : LastSearched(file, bank) >= file.size

Load ==
  /\ status = "file"
  /\ \E file \in Files :
       /\ status' = IF LoadStops(file) THEN "stopped" ELSE "ready"
       /\ type' = file.type
       /\ rom_size' = file.size
       /\ ram_size' = RamSizeOf(file)
       /\ multicart' = (Searches(file) /\ HasLogo(file))
       /\ rom_bank' = IF Searches(file) THEN 0 ELSE rom_bank
  /\ UNCHANGED <<ram_g, ram_bank, mode, ram_access, rtcVars>>

-----------------------------------------------------------------------------
(* write_cartridge *)

\* A failed assertion or FATAL_ERROR.
Stop ==
  /\ status' = "stopped"
  /\ UNCHANGED <<type, cartVars, chipVars, rtcVars>>

\* The assertion of the controller's RAM store fails.
RamStoreStops(address) ==
  /\ Area(address) = "ram" /\ ram_access
  /\ \/ Chip(type) = "MBC1" /\ PhysicalMbc1(address) >= ram_size
     \/ Chip(type) = "MBC2" /\ PhysicalMbc2(address) >= ram_size

WriteRom(address, data) ==
  /\ Chip(type) = "ROM_ONLY"
  /\ IF address >= rom_size THEN Stop
     ELSE /\ type' = IF address = 327 THEN data ELSE type
          /\ UNCHANGED <<status, cartVars, chipVars, rtcVars>>

WriteController(address, data) ==
  /\ Chip(type) \in {"MBC1", "MBC2"}
  /\ IF RamStoreStops(address) THEN Stop
     ELSE /\ \/ Chip(type) = "MBC1" /\ WriteMbc1(address, data)
             \/ Chip(type) = "MBC2" /\ WriteMbc2(address, data)
          /\ UNCHANGED <<status, type, cartVars, rtcVars>>

\* A store into the RAM of an MBC3 lands in its ROM, whose bytes from 0xA000
\* on nothing here depends on.
WriteClocked(address, data) ==
  /\ Chip(type) = "MBC3"
  /\ WriteMbc3(address, data)
  /\ UNCHANGED <<status, type, cartVars>>

WriteUnsupported ==
  /\ Chip(type) = "unsupported"
  /\ UNCHANGED vars

WriteCartridge(address, data) ==
  \/ WriteRom(address, data)
  \/ WriteController(address, data)
  \/ WriteClocked(address, data)
  \/ WriteUnsupported

Write ==
  /\ status = "ready"
  /\ \E store \in Stores[Chip(type)] : WriteCartridge(store[1], store[2])

-----------------------------------------------------------------------------
(* read_cartridge: where the byte comes from; "stop" if an assertion fails. *)

Checked(from, physical, size) ==
  IF physical < size THEN [from |-> from, at |-> physical]
  ELSE [from |-> "stop", at |-> 0]

Closed == [from |-> "open_bus", at |-> 0]

ReadMbc1(address) ==
  CASE Area(address) = "none" -> [from |-> "stop", at |-> 0]
    [] Area(address) = "ram" /\ ~ram_access -> Closed
    [] Area(address) = "ram" /\ ram_access ->
         Checked("ram", PhysicalMbc1(address), ram_size)
    [] OTHER -> Checked("rom", PhysicalMbc1(address), rom_size)

ReadMbc2(address) ==
  CASE Area(address) = "none" -> [from |-> "stop", at |-> 0]
    [] Area(address) = "ram" /\ ~ram_access -> Closed
    [] Area(address) = "ram" /\ ram_access ->
         Checked("ram", PhysicalMbc2(address), ram_size)
    [] OTHER -> Checked("rom", PhysicalMbc2(address), rom_size)

\* A mapped clock register answers at every address but closed RAM.
ReadMbc3(address) ==
  IF Area(address) = "ram" /\ ~ram_access THEN Closed
  ELSE IF RtcMapped THEN [from |-> "rtc", at |-> mapped - 8]
  ELSE IF Area(address) = "none" THEN [from |-> "stop", at |-> 0]
  ELSE Checked("rom", PhysicalMbc3(address), rom_size)

ReadCartridge(address) ==
  CASE Chip(type) = "ROM_ONLY" -> Checked("rom", address, rom_size)
    [] Chip(type) = "MBC1" -> ReadMbc1(address)
    [] Chip(type) = "MBC2" -> ReadMbc2(address)
    [] Chip(type) = "MBC3" -> ReadMbc3(address)
    [] OTHER -> [from |-> "rom", at |-> address]

Read ==
  /\ status = "ready"
  /\ \E address \in Addresses : ReadCartridge(address).from = "stop"
  /\ Stop

\* Only an MBC3 looks at the host's clock.
Tick ==
  /\ status = "ready" /\ Chip(type) = "MBC3"
  /\ HostClock
  /\ UNCHANGED <<status, type, cartVars, chipVars>>

Next == Load \/ Write \/ Read \/ Tick

Spec == Init /\ [][Next]_vars

-----------------------------------------------------------------------------
(* Properties *)

(***************************************************************************)
(* The banking of an MBC1 or MBC2 implements RomWindows: whatever the      *)
(* program writes, a write moves one part of the bank number, the windows  *)
(* follow, and no bank number is truncated, also after check_multicart has *)
(* left rom_bank at 0 (mbc1.c:27-122, mbc2.c:26-74, cartridge.c:30-68).    *)
(* Under another controller nothing is promised, and the mapping shows the *)
(* first two banks.                                                        *)
(***************************************************************************)
WindowBank(address) ==
  CASE Chip(type) = "MBC1" -> PhysicalMbc1(address) \div RomBankSize
    [] Chip(type) = "MBC2" -> PhysicalMbc2(address) \div RomBankSize
    [] OTHER               -> address \div RomBankSize

Windows == INSTANCE RomWindows
             WITH span <- Mbc1Span, both <- mode,
                  low <- WindowBank(0), high <- WindowBank(RomBankSize)

BankingImplementsWindows == Windows!Spec

(***************************************************************************)
(* A cartridge with all the banks its controller can name is never read    *)
(* out of bounds, whatever its registers hold: no sequence of writes makes *)
(* a later read of ROM or banked RAM end the emulator (mbc1.c:134-140,     *)
(* mbc2.c:85-92).                                                          *)
(***************************************************************************)
HasAllBanks ==
  \/ Chip(type) = "MBC1" /\ rom_size >= 128 * RomBankSize /\ ram_size >= 4 * RamBankSize
  \/ Chip(type) = "MBC2" /\ rom_size >= 16 * RomBankSize /\ ram_size >= 512

\* The built-in RAM of an MBC2 is the first 512 bytes of the area.
Backed(address) == Chip(type) = "MBC2" /\ Area(address) = "ram" => address < 41472

BanksExist ==
  status = "ready" /\ HasAllBanks =>
    \A address \in Addresses :
      Area(address) # "none" /\ Backed(address) => ReadCartridge(address).from # "stop"

\* The step completes the latch sequence.
Latching == status = "ready" /\ last_value = 0 /\ last_value' = 1

\* What the clock has to show next: its registers plus the host's seconds.
Due == HostSeconds + Total(writable)

\* The seconds that a register shows of n of them, n below CycleLength, and
\* those that the other registers hold.
Share(n, register) ==
  CASE register = 8  -> n % MinuteLength
    [] register = 9  -> (n % HourLength) - (n % MinuteLength)
    [] register = 10 -> (n % DayLength) - (n % HourLength)
    [] register = 11 -> n - (n % DayLength)
    [] OTHER         -> 0
Others(r, register) == Total(Stored(r, register, 0, Zero.days_hi))

(***************************************************************************)
(* While the bit of the time that update_rtc tests is clear, every second  *)
(* of the host's clock is counted once.  A latch shows and keeps what is   *)
(* due, through every carry and whatever was written into the registers.   *)
(* Nothing but a store into the mapped register changes the clock besides, *)
(* and it first counts what is due into the other registers.  Both take    *)
(* the time over.  Stated below the first carry out of the low day         *)
(* register, where the program's upper bit goes wrong (mbc3.c:65-105,      *)
(* 148-155).                                                               *)
(***************************************************************************)
SecondsAreCounted ==
  [][~TimeBit /\ Due < CycleLength =>
       /\ Latching =>
            /\ time' = now
            /\ Total(readable') = Due /\ Total(writable') = Due
       /\ ~Latching /\ <<time, writable>>' # <<time, writable>> =>
            /\ time' = now
            /\ RtcMapped
            /\ Others(writable', mapped) = Due - Share(Due, mapped)]_vars

(***************************************************************************)
(* The registers the program reads stay as latched: only a write of 1 that *)
(* follows a write of 0 renews them, whatever is written to the clock's    *)
(* registers in between (mbc3.c:134-141, 149-153).                         *)
(***************************************************************************)
LatchedIsStable == [][readable' # readable => Latching]_vars

(***************************************************************************)
(* A latch never shows a reading out of range, though the program may      *)
(* store any byte into a register (mbc3.c:80-87).                          *)
(***************************************************************************)
LatchedInRange ==
  /\ readable.seconds < SecondMod
  /\ readable.minutes < MinuteMod
  /\ readable.hours < HourMod
  /\ readable.days_lo < DayMod

(***************************************************************************)
(* The day carry, once set, is cleared by a store of the program into the  *)
(* fifth register and by nothing else (mbc3.c:93-94).                      *)
(***************************************************************************)
CarrySticks ==
  [][writable.days_hi.carry /\ ~writable'.days_hi.carry =>
       mapped = 12 /\ ram_access]_vars

(***************************************************************************)
(* mbc3.c:62-63: the difference is not computed if the clock is stopped by *)
(* the halt flag.                                                          *)
(***************************************************************************)
HaltStopsClock ==
  [][Latching /\ writable.days_hi.halt /\ Total(writable) < CycleLength =>
       Total(readable') = Total(writable)]_vars

(***************************************************************************)
(* mbc3.c:89: bit 0 of the fifth register is the upper bit of the day      *)
(* counter.                                                                *)
(***************************************************************************)
UpperDayBit ==
  [][Latching => readable'.days_hi.upper =
       ((SinceUpdate + Total(writable)) \div CycleLength) % 2]_vars

(***************************************************************************)
(* mbc3.c:131-132: a mapped clock register is met when accessing           *)
(* 0xA000-0xBFFF.                                                          *)
(***************************************************************************)
ClockOnlyInRamArea ==
  status = "ready" =>
    \A address \in Addresses :
      ReadCartridge(address).from = "rtc" => Area(address) = "ram"

(***************************************************************************)
(* mbc2.c:54-55: a read below 0x4000 is at the 14 lower bits of its        *)
(* address.                                                                *)
(***************************************************************************)
Mbc2FixedBank ==
  status = "ready" /\ Chip(type) = "MBC2" =>
    \A address \in Addresses :
      address < RomBankSize => ReadCartridge(address).at = address % RomBankSize
=============================================================================
