-------------------------- MODULE CartridgeProofs ---------------------------
(* Theorems about Cartridge, for every value of its constants. *)
EXTENDS Cartridge, ModuloTheorems, TLAPS

-----------------------------------------------------------------------------
(* Lemmas about the operators. *)

(* A type byte names one of five controllers. *)
LEMMA ChipType ==
  ASSUME NEW t
  PROVE  Chip(t) \in Chips
BY DEF Chip, Chips

(* What the program stores is an address and a byte. *)
LEMMA StoreType ==
  ASSUME NEW store \in Stores[Chip(type)]
  PROVE  store[1] \in Nat /\ store[2] \in 0..255
<1>1. store \in StorePairs
  BY FilesAssumption, ChipType
<1>2. QED
  BY <1>1 DEF StorePairs

(* The chip registers keep as many bits as their masks have. *)
LEMMA MaskedBytes ==
  ASSUME NEW data \in 0..255
  PROVE  /\ data % 16 \in 0..15
         /\ NonZero(data) \in 1..255
         /\ NonZero(data % 32) \in 1..31
         /\ Mbc1Bank2(data) \in 0..3
         /\ Mbc2Rom(data) \in 1..15
<1>1. data % 16 \in 0..15 /\ data % 32 \in 0..31 /\ data % 4 \in 0..3
  OBVIOUS
<1>2. QED
  BY <1>1 DEF NonZero, Mbc1Bank2, Mbc2Rom

(* The moduli of the clock and the lengths made of them. *)
LEMMA Moduli ==
  /\ SecondMod \in 1..256 /\ MinuteMod \in 1..256
  /\ HourMod \in 1..256 /\ DayMod \in 1..256
  /\ {MinuteLength, HourLength, DayLength, CycleLength} \subseteq Nat \ {0}
<1>1. /\ SecondMod \in 1..256 /\ MinuteMod \in 1..256
      /\ HourMod \in 1..256 /\ DayMod \in 1..256
  BY RtcAssumption
<1>2. \A m, n \in Nat \ {0} : m * n \in Nat \ {0}
  OBVIOUS
<1>3. MinuteLength \in Nat \ {0}
  BY <1>1 DEF MinuteLength
<1>4. HourLength \in Nat \ {0}
  BY <1>1, <1>2, <1>3 DEF HourLength
<1>5. DayLength \in Nat \ {0}
  BY <1>1, <1>2, <1>4 DEF DayLength
<1>6. CycleLength \in Nat \ {0}
  BY <1>1, <1>2, <1>5 DEF CycleLength
<1>7. QED
  BY <1>1, <1>3, <1>4, <1>5, <1>6

(* Registers are a natural number of seconds, and so is the time to add. *)
LEMMA TotalType ==
  ASSUME NEW r \in Registers
  PROVE  Total(r) \in Nat
<1>1. /\ r.seconds \in Nat /\ r.minutes \in Nat /\ r.hours \in Nat
      /\ r.days_lo \in Nat /\ r.days_hi.upper \in Nat
  BY DEF Registers, DaysHi
<1>2. \A m, n \in Nat : m * n \in Nat
  OBVIOUS
<1>3. /\ r.minutes * MinuteLength \in Nat /\ r.hours * HourLength \in Nat
      /\ r.days_lo * DayLength \in Nat /\ r.days_hi.upper * CycleLength \in Nat
  BY <1>1, <1>2, Moduli
<1>4. QED
  BY <1>1, <1>3 DEF Total

LEMMA SinceUpdateType ==
  ASSUME RtcTypeOK
  PROVE  HostSeconds \in Nat /\ SinceUpdate \in Nat
BY RtcAssumption DEF RtcTypeOK, SinceUpdate, HostSeconds

(* An update leaves registers in range, whatever they held before. *)
InRange(r) ==
  /\ r.seconds < SecondMod /\ r.minutes < MinuteMod
  /\ r.hours < HourMod /\ r.days_lo < DayMod

LEMMA UpdatedType ==
  ASSUME RtcTypeOK
  PROVE  Updated \in Registers /\ InRange(Updated)
<1> DEFINE diff == SinceUpdate + Total(writable)
<1>1. diff \in Nat
  BY SinceUpdateType, TotalType DEF RtcTypeOK
<1> HIDE DEF diff
<1>2. /\ diff \div MinuteLength \in Nat /\ diff \div HourLength \in Nat
      /\ diff \div DayLength \in Nat /\ diff \div CycleLength \in Nat
  BY <1>1, Moduli, Division
<1>3. \A a \in Nat, m \in 1..256 : a % m \in 0..255 /\ a % m < m
  OBVIOUS
<1>4. /\ diff % SecondMod \in 0..255 /\ diff % SecondMod < SecondMod
      /\ (diff \div MinuteLength) % MinuteMod \in 0..255
      /\ (diff \div MinuteLength) % MinuteMod < MinuteMod
      /\ (diff \div HourLength) % HourMod \in 0..255
      /\ (diff \div HourLength) % HourMod < HourMod
      /\ (diff \div DayLength) % DayMod \in 0..255
      /\ (diff \div DayLength) % DayMod < DayMod
  BY <1>1, <1>2, <1>3, Moduli
<1>5. DaysHiAfter(diff \div CycleLength) \in DaysHi
  <2>1. writable.days_hi.halt \in BOOLEAN /\ writable.days_hi.carry \in BOOLEAN
    BY DEF RtcTypeOK, Registers, DaysHi
  <2>2. ((diff \div CycleLength) \div 2) % 2 \in 0..1
    BY <1>2
  <2>3. (diff \div CycleLength > 0) \in BOOLEAN
    OBVIOUS
  <2>4. QED
    BY <2>1, <2>2, <2>3 DEF DaysHi, DaysHiAfter
<1>6. QED
  BY <1>4, <1>5 DEF Updated, diff, Registers, InRange

(* A store changes one register, and only a byte or the flags. *)
LEMMA StoredType ==
  ASSUME NEW r \in Registers, NEW register \in 8..12, NEW byte \in 0..255,
         NEW bits \in DaysHi
  PROVE  /\ Stored(r, register, byte, bits) \in Registers
         /\ register # 12 => Stored(r, register, byte, bits).days_hi = r.days_hi
BY DEF Stored, Registers

-----------------------------------------------------------------------------
(* The inductive invariant. *)

(***************************************************************************)
(* What each controller can leave in the registers.  An MBC1 is the only   *)
(* one with a mode and with games behind it; before it is loaded, and for  *)
(* as long as there is no controller, the registers are as initialised, so *)
(* that a program that writes itself another type byte meets them so.      *)
(***************************************************************************)
BankInv ==
  /\ status = "file" => type = 0
  /\ Chip(type) # "MBC1" => ~multicart /\ ~mode
  /\ Chip(type) = "ROM_ONLY" => rom_bank = 1 /\ ram_bank = 0
  /\ Chip(type) = "MBC1" => rom_bank \in 0..31
  /\ Chip(type) = "MBC2" => rom_bank \in 1..15

CartridgeInv == TypeOK /\ BankInv /\ LatchedInRange

LEMMA InitInv == Init => CartridgeInv
<1> SUFFICES ASSUME Init PROVE CartridgeInv
  OBVIOUS
<1>1. Zero \in Registers
  BY DEF Zero, Registers, DaysHi
<1>2. TypeOK
  <2>1. ChipTypeOK
    <3>1. 0 \in Nat /\ 0 \in 0..15 /\ 1 \in 0..255 /\ 0 \in 0..3
      OBVIOUS
    <3>2. QED
      BY <3>1, Zenon DEF Init, ChipInit, ChipTypeOK
  <2>2. RtcTypeOK
    BY <1>1, RtcAssumption DEF Init, RtcInit, RtcTypeOK
  <2>3. status \in {"file", "ready", "stopped"} /\ type \in 0..255
    BY DEF Init
  <2>4. QED
    BY <2>1, <2>2, <2>3 DEF TypeOK
<1>3. BankInv
  BY DEF Init, ChipInit, BankInv, Chip
<1>4. LatchedInRange
  BY Moduli DEF Init, RtcInit, Zero, LatchedInRange
<1>5. QED
  BY <1>2, <1>3, <1>4 DEF CartridgeInv

(* Without a store the program can tell, everything stays. *)
LEMMA StutterInv ==
  ASSUME CartridgeInv, UNCHANGED <<type, cartVars, chipVars, rtcVars>>,
         status' = status \/ status' = "stopped"
  PROVE  CartridgeInv'
BY DEF CartridgeInv, TypeOK, ChipTypeOK, RtcTypeOK, BankInv, LatchedInRange,
       cartVars, chipVars, rtcVars

LEMMA LoadInv ==
  ASSUME CartridgeInv, Load
  PROVE  CartridgeInv'
<1>1. PICK file \in Files :
        /\ status' = IF LoadStops(file) THEN "stopped" ELSE "ready"
        /\ type' = file.type
        /\ rom_size' = file.size
        /\ ram_size' = RamSizeOf(file)
        /\ multicart' = (Searches(file) /\ HasLogo(file))
        /\ rom_bank' = IF Searches(file) THEN 0 ELSE rom_bank
  BY DEF Load
<1>2. UNCHANGED <<ram_g, ram_bank, mode, ram_access, rtcVars>> /\ status = "file"
  BY DEF Load
<1>3. file.type \in 0..255 /\ file.size \in Nat
  BY FilesAssumption DEF FileRecords
<1>4. RamSizeOf(file) \in Nat
  BY DEF RamSizeOf
<1>5. /\ type = 0 /\ Chip(type) = "ROM_ONLY"
      /\ rom_bank = 1 /\ ram_bank = 0 /\ ~mode
  BY <1>2 DEF CartridgeInv, BankInv, Chip
<1>6. TypeOK'
  BY <1>1, <1>2, <1>3, <1>4, <1>5
     DEF CartridgeInv, TypeOK, ChipTypeOK, RtcTypeOK, rtcVars
<1>7. BankInv'
  <2>1. status' # "file" /\ ~mode' /\ ram_bank' = 0
    BY <1>1, <1>2, <1>5
  <2>2. CASE Searches(file)
    <3>1. Chip(type') = "MBC1" /\ rom_bank' = 0
      BY <1>1, <2>2 DEF Searches
    <3>2. QED
      BY <2>1, <3>1 DEF BankInv
  <2>3. CASE ~Searches(file)
    <3>1. ~multicart' /\ rom_bank' = 1
      BY <1>1, <1>5, <2>3
    <3>2. QED
      BY <2>1, <3>1 DEF BankInv
  <2>4. QED
    BY <2>2, <2>3
<1>8. LatchedInRange'
  BY <1>2 DEF CartridgeInv, LatchedInRange, rtcVars
<1>9. QED
  BY <1>6, <1>7, <1>8 DEF CartridgeInv

(* Without a controller only the type byte can change. *)
LEMMA WriteRomInv ==
  ASSUME CartridgeInv, status = "ready", NEW address \in Nat, NEW data \in 0..255,
         WriteRom(address, data)
  PROVE  CartridgeInv'
<1>1. CASE Stop
  BY <1>1, StutterInv DEF Stop
<1>2. CASE ~Stop
  <2>1. /\ Chip(type) = "ROM_ONLY"
        /\ type' = IF address = 327 THEN data ELSE type
        /\ UNCHANGED <<status, cartVars, chipVars, rtcVars>>
    BY <1>2 DEF WriteRom
  <2>2. ~multicart /\ ~mode /\ rom_bank = 1 /\ ram_bank = 0
    BY <2>1 DEF CartridgeInv, BankInv
  <2>3. TypeOK' /\ LatchedInRange'
    BY <2>1 DEF CartridgeInv, TypeOK, ChipTypeOK, RtcTypeOK, LatchedInRange,
                cartVars, chipVars, rtcVars
  <2>4. BankInv'
    BY <2>1, <2>2 DEF BankInv, cartVars, chipVars
  <2>5. QED
    BY <2>3, <2>4 DEF CartridgeInv
<1>3. QED
  BY <1>1, <1>2

LEMMA WriteControllerInv ==
  ASSUME CartridgeInv, status = "ready", NEW address \in Nat, NEW data \in 0..255,
         WriteController(address, data)
  PROVE  CartridgeInv'
<1>m. /\ data % 16 \in 0..15 /\ NonZero(data % 32) \in 1..31
      /\ Mbc1Bank2(data) \in 0..3 /\ Mbc2Rom(data) \in 1..15
  BY MaskedBytes
<1>1. CASE Stop
  BY <1>1, StutterInv DEF Stop
<1>2. CASE ~Stop
  <2>1. /\ \/ Chip(type) = "MBC1" /\ WriteMbc1(address, data)
           \/ Chip(type) = "MBC2" /\ WriteMbc2(address, data)
        /\ UNCHANGED <<status, type, cartVars, rtcVars>>
    BY <1>2 DEF WriteController
  <2>2. TypeOK /\ BankInv /\ LatchedInRange
    BY DEF CartridgeInv
  <2>3. LatchedInRange'
    BY <2>1, <2>2 DEF LatchedInRange, rtcVars
  <2>4. CASE Chip(type) = "MBC1" /\ WriteMbc1(address, data)
    <3>1. ChipTypeOK' /\ rom_bank' \in 0..31
      <4>1. ChipTypeOK /\ rom_bank \in 0..31 /\ UNCHANGED cartVars
        BY <2>1, <2>2, <2>4 DEF TypeOK, BankInv
      <4>2. ram_g' \in 0..15 /\ rom_bank' \in 0..31 /\ ram_bank' \in 0..3
        BY <2>4, <4>1, <1>m DEF WriteMbc1, ChipTypeOK
      <4>3. ram_access' \in BOOLEAN /\ mode' \in BOOLEAN
        BY <2>4, <4>1, Zenon DEF WriteMbc1, ChipTypeOK
      <4>4. QED
        BY <4>1, <4>2, <4>3 DEF ChipTypeOK, cartVars
    <3>2. TypeOK'
      BY <2>1, <2>2, <3>1 DEF TypeOK, RtcTypeOK, rtcVars
    <3>3. BankInv'
      BY <2>1, <2>2, <2>4, <3>1 DEF BankInv, Chip
    <3>4. QED
      BY <2>3, <3>2, <3>3 DEF CartridgeInv
  <2>5. CASE Chip(type) = "MBC2" /\ WriteMbc2(address, data)
    <3>1. ChipTypeOK' /\ rom_bank' \in 1..15 /\ mode' = mode
      <4>1. /\ ChipTypeOK /\ rom_bank \in 1..15
            /\ UNCHANGED cartVars /\ UNCHANGED <<ram_bank, mode>>
        BY <2>1, <2>2, <2>5 DEF TypeOK, BankInv, WriteMbc2
      <4>2. ram_g' \in 0..15 /\ rom_bank' \in 1..15
        BY <2>5, <4>1, <1>m DEF WriteMbc2, ChipTypeOK
      <4>3. ram_access' \in BOOLEAN
        BY <2>5, <4>1, Zenon DEF WriteMbc2, ChipTypeOK
      <4>4. QED
        BY <4>1, <4>2, <4>3 DEF ChipTypeOK, cartVars
    <3>2. TypeOK'
      BY <2>1, <2>2, <3>1 DEF TypeOK, RtcTypeOK, rtcVars
    <3>3. BankInv'
      BY <2>1, <2>2, <2>5, <3>1 DEF BankInv, cartVars, Chip
    <3>4. QED
      BY <2>3, <3>2, <3>3 DEF CartridgeInv
  <2>6. QED
    BY <2>1, <2>4, <2>5
<1>3. QED
  BY <1>1, <1>2

(* Only the gate, the ROM bank and the RAM bank move under an MBC3. *)
LEMMA BanksUnderMbc3 ==
  ASSUME ChipTypeOK, UNCHANGED cartVars, NEW address, NEW data \in 0..255,
         WriteMbc3(address, data)
  PROVE  ChipTypeOK' /\ mode' = mode
<1>1. data % 16 \in 0..15 /\ NonZero(data) \in 0..255
  BY DEF NonZero
<1>2. ram_g' \in 0..15 /\ rom_bank' \in 0..255 /\ mode' = mode
  BY <1>1 DEF WriteMbc3, ChipTypeOK, chipVars, bankVars
<1>3. ram_bank' \in 0..3
  BY DEF WriteMbc3, ChipTypeOK, chipVars, bankVars
<1>4. ram_access' \in BOOLEAN
  <2>1. ram_access' = ram_access \/ ram_access' = (address \in OpenAddresses)
    BY DEF WriteMbc3, chipVars
  <2>2. ram_access \in BOOLEAN /\ (address \in OpenAddresses) \in BOOLEAN
    BY DEF ChipTypeOK
  <2>3. QED
    BY <2>1, <2>2
<1>5. QED
  BY <1>2, <1>3, <1>4 DEF ChipTypeOK, cartVars

LEMMA WriteClockedInv ==
  ASSUME CartridgeInv, status = "ready", NEW address \in Nat, NEW data \in 0..255,
         WriteClocked(address, data)
  PROVE  CartridgeInv'
<1>1. Chip(type) = "MBC3" /\ UNCHANGED <<status, type, cartVars>>
  BY DEF WriteClocked
<1>2. WriteMbc3(address, data)
  BY DEF WriteClocked
<1>3. /\ ChipTypeOK /\ RtcTypeOK /\ BankInv /\ LatchedInRange
      /\ status \in {"file", "ready", "stopped"} /\ type \in 0..255
  BY DEF CartridgeInv, TypeOK
<1>4. Updated \in Registers /\ InRange(Updated)
  BY <1>3, UpdatedType
<1>5. SUFFICES ChipTypeOK' /\ mode' = mode /\ RtcTypeOK' /\ LatchedInRange'
  <2>1. ASSUME ChipTypeOK', mode' = mode, RtcTypeOK', LatchedInRange'
        PROVE  CartridgeInv'
    BY <1>1, <1>3, <2>1
       DEF CartridgeInv, TypeOK, BankInv, cartVars
  <2>2. QED
    BY <2>1
<1>6. CASE UNCHANGED rtcVars
  <2>1. RtcTypeOK' /\ LatchedInRange'
    BY <1>3, <1>6 DEF RtcTypeOK, LatchedInRange, rtcVars
  <2>2. ChipTypeOK' /\ mode' = mode
    BY <1>1, <1>2, <1>3, <1>6, BanksUnderMbc3
  <2>3. QED
    BY <2>1, <2>2
<1>7. CASE Area(address) = "bank2"
  BY <1>1, <1>2, <1>3, <1>7
     DEF WriteMbc3, ChipTypeOK, RtcTypeOK, LatchedInRange, cartVars
<1>8. CASE Area(address) = "mode"
  BY <1>1, <1>2, <1>3, <1>4, <1>8
     DEF WriteMbc3, Latch, ChipTypeOK, RtcTypeOK, LatchedInRange, InRange,
         cartVars, chipVars
<1>9. CASE /\ Area(address) = "ram" /\ ram_access /\ RtcMapped
           /\ StoreClock(data)
           /\ UNCHANGED <<chipVars, now, readable, mapped, last_value>>
  <2>1. writable' \in Registers
    BY <1>4, <1>9, StoredType, RtcAssumption DEF StoreClock, RtcMapped
  <2>2. QED
    BY <1>1, <1>3, <1>9, <2>1
       DEF StoreClock, ChipTypeOK, RtcTypeOK, LatchedInRange, cartVars, chipVars
<1>10. QED
  BY <1>2, <1>6, <1>7, <1>8, <1>9 DEF WriteMbc3

LEMMA TickInv ==
  ASSUME CartridgeInv, Tick
  PROVE  CartridgeInv'
<1>1. /\ now' \in 0..MaxNow
      /\ UNCHANGED <<time, writable, readable, mapped, last_value>>
      /\ UNCHANGED <<status, type, cartVars, chipVars>>
  BY DEF Tick, HostClock
<1>2. QED
  BY <1>1 DEF CartridgeInv, TypeOK, ChipTypeOK, RtcTypeOK, BankInv, LatchedInRange,
              cartVars, chipVars

LEMMA NextInv ==
  ASSUME CartridgeInv, [Next]_vars
  PROVE  CartridgeInv'
<1>1. CASE Load
  BY <1>1, LoadInv
<1>2. CASE Write
  <2>1. PICK store \in Stores[Chip(type)] : WriteCartridge(store[1], store[2])
    BY <1>2 DEF Write
  <2>2. store[1] \in Nat /\ store[2] \in 0..255 /\ status = "ready"
    BY <1>2, StoreType DEF Write
  <2>3. CASE WriteRom(store[1], store[2])
    BY <2>2, <2>3, WriteRomInv
  <2>4. CASE WriteController(store[1], store[2])
    BY <2>2, <2>4, WriteControllerInv
  <2>5. CASE WriteClocked(store[1], store[2])
    BY <2>2, <2>5, WriteClockedInv
  <2>6. CASE WriteUnsupported
    BY <2>6, StutterInv DEF WriteUnsupported, vars
  <2>7. QED
    BY <2>1, <2>3, <2>4, <2>5, <2>6 DEF WriteCartridge
<1>3. CASE Read
  BY <1>3, StutterInv DEF Read, Stop
<1>4. CASE Tick
  BY <1>4, TickInv
<1>5. CASE UNCHANGED vars
  BY <1>5, StutterInv DEF vars
<1>6. QED
  BY <1>1, <1>2, <1>3, <1>4, <1>5 DEF Next

LEMMA InvariantHolds == Spec => []CartridgeInv
<1>1. CartridgeInv /\ [Next]_vars => CartridgeInv'
  BY NextInv
<1>2. QED
  BY InitInv, <1>1, PTL DEF Spec

(* Every variable keeps its type: in particular no bank register ever      *)
(* holds more than its width (mbc1.c, mbc2.c, mbc3.c).                     *)
THEOREM CartridgeTypes == Spec => []TypeOK
<1>1. CartridgeInv => TypeOK
  BY DEF CartridgeInv
<1>2. QED
  BY InvariantHolds, <1>1, PTL

(* A latch never shows a reading out of range, whatever moduli the clock   *)
(* has and whatever bytes are stored in it (mbc3.c:80-87).                 *)
THEOREM ReadingsInRange == Spec => []LatchedInRange
<1>1. CartridgeInv => LatchedInRange
  BY DEF CartridgeInv
<1>2. QED
  BY InvariantHolds, <1>1, PTL

-----------------------------------------------------------------------------
(* What a step may do to the clock. *)

(* The clock's registers move in the writes of an MBC3 only. *)
LEMMA ClockMoves ==
  ASSUME Next
  PROVE  \/ UNCHANGED <<time, writable, readable>>
         \/ /\ status = "ready"
            /\ \E store \in Stores[Chip(type)] :
                 /\ Chip(type) = "MBC3"
                 /\ WriteMbc3(store[1], store[2])
<1>1. CASE Load
  BY <1>1 DEF Load, rtcVars
<1>2. CASE Write
  <2>1. PICK store \in Stores[Chip(type)] : WriteCartridge(store[1], store[2])
    BY <1>2 DEF Write
  <2>2. status = "ready"
    BY <1>2 DEF Write
  <2>3. CASE WriteRom(store[1], store[2])
    BY <2>3 DEF WriteRom, Stop, rtcVars
  <2>4. CASE WriteController(store[1], store[2])
    BY <2>4 DEF WriteController, Stop, rtcVars
  <2>5. CASE WriteClocked(store[1], store[2])
    BY <2>2, <2>5 DEF WriteClocked
  <2>6. CASE WriteUnsupported
    BY <2>6 DEF WriteUnsupported, vars, rtcVars
  <2>7. QED
    BY <2>1, <2>3, <2>4, <2>5, <2>6 DEF WriteCartridge
<1>3. CASE Read
  BY <1>3 DEF Read, Stop, rtcVars
<1>4. CASE Tick
  BY <1>4 DEF Tick, HostClock
<1>5. QED
  BY <1>1, <1>2, <1>3, <1>4 DEF Next

(* The registers the program reads are renewed by the latch sequence only, *)
(* for any program and any instants of the host's clock (mbc3.c:134-153).  *)
THEOREM ReadingsStay == Spec => LatchedIsStable
<1>1. [Next]_vars => [readable' # readable => Latching]_vars
  <2> SUFFICES ASSUME Next, readable' # readable PROVE Latching
    OBVIOUS
  <2>1. PICK store \in Stores[Chip(type)] : WriteMbc3(store[1], store[2])
    BY ClockMoves
  <2>2. status = "ready"
    BY ClockMoves
  <2>3. LatchRequested(store[2]) /\ last_value' = store[2]
    BY <2>1 DEF WriteMbc3, rtcVars
  <2>4. QED
    BY <2>2, <2>3 DEF Latching, LatchRequested
<1>2. QED
  BY <1>1, PTL DEF Spec, LatchedIsStable

(* Once set, the day carry stays through every update; a store into the    *)
(* flags clears it (mbc3.c:93-94, 143-153).                                *)
THEOREM CarryStays == Spec => CarrySticks
<1>1. CartridgeInv /\ [Next]_vars =>
        [writable.days_hi.carry /\ ~writable'.days_hi.carry =>
           mapped = 12 /\ ram_access]_vars
  <2> SUFFICES ASSUME CartridgeInv, Next,
                      writable.days_hi.carry, ~writable'.days_hi.carry
               PROVE  mapped = 12 /\ ram_access
    OBVIOUS
  <2>1. PICK store \in Stores[Chip(type)] : WriteMbc3(store[1], store[2])
    BY ClockMoves
  <2>2. Updated.days_hi.carry
    BY DEF Updated, DaysHiAfter
  <2>3. /\ ram_access /\ RtcMapped
        /\ \E bits \in DayFlags : writable' = Stored(Updated, mapped, store[2], bits)
    BY <2>1, <2>2 DEF WriteMbc3, StoreClock, rtcVars, Latch
  <2>4. PICK bits \in DayFlags : writable' = Stored(Updated, mapped, store[2], bits)
    BY <2>3
  <2>5. /\ mapped \in 8..12 /\ Updated \in Registers
        /\ store[2] \in 0..255 /\ bits \in DaysHi
    BY <2>3, UpdatedType, StoreType, RtcAssumption DEF CartridgeInv, TypeOK, RtcMapped
  <2>6. mapped # 12 => writable'.days_hi = Updated.days_hi
    BY <2>4, <2>5, StoredType
  <2>7. QED
    BY <2>2, <2>3, <2>6
<1>2. QED
  BY <1>1, InvariantHolds, PTL DEF Spec, CarrySticks

-----------------------------------------------------------------------------
(* Reads stay within the cartridge. *)

(* BANK1 as it is used fits below the span, and is never 0 in a full one. *)
LEMMA Mbc1LowerRange ==
  ASSUME BankInv, ChipTypeOK, Chip(type) = "MBC1"
  PROVE  /\ Mbc1Span \in {16, 32}
         /\ Mbc1Lower \in 0..(Mbc1Span - 1)
         /\ Mbc1Span = 32 => Mbc1Lower # 0
<1>1. rom_bank \in 0..31
  BY DEF BankInv
<1>2. CASE multicart
  <2>1. rom_bank % 16 \in 0..15
    BY <1>1
  <2>2. QED
    BY <1>2, <2>1 DEF Mbc1Span, Mbc1Lower
<1>3. CASE ~multicart
  BY <1>1, <1>3 DEF Mbc1Span, Mbc1Lower
<1>4. QED
  BY <1>2, <1>3

(* The bank of an MBC1 is not truncated, and is one of 128. *)
LEMMA Mbc1BankRange ==
  ASSUME BankInv, ChipTypeOK, Chip(type) = "MBC1", NEW address \in Nat
  PROVE  /\ Mbc1Bank(address) \in 0..127
         /\ Mbc1Bank(address) = IF address < RomBankSize
                                THEN IF mode THEN ram_bank * Mbc1Span ELSE 0
                                ELSE ram_bank * Mbc1Span + Mbc1Lower
<1>1. /\ Mbc1Span \in {16, 32} /\ Mbc1Lower \in 0..(Mbc1Span - 1)
      /\ ram_bank \in 0..3
  BY Mbc1LowerRange DEF ChipTypeOK
<1> DEFINE upper == ram_bank * Mbc1Span
           sum   == ram_bank * Mbc1Span + Mbc1Lower
<1>2. upper \in 0..96 /\ sum \in 0..127
  BY <1>1
<1> HIDE DEF upper, sum
<1>3. upper % 256 = upper /\ sum % 256 = sum
  BY <1>2
<1>4. Mbc1Bank(address) = IF address < RomBankSize
                          THEN IF mode THEN upper % 256 ELSE 0 ELSE sum % 256
  BY DEF Mbc1Bank, upper, sum
<1>5. QED
  BY <1>2, <1>3, <1>4 DEF upper, sum

(* A bank and an offset into it. *)
LEMMA BankedAddress ==
  ASSUME NEW address \in Nat, NEW bank \in Nat, NEW banks \in Nat, bank < banks
  PROVE  /\ (address % 16384) + bank * 16384 < banks * 16384
         /\ ((address % 16384) + bank * 16384) \div 16384 = bank
  OBVIOUS

LEMMA BankedRamRange ==
  ASSUME ChipTypeOK, NEW address \in Nat
  PROVE  BankedRam(address) < 4 * RamBankSize
<1>1. address % 8192 \in 0..8191 /\ ram_bank \in 0..3
  BY DEF ChipTypeOK
<1>2. QED
  BY <1>1 DEF BankedRam, RamBankSize

LEMMA Mbc1Bounds ==
  ASSUME BankInv, ChipTypeOK, Chip(type) = "MBC1", NEW address \in Nat,
         rom_size >= 128 * RomBankSize, ram_size >= 4 * RamBankSize
  PROVE  PhysicalMbc1(address) < IF Area(address) = "ram" THEN ram_size ELSE rom_size
<1>1. rom_size \in Nat /\ ram_size \in Nat
  BY DEF ChipTypeOK
<1>2. CASE Area(address) = "ram"
  <2>1. BankedRam(address) < 4 * RamBankSize
    BY BankedRamRange
  <2>2. BankedRam(address) \in Int
    BY DEF BankedRam, RamBankSize, ChipTypeOK
  <2>3. QED
    BY <1>1, <1>2, <2>1, <2>2 DEF PhysicalMbc1, RamBankSize
<1>3. CASE Area(address) # "ram"
  <2>1. Mbc1Bank(address) \in 0..127
    BY Mbc1BankRange
  <2>2. QED
    BY <1>1, <1>3, <2>1 DEF PhysicalMbc1, RomBankSize
<1>4. QED
  BY <1>2, <1>3

LEMMA Mbc2Bounds ==
  ASSUME BankInv, ChipTypeOK, Chip(type) = "MBC2", NEW address \in Nat,
         rom_size >= 16 * RomBankSize, ram_size >= 512,
         Area(address) = "ram" => address < 41472
  PROVE  PhysicalMbc2(address) < IF Area(address) = "ram" THEN ram_size ELSE rom_size
<1>1. rom_size \in Nat /\ ram_size \in Nat /\ rom_bank \in 1..15
  BY DEF ChipTypeOK, BankInv
<1>2. CASE Area(address) = "ram"
  <2>1. ~(address < RomBankSize)
    BY <1>2 DEF Area, VideoRam, RomBankSize
  <2>2. PhysicalMbc2(address) = address - VideoRam
    BY <1>2, <2>1 DEF PhysicalMbc2
  <2>3. address - VideoRam < 512
    BY <1>2 DEF VideoRam
  <2>4. QED
    BY <1>1, <1>2, <2>2, <2>3 DEF VideoRam
<1>3. CASE Area(address) # "ram" /\ address < RomBankSize
  BY <1>1, <1>3 DEF PhysicalMbc2, RomBankSize
<1>4. CASE Area(address) # "ram" /\ ~(address < RomBankSize)
  BY <1>1, <1>4 DEF PhysicalMbc2, RomBankSize, NonZero
<1>5. QED
  BY <1>2, <1>3, <1>4

(* A cartridge with every bank its controller can name is never read out   *)
(* of bounds, whatever is written to it (mbc1.c:134-140, mbc2.c:85-92).    *)
THEOREM BanksAreThere == Spec => []BanksExist
<1>1. CartridgeInv => BanksExist
  <2> SUFFICES ASSUME CartridgeInv, HasAllBanks, NEW address \in Addresses,
                      Area(address) # "none", Backed(address)
               PROVE  ReadCartridge(address).from # "stop"
    BY DEF BanksExist
  <2>1. address \in Nat /\ BankInv /\ ChipTypeOK /\ Area(address) # "none"
    <3>1. 0..LastAddress \subseteq Nat
      BY DEF LastAddress
    <3>2. QED
      BY <3>1, FilesAssumption DEF CartridgeInv, TypeOK
  <2>2. CASE /\ Chip(type) = "MBC1" /\ rom_size >= 128 * RomBankSize
             /\ ram_size >= 4 * RamBankSize
    <3>1. PhysicalMbc1(address) < IF Area(address) = "ram" THEN ram_size ELSE rom_size
      BY <2>1, <2>2, Mbc1Bounds
    <3>2. ReadCartridge(address) = ReadMbc1(address)
      BY <2>2 DEF ReadCartridge
    <3>3. CASE Area(address) = "ram" /\ ~ram_access
      BY <2>1, <3>2, <3>3 DEF ReadMbc1, Closed
    <3>4. CASE Area(address) = "ram" /\ ram_access
      BY <2>1, <3>1, <3>2, <3>4 DEF ReadMbc1, Checked
    <3>5. CASE Area(address) # "ram"
      BY <2>1, <3>1, <3>2, <3>5 DEF ReadMbc1, Checked
    <3>6. QED
      BY <3>3, <3>4, <3>5
  <2>3. CASE Chip(type) = "MBC2" /\ rom_size >= 16 * RomBankSize /\ ram_size >= 512
    <3>1. PhysicalMbc2(address) < IF Area(address) = "ram" THEN ram_size ELSE rom_size
      BY <2>1, <2>3, Mbc2Bounds DEF Backed
    <3>2. ReadCartridge(address) = ReadMbc2(address)
      BY <2>3 DEF ReadCartridge
    <3>3. CASE Area(address) = "ram" /\ ~ram_access
      BY <2>1, <3>2, <3>3 DEF ReadMbc2, Closed
    <3>4. CASE Area(address) = "ram" /\ ram_access
      BY <2>1, <3>1, <3>2, <3>4 DEF ReadMbc2, Checked
    <3>5. CASE Area(address) # "ram"
      BY <2>1, <3>1, <3>2, <3>5 DEF ReadMbc2, Checked
    <3>6. QED
      BY <3>3, <3>4, <3>5
  <2>4. QED
    BY <2>2, <2>3 DEF HasAllBanks
<1>2. QED
  BY InvariantHolds, <1>1, PTL

-----------------------------------------------------------------------------
(* The time the clock keeps. *)

(* The step that completes the latch sequence updates the clock. *)
LEMMA LatchUpdates ==
  ASSUME Next, Latching
  PROVE  readable' = Updated /\ writable' = Updated /\ time' = now
<1>1. last_value' # last_value
  BY DEF Latching
<1>2. CASE Load
  BY <1>1, <1>2 DEF Load, rtcVars
<1>3. CASE Write
  <2>1. PICK store \in Stores[Chip(type)] : WriteCartridge(store[1], store[2])
    BY <1>3 DEF Write
  <2>2. CASE WriteRom(store[1], store[2])
    BY <1>1, <2>2 DEF WriteRom, Stop, rtcVars
  <2>3. CASE WriteController(store[1], store[2])
    BY <1>1, <2>3 DEF WriteController, Stop, rtcVars
  <2>4. CASE WriteClocked(store[1], store[2])
    <3>1. Area(store[1]) = "mode" /\ last_value' = store[2]
          /\ (LatchRequested(store[2]) => Latch)
      BY <1>1, <2>4 DEF WriteClocked, WriteMbc3, rtcVars
    <3>2. LatchRequested(store[2])
      BY <3>1 DEF Latching, LatchRequested
    <3>3. QED
      BY <3>1, <3>2 DEF Latch
  <2>5. CASE WriteUnsupported
    BY <1>1, <2>5 DEF WriteUnsupported, vars, rtcVars
  <2>6. QED
    BY <2>1, <2>2, <2>3, <2>4, <2>5 DEF WriteCartridge
<1>4. CASE Read
  BY <1>1, <1>4 DEF Read, Stop, rtcVars
<1>5. CASE Tick
  BY <1>1, <1>5 DEF Tick, HostClock
<1>6. QED
  BY <1>2, <1>3, <1>4, <1>5 DEF Next

(* Besides, only a store into the mapped register changes the clock, and   *)
(* it updates the registers first.                                         *)
LEMMA StoreUpdates ==
  ASSUME Next, ~Latching, <<time, writable>>' # <<time, writable>>
  PROVE  /\ time' = now /\ RtcMapped
         /\ \E store \in Stores[Chip(type)], bits \in DayFlags :
              writable' = Stored(Updated, mapped, store[2], bits)
<1>1. /\ status = "ready"
      /\ \E store \in Stores[Chip(type)] : WriteMbc3(store[1], store[2])
  BY ClockMoves
<1>2. PICK store \in Stores[Chip(type)] : WriteMbc3(store[1], store[2])
  BY <1>1
<1>3. ~(LatchRequested(store[2]) /\ last_value' = store[2])
  BY <1>1 DEF Latching, LatchRequested
<1>4. RtcMapped /\ StoreClock(store[2])
  BY <1>2, <1>3 DEF WriteMbc3, rtcVars
<1>5. QED
  BY <1>4 DEF StoreClock

(***************************************************************************)
(* The four remainders of an update are the digits of the seconds up to    *)
(* the first carry out of the last of them.                                *)
(***************************************************************************)
LEMMA DigitsOfTime ==
  ASSUME NEW d \in Nat, d < CycleLength
  PROVE  /\ d \div CycleLength = 0
         /\ d % SecondMod = d % MinuteLength
         /\ d % HourLength =
              (d % MinuteLength) + ((d \div MinuteLength) % MinuteMod) * MinuteLength
         /\ d % DayLength =
              (d % HourLength) + ((d \div HourLength) % HourMod) * HourLength
         /\ d = (d % DayLength) + ((d \div DayLength) % DayMod) * DayLength
<1>1. /\ SecondMod \in Nat \ {0} /\ MinuteMod \in Nat \ {0}
      /\ HourMod \in Nat \ {0} /\ DayMod \in Nat \ {0}
      /\ MinuteLength \in Nat \ {0} /\ HourLength \in Nat \ {0}
      /\ DayLength \in Nat \ {0} /\ CycleLength \in Nat \ {0}
  BY Moduli
<1>2. d % SecondMod = d % MinuteLength
  BY DEF MinuteLength
<1>3. d % HourLength = (d % MinuteLength) + ((d \div MinuteLength) % MinuteMod) * MinuteLength
  BY <1>1, MixedRadix DEF HourLength
<1>4. d % DayLength = (d % HourLength) + ((d \div HourLength) % HourMod) * HourLength
  BY <1>1, MixedRadix DEF DayLength
<1>5. d % CycleLength = (d % DayLength) + ((d \div DayLength) % DayMod) * DayLength
  BY <1>1, MixedRadix DEF CycleLength
<1>6. d \div CycleLength = 0 /\ d % CycleLength = d
  <2>1. d = CycleLength * 0 + d
    BY <1>1
  <2>2. QED
    BY <1>1, <2>1, DivisionOf
<1>7. QED
  BY <1>2, <1>3, <1>4, <1>5, <1>6

(* The seconds that each register of r holds. *)
Seconds(r) == r.seconds
Minutes(r) == r.minutes * MinuteLength
Hours(r)   == r.hours * HourLength
Days(r)    == r.days_lo * DayLength + r.days_hi.upper * CycleLength

(* What they hold together, but for one.                                   *)
AllBut(r, register) ==
  (IF register = 8 THEN 0 ELSE Seconds(r))
    + (IF register = 9 THEN 0 ELSE Minutes(r))
    + (IF register = 10 THEN 0 ELSE Hours(r))
    + (IF register = 11 THEN 0 ELSE Days(r))

(* What an update leaves in the registers, below the first carry of the    *)
(* low day register.                                                       *)
LEMMA UpdateIsDue ==
  ASSUME RtcTypeOK, ~TimeBit, Due < CycleLength
  PROVE  /\ Due \in Nat
         /\ Updated.days_hi.upper = 0
         /\ Seconds(Updated) = Due % MinuteLength
         /\ Minutes(Updated) = (Due % HourLength) - (Due % MinuteLength)
         /\ Hours(Updated) = (Due % DayLength) - (Due % HourLength)
         /\ Days(Updated) = Due - (Due % DayLength)
<1> DEFINE d == Due
           m == (d \div MinuteLength) % MinuteMod
           h == (d \div HourLength) % HourMod
           y == (d \div DayLength) % DayMod
<1>1. d \in Nat /\ d < CycleLength
  BY SinceUpdateType, TotalType DEF Due, RtcTypeOK
<1>2. SinceUpdate + Total(writable) = d
  BY DEF SinceUpdate, Due
<1> HIDE DEF d
<1>3. /\ Updated.seconds = d % SecondMod
      /\ Updated.minutes = m /\ Updated.hours = h /\ Updated.days_lo = y
      /\ Updated.days_hi.upper = ((d \div CycleLength) \div 2) % 2
  BY <1>2 DEF Updated, DaysHiAfter
<1>4. Updated.days_hi.upper = 0
  BY <1>1, <1>3, DigitsOfTime
<1>5. /\ d % MinuteLength \in Int /\ d % HourLength \in Int /\ d % DayLength \in Int
      /\ m * MinuteLength \in Int /\ h * HourLength \in Int /\ y * DayLength \in Int
  <2>1. \A n \in Nat, k \in Nat \ {0} : n % k \in Nat /\ n \div k \in Nat
    BY Division
  <2>2. m \in Nat /\ h \in Nat /\ y \in Nat
    BY <1>1, <2>1, Moduli
  <2> HIDE DEF m, h, y
  <2>3. \A i, j \in Nat : i * j \in Int
    OBVIOUS
  <2>4. QED
    BY <1>1, <2>1, <2>2, <2>3, Moduli
<1>6. /\ d % SecondMod = d % MinuteLength
      /\ d % HourLength = (d % MinuteLength) + m * MinuteLength
      /\ d % DayLength = (d % HourLength) + h * HourLength
      /\ d = (d % DayLength) + y * DayLength
  BY <1>1, DigitsOfTime
<1>7. 0 * CycleLength = 0
  BY Moduli
<1> HIDE DEF m, h, y
<1>8. Seconds(Updated) = d % MinuteLength
  BY <1>3, <1>6 DEF Seconds
<1>9. Minutes(Updated) = (d % HourLength) - (d % MinuteLength)
  BY <1>3, <1>5, <1>6 DEF Minutes
<1>10. Hours(Updated) = (d % DayLength) - (d % HourLength)
  BY <1>3, <1>5, <1>6 DEF Hours
<1>11. Days(Updated) = d - (d % DayLength)
  <2>1. Days(Updated) = y * DayLength + 0
    BY <1>3, <1>4, <1>7 DEF Days
  <2>2. QED
    BY <1>1, <1>5, <1>6, <2>1
<1>12. QED
  BY <1>1, <1>4, <1>8, <1>9, <1>10, <1>11 DEF d

(* A register that has been stored into does not count among the others,   *)
(* and the others are as they were.                                        *)
LEMMA OthersOfStored ==
  ASSUME NEW r \in Registers, r.days_hi.upper = 0, NEW register \in 8..12,
         NEW byte \in 0..255, NEW bits \in DaysHi
  PROVE  Others(Stored(r, register, byte, bits), register) = AllBut(r, register)
<1> DEFINE q == Stored(Stored(r, register, byte, bits), register, 0, Zero.days_hi)
<1>1. Zero.days_hi \in DaysHi /\ Zero.days_hi.upper = 0
  BY DEF Zero, DaysHi
<1>2. /\ q.seconds = IF register = 8 THEN 0 ELSE r.seconds
      /\ q.minutes = IF register = 9 THEN 0 ELSE r.minutes
      /\ q.hours = IF register = 10 THEN 0 ELSE r.hours
      /\ q.days_lo = IF register = 11 THEN 0 ELSE r.days_lo
      /\ q.days_hi = IF register = 12 THEN Zero.days_hi ELSE r.days_hi
  BY DEF Stored, Registers
<1>3. q.days_hi.upper = 0
  BY <1>1, <1>2
<1>4. /\ 0 * MinuteLength = 0 /\ 0 * HourLength = 0 /\ 0 * DayLength = 0
      /\ 0 * CycleLength = 0
  BY Moduli
<1>5. \A i, j \in Nat : i * j \in Nat
  OBVIOUS
<1>6. /\ r.seconds \in Nat /\ r.minutes * MinuteLength \in Nat
      /\ r.hours * HourLength \in Nat /\ r.days_lo * DayLength \in Nat
  BY <1>5, Moduli DEF Registers
<1>7. Others(Stored(r, register, byte, bits), register) = Total(q)
  BY DEF Others
<1> HIDE DEF q
<1>8. Total(q) = Seconds(q) + Minutes(q) + Hours(q) + q.days_lo * DayLength + 0
  BY <1>3, <1>4 DEF Total, Seconds, Minutes, Hours
<1>9. /\ Seconds(q) = IF register = 8 THEN 0 ELSE Seconds(r)
      /\ Minutes(q) = IF register = 9 THEN 0 ELSE Minutes(r)
      /\ Hours(q) = IF register = 10 THEN 0 ELSE Hours(r)
      /\ q.days_lo * DayLength = IF register = 11 THEN 0 ELSE r.days_lo * DayLength
  BY <1>2, <1>4 DEF Seconds, Minutes, Hours
<1>10. Days(r) = r.days_lo * DayLength
  <2>1. Days(r) = r.days_lo * DayLength + 0
    BY <1>4 DEF Days
  <2>2. QED
    BY <1>6, <2>1
<1>11. /\ Seconds(r) \in Nat /\ Minutes(r) \in Nat /\ Hours(r) \in Nat
       /\ Days(r) \in Nat
  BY <1>6, <1>10 DEF Seconds, Minutes, Hours
<1>12. QED
  BY <1>7, <1>8, <1>9, <1>10, <1>11 DEF AllBut

(* While the tested bit is clear, a latch shows and keeps every second     *)
(* that passed, and a store into a register counts them into the others,   *)
(* for any moduli, any registers and any instants of the host's clock,     *)
(* below the first carry out of the low day byte (mbc3.c:65-105, 148-155). *)
THEOREM SecondsCount == Spec => SecondsAreCounted
<1> DEFINE Counts ==
      ~TimeBit /\ Due < CycleLength =>
        /\ Latching =>
             /\ time' = now
             /\ Total(readable') = Due /\ Total(writable') = Due
        /\ ~Latching /\ <<time, writable>>' # <<time, writable>> =>
             /\ time' = now
             /\ RtcMapped
             /\ Others(writable', mapped) = Due - Share(Due, mapped)
<1>1. CartridgeInv /\ [Next]_vars => [Counts]_vars
  <2> SUFFICES ASSUME CartridgeInv, Next, ~TimeBit, Due < CycleLength
               PROVE  Counts
    BY DEF Counts
  <2>1. RtcTypeOK /\ Updated \in Registers
    BY UpdatedType DEF CartridgeInv, TypeOK
  <2>2. /\ Due \in Nat /\ Updated.days_hi.upper = 0
        /\ Seconds(Updated) = Due % MinuteLength
        /\ Minutes(Updated) = (Due % HourLength) - (Due % MinuteLength)
        /\ Hours(Updated) = (Due % DayLength) - (Due % HourLength)
        /\ Days(Updated) = Due - (Due % DayLength)
    BY <2>1, UpdateIsDue
  <2>3. Due % MinuteLength \in Int /\ Due % HourLength \in Int /\ Due % DayLength \in Int
    <3>1. \A n \in Nat, k \in Nat \ {0} : n % k \in Nat
      BY Division
    <3>2. QED
      BY <2>2, <3>1, Moduli
  <2>4. CASE Latching
    <3>1. readable' = Updated /\ writable' = Updated /\ time' = now
      BY <2>4, LatchUpdates
    <3>2. Total(Updated) = Due
      <4>1. 0 * CycleLength = 0
        BY Moduli
      <4>2. Days(Updated) = Updated.days_lo * DayLength + 0
        BY <2>2, <4>1 DEF Days
      <4>3. Total(Updated) =
              Seconds(Updated) + Minutes(Updated) + Hours(Updated)
                + Updated.days_lo * DayLength + 0
        BY <2>2, <4>1 DEF Total, Seconds, Minutes, Hours
      <4>4. Updated.days_lo * DayLength \in Int
        BY <2>1, Moduli DEF Registers
      <4>5. QED
        BY <2>2, <2>3, <4>2, <4>3, <4>4
    <3>3. QED
      BY <2>4, <3>1, <3>2
  <2>5. CASE ~Latching /\ <<time, writable>>' # <<time, writable>>
    <3>1. time' = now /\ RtcMapped
      BY <2>5, StoreUpdates
    <3>2. PICK store \in Stores[Chip(type)], bits \in DayFlags :
            writable' = Stored(Updated, mapped, store[2], bits)
      BY <2>5, StoreUpdates
    <3>3. mapped \in 8..12 /\ store[2] \in 0..255 /\ bits \in DaysHi
      BY <3>1, StoreType, RtcAssumption DEF RtcMapped
    <3>4. Others(writable', mapped) = AllBut(Updated, mapped)
      BY <2>1, <2>2, <3>2, <3>3, OthersOfStored
    <3>5. Others(writable', mapped) = Due - Share(Due, mapped)
      BY <2>2, <2>3, <3>3, <3>4 DEF AllBut, Share
    <3>6. QED
      BY <2>5, <3>1, <3>5
  <2>6. QED
    BY <2>4, <2>5
<1>2. QED
  BY <1>1, InvariantHolds, PTL DEF Spec, SecondsAreCounted

-----------------------------------------------------------------------------
(* The banking implements RomWindows. *)

(* The two parts of the bank number that the high window shows. *)
UpperShown == IF Chip(type) = "MBC1" THEN ram_bank ELSE 0

LowerShown ==
  CASE Chip(type) = "MBC1" -> Mbc1Lower
    [] Chip(type) = "MBC2" -> rom_bank
    [] OTHER               -> 1

Shown ==
  /\ Mbc1Span \in {16, 32}
  /\ UpperShown \in 0..3
  /\ LowerShown \in 0..(Mbc1Span - 1)
  /\ Mbc1Span = 32 => LowerShown # 0
  /\ mode \in BOOLEAN
  /\ WindowBank(0) = IF mode THEN UpperShown * Mbc1Span ELSE 0
  /\ WindowBank(RomBankSize) = UpperShown * Mbc1Span + LowerShown
  /\ Windows!Lower = LowerShown
  /\ Windows!Upper = UpperShown * Mbc1Span

LEMMA WindowsShow == CartridgeInv => Shown
<1> SUFFICES ASSUME CartridgeInv PROVE Shown
  OBVIOUS
<1>1. BankInv /\ ChipTypeOK
  BY DEF CartridgeInv, TypeOK
<1>2. /\ Mbc1Span \in {16, 32} /\ UpperShown \in 0..3
      /\ LowerShown \in 0..(Mbc1Span - 1) /\ (Mbc1Span = 32 => LowerShown # 0)
  <2>1. CASE Chip(type) = "MBC1"
    BY <1>1, <2>1, Mbc1LowerRange DEF UpperShown, LowerShown, ChipTypeOK
  <2>2. CASE Chip(type) = "MBC2"
    BY <1>1, <2>2 DEF UpperShown, LowerShown, Mbc1Span, BankInv
  <2>3. CASE Chip(type) \notin {"MBC1", "MBC2"}
    BY <1>1, <2>3 DEF UpperShown, LowerShown, Mbc1Span, BankInv
  <2>4. QED
    BY <2>1, <2>2, <2>3
<1>3. /\ WindowBank(0) = IF mode THEN UpperShown * Mbc1Span ELSE 0
      /\ WindowBank(RomBankSize) = UpperShown * Mbc1Span + LowerShown
  <2>0. Area(0) # "ram" /\ Area(RomBankSize) # "ram"
    BY DEF Area, RomBankSize, VideoRam
  <2>1. CASE Chip(type) = "MBC1"
    <3>1. /\ Mbc1Bank(0) \in 0..127
          /\ Mbc1Bank(0) = IF mode THEN ram_bank * Mbc1Span ELSE 0
      BY <1>1, <2>1, Mbc1BankRange DEF RomBankSize
    <3>2. /\ Mbc1Bank(RomBankSize) \in 0..127
          /\ Mbc1Bank(RomBankSize) = ram_bank * Mbc1Span + Mbc1Lower
      BY <1>1, <2>1, Mbc1BankRange DEF RomBankSize
    <3>3. PhysicalMbc1(0) \div RomBankSize = Mbc1Bank(0)
      BY <2>0, <3>1 DEF PhysicalMbc1, RomBankSize
    <3>4. PhysicalMbc1(RomBankSize) \div RomBankSize = Mbc1Bank(RomBankSize)
      <4>1. RomBankSize % RomBankSize = 0
        BY DEF RomBankSize
      <4>2. PhysicalMbc1(RomBankSize) = Mbc1Bank(RomBankSize) * RomBankSize
        BY <2>0, <3>2, <4>1 DEF PhysicalMbc1, RomBankSize
      <4>3. QED
        BY <3>2, <4>2 DEF RomBankSize
    <3>5. /\ WindowBank(0) = PhysicalMbc1(0) \div RomBankSize
          /\ WindowBank(RomBankSize) = PhysicalMbc1(RomBankSize) \div RomBankSize
      BY <2>1 DEF WindowBank
    <3>6. UpperShown = ram_bank /\ LowerShown = Mbc1Lower
      BY <2>1 DEF UpperShown, LowerShown
    <3>7. QED
      BY <3>1, <3>2, <3>3, <3>4, <3>5, <3>6
  <2>2. CASE Chip(type) = "MBC2"
    <3>1. ~mode /\ rom_bank \in 1..15
      BY <1>1, <2>2 DEF BankInv
    <3>2. PhysicalMbc2(0) \div RomBankSize = 0
      BY <2>0, <3>1 DEF PhysicalMbc2, RomBankSize
    <3>3. PhysicalMbc2(RomBankSize) \div RomBankSize = rom_bank
      BY <2>0, <3>1 DEF PhysicalMbc2, RomBankSize, NonZero
    <3>4. /\ WindowBank(0) = PhysicalMbc2(0) \div RomBankSize
          /\ WindowBank(RomBankSize) = PhysicalMbc2(RomBankSize) \div RomBankSize
      BY <2>2 DEF WindowBank
    <3>5. UpperShown = 0 /\ LowerShown = rom_bank
      BY <2>2 DEF UpperShown, LowerShown
    <3>6. QED
      BY <1>2, <3>1, <3>2, <3>3, <3>4, <3>5
  <2>3. CASE Chip(type) \notin {"MBC1", "MBC2"}
    <3>1. ~mode
      BY <1>1, <2>3 DEF BankInv
    <3>2. WindowBank(0) = 0 /\ WindowBank(RomBankSize) = 1
      BY <2>3 DEF WindowBank, RomBankSize
    <3>3. UpperShown = 0 /\ LowerShown = 1
      BY <2>3 DEF UpperShown, LowerShown
    <3>4. QED
      BY <1>2, <3>1, <3>2, <3>3
  <2>4. QED
    BY <2>1, <2>2, <2>3
<1>4. Windows!Lower = LowerShown /\ Windows!Upper = UpperShown * Mbc1Span
  <2>1. (UpperShown * Mbc1Span + LowerShown) % Mbc1Span = LowerShown
    BY <1>2
  <2>2. Windows!Lower = LowerShown
    BY <1>3, <2>1 DEF Windows!Lower
  <2>3. QED
    BY <1>2, <1>3, <2>2 DEF Windows!Upper
<1>5. QED
  BY <1>1, <1>2, <1>3, <1>4 DEF Shown, ChipTypeOK

LEMMA WindowsShowNext == CartridgeInv' => Shown'
BY WindowsShow, PTL

(***************************************************************************)
(* A step of the cartridge moves at most one of: the wiring, a part of the *)
(* bank number, the mode.                                                  *)
(***************************************************************************)
Rewired == ~mode' /\ UpperShown' = 0 /\ LowerShown' = 1

OnePartMoves ==
  \/ Rewired
  \/ UNCHANGED <<multicart, mode, UpperShown>>
  \/ UNCHANGED <<multicart, mode, LowerShown>>
  \/ UNCHANGED <<multicart, UpperShown, LowerShown>> /\ mode' \in BOOLEAN

LEMMA LoadRewires ==
  ASSUME CartridgeInv, Load
  PROVE  Rewired
<1>1. PICK file \in Files :
        /\ type' = file.type
        /\ multicart' = (Searches(file) /\ HasLogo(file))
        /\ rom_bank' = IF Searches(file) THEN 0 ELSE rom_bank
        /\ UNCHANGED <<ram_bank, mode>>
  BY DEF Load
<1>2. rom_bank = 1 /\ ram_bank = 0 /\ ~mode
  BY DEF Load, CartridgeInv, BankInv, Chip
<1>3. rom_bank' \in {0, 1} /\ ram_bank' = 0 /\ ~mode'
  BY <1>1, <1>2
<1>4. Mbc1Lower' = 1
  <2>1. 1 % 16 = 1
    OBVIOUS
  <2>2. QED
    BY <1>3, <2>1 DEF Mbc1Lower
<1>5. Chip(type') = "MBC2" => rom_bank' = 1
  BY <1>1, <1>2 DEF Searches
<1>6. QED
  BY <1>3, <1>4, <1>5 DEF Rewired, UpperShown, LowerShown

LEMMA ControllerMoves ==
  ASSUME CartridgeInv, NEW address \in Nat, NEW data \in 0..255,
         WriteController(address, data), ~Stop
  PROVE  OnePartMoves
<1>1. UNCHANGED <<type, multicart>> /\ mode \in BOOLEAN
  BY DEF WriteController, cartVars, CartridgeInv, TypeOK, ChipTypeOK
<1>2. CASE Chip(type) = "MBC1" /\ WriteMbc1(address, data)
  <2>1. CASE Area(address) = "bank"
    <3>1. UNCHANGED <<ram_bank, mode>>
      BY <1>2, <2>1 DEF WriteMbc1
    <3>2. QED
      BY <1>1, <3>1 DEF OnePartMoves, UpperShown
  <2>2. CASE Area(address) = "bank2"
    <3>1. UNCHANGED <<rom_bank, mode>>
      BY <1>2, <2>2 DEF WriteMbc1
    <3>2. UNCHANGED LowerShown
      BY <1>1, <3>1 DEF LowerShown, Mbc1Lower
    <3>3. QED
      BY <1>1, <3>1, <3>2 DEF OnePartMoves
  <2>3. CASE Area(address) \notin {"bank", "bank2"}
    <3>1. UNCHANGED <<rom_bank, ram_bank>>
      BY <1>2, <2>3 DEF WriteMbc1
    <3>2. mode' \in BOOLEAN
      BY <1>1, <1>2, Zenon DEF WriteMbc1
    <3>3. UNCHANGED <<LowerShown, UpperShown>>
      BY <1>1, <3>1 DEF LowerShown, UpperShown, Mbc1Lower
    <3>4. QED
      BY <1>1, <3>2, <3>3 DEF OnePartMoves
  <2>4. QED
    BY <2>1, <2>2, <2>3
<1>3. CASE Chip(type) = "MBC2" /\ WriteMbc2(address, data)
  <2>1. UNCHANGED <<ram_bank, mode>>
    BY <1>3 DEF WriteMbc2
  <2>2. QED
    BY <1>1, <2>1 DEF OnePartMoves, UpperShown
<1>4. QED
  BY <1>2, <1>3 DEF WriteController

LEMMA NextMoves ==
  ASSUME CartridgeInv, [Next]_vars
  PROVE  OnePartMoves
<1>1. ASSUME UNCHANGED <<type, multicart, mode, rom_bank, ram_bank>>
      PROVE  OnePartMoves
  BY <1>1 DEF OnePartMoves, UpperShown
<1>2. ASSUME UNCHANGED <<type, cartVars, chipVars>>
      PROVE  OnePartMoves
  BY <1>1, <1>2 DEF cartVars, chipVars
<1>3. CASE Load
  BY <1>3, LoadRewires DEF OnePartMoves
<1>4. CASE Write
  <2>1. PICK store \in Stores[Chip(type)] : WriteCartridge(store[1], store[2])
    BY <1>4 DEF Write
  <2>2. store[1] \in Nat /\ store[2] \in 0..255
    BY StoreType
  <2>3. CASE Stop
    BY <1>2, <2>3 DEF Stop
  <2>4. CASE WriteRom(store[1], store[2]) /\ ~Stop
    <3>1. UNCHANGED <<multicart, mode, rom_bank, ram_bank>>
      BY <2>4 DEF WriteRom, cartVars, chipVars
    <3>2. rom_bank = 1 /\ ram_bank = 0 /\ ~mode
      BY <2>4 DEF WriteRom, CartridgeInv, BankInv
    <3>3. Mbc1Lower' = 1
      <4>1. 1 % 16 = 1
        OBVIOUS
      <4>2. QED
        BY <3>1, <3>2, <4>1 DEF Mbc1Lower
    <3>4. Rewired
      BY <3>1, <3>2, <3>3 DEF Rewired, UpperShown, LowerShown
    <3>5. QED
      BY <3>4 DEF OnePartMoves
  <2>5. CASE WriteController(store[1], store[2]) /\ ~Stop
    BY <2>2, <2>5, ControllerMoves
  <2>6. CASE WriteClocked(store[1], store[2])
    <3>1. ChipTypeOK /\ UNCHANGED <<type, multicart>> /\ Chip(type) = "MBC3"
      BY <2>6 DEF WriteClocked, cartVars, CartridgeInv, TypeOK
    <3>2. mode' = mode
      BY <2>2, <2>6, <3>1, BanksUnderMbc3 DEF WriteClocked
    <3>3. QED
      BY <3>1, <3>2 DEF OnePartMoves, UpperShown
  <2>7. CASE WriteUnsupported
    BY <1>2, <2>7 DEF WriteUnsupported, vars
  <2>8. QED
    BY <2>1, <2>3, <2>4, <2>5, <2>6, <2>7 DEF WriteCartridge
<1>5. CASE Read
  BY <1>2, <1>5 DEF Read, Stop
<1>6. CASE Tick
  BY <1>2, <1>6 DEF Tick
<1>7. CASE UNCHANGED vars
  BY <1>2, <1>7 DEF vars
<1>8. QED
  BY <1>3, <1>4, <1>5, <1>6, <1>7 DEF Next

LEMMA MovesAreWindowMoves ==
  ASSUME Shown, Shown', OnePartMoves
  PROVE  [Windows!Next]_Windows!vars
<1>1. /\ Mbc1Span \in {16, 32} /\ Mbc1Span' \in {16, 32}
      /\ UpperShown' \in 0..3 /\ LowerShown' \in 0..(Mbc1Span' - 1)
      /\ Mbc1Span' = 32 => LowerShown' # 0
  BY DEF Shown
<1>0. UpperShown \in 0..3
  BY DEF Shown
<1>2. /\ WindowBank(0) = IF mode THEN UpperShown * Mbc1Span ELSE 0
      /\ WindowBank(RomBankSize) = UpperShown * Mbc1Span + LowerShown
      /\ Windows!Lower = LowerShown /\ Windows!Upper = UpperShown * Mbc1Span
  BY DEF Shown
<1>3. /\ WindowBank(0)' = IF mode' THEN UpperShown' * Mbc1Span' ELSE 0
      /\ WindowBank(RomBankSize)' = UpperShown' * Mbc1Span' + LowerShown'
      /\ Windows!Lower' = LowerShown' /\ Windows!Upper' = UpperShown' * Mbc1Span'
  BY DEF Shown
<1>4. CASE Rewired
  <2>1. WindowBank(0)' = 0 /\ WindowBank(RomBankSize)' = 1
    <3>1. UpperShown' * Mbc1Span' = 0
      <4>1. 0 * 16 = 0 /\ 0 * 32 = 0
        OBVIOUS
      <4>2. QED
        BY <1>1, <1>4, <4>1 DEF Rewired
    <3>2. WindowBank(0)' = 0
      BY <1>3, <1>4, <3>1 DEF Rewired
    <3>3. WindowBank(RomBankSize)' = 0 + 1
      BY <1>3, <1>4, <3>1 DEF Rewired
    <3>4. QED
      BY <3>2, <3>3
  <2>2. Windows!Wire
    BY <1>1, <1>4, <2>1 DEF Rewired, Windows!Wire, Windows!Spans
  <2>3. QED
    BY <2>2 DEF Windows!Next
<1>5. CASE UNCHANGED <<multicart, mode, UpperShown>>
  <2>1. UNCHANGED <<Mbc1Span, mode, WindowBank(0)>>
    BY <1>2, <1>3, <1>5 DEF Mbc1Span
  <2>2. WindowBank(RomBankSize)' \in
          Windows!Upper..(Windows!Upper + Mbc1Span - 1)
    <3>1. WindowBank(RomBankSize)' = Windows!Upper + LowerShown'
      BY <1>2, <1>3, <1>5, <2>1
    <3>2. Windows!Upper \in Int /\ LowerShown' \in 0..(Mbc1Span - 1)
      BY <1>0, <1>1, <1>2, <2>1
    <3>3. \A u, s \in Int : \A l \in 0..(s - 1) : u + l \in u..(u + s - 1)
      OBVIOUS
    <3>4. Mbc1Span \in Int
      BY <1>1
    <3>5. Windows!Upper + LowerShown' \in Windows!Upper..(Windows!Upper + Mbc1Span - 1)
      BY <3>2, <3>3, <3>4
    <3>6. QED
      BY <3>1, <3>5, Zenon
  <2>3. Windows!SelectLower
    BY <1>1, <1>3, <2>1, <2>2 DEF Windows!SelectLower
  <2>4. QED
    BY <2>3 DEF Windows!Next
<1>6. CASE UNCHANGED <<multicart, mode, LowerShown>>
  <2>1. UNCHANGED <<Mbc1Span, mode>>
    BY <1>6 DEF Mbc1Span
  <2>2. WindowBank(RomBankSize)' = UpperShown' * Mbc1Span + Windows!Lower
    BY <1>2, <1>3, <1>6, <2>1
  <2>3. WindowBank(0)' = Windows!LowBank'
    BY <1>3 DEF Windows!LowBank
  <2>4. Windows!SelectUpper
    BY <1>1, <2>1, <2>2, <2>3 DEF Windows!SelectUpper
  <2>5. QED
    BY <2>4 DEF Windows!Next
<1>7. CASE UNCHANGED <<multicart, UpperShown, LowerShown>> /\ mode' \in BOOLEAN
  <2>1. UNCHANGED <<Mbc1Span, WindowBank(RomBankSize)>>
    BY <1>2, <1>3, <1>7 DEF Mbc1Span
  <2>2. WindowBank(0)' = Windows!LowBank'
    BY <1>3 DEF Windows!LowBank
  <2>3. CASE mode' = mode
    <3>1. UNCHANGED WindowBank(0)
      BY <1>2, <1>3, <1>7, <2>1, <2>3
    <3>2. QED
      BY <2>1, <2>3, <3>1 DEF Windows!vars
  <2>4. CASE mode' = ~mode
    <3>1. Windows!SelectMode
      BY <2>1, <2>2, <2>4 DEF Windows!SelectMode
    <3>2. QED
      BY <3>1 DEF Windows!Next
  <2>5. mode' = mode \/ mode' = ~mode
    <3>1. mode \in BOOLEAN /\ mode' \in BOOLEAN
      BY <1>7 DEF Shown
    <3>2. \A m, n \in BOOLEAN : n = m \/ n = ~m
      OBVIOUS
    <3>3. QED
      BY <3>1, <3>2
  <2>6. QED
    BY <2>3, <2>4, <2>5
<1>8. QED
  BY <1>4, <1>5, <1>6, <1>7 DEF OnePartMoves

(***************************************************************************)
(* The banking of an MBC1 or MBC2 implements RomWindows, for every file,   *)
(* program and host clock: each step moves one part of the bank number or  *)
(* none, the windows show the banks these parts name, and none is          *)
(* truncated (mbc1.c:27-122, mbc2.c:26-74, cartridge.c:30-68).             *)
(***************************************************************************)
THEOREM BankingRefines == Spec => BankingImplementsWindows
<1>1. Init => Windows!Init
  <2> SUFFICES ASSUME Init PROVE Windows!Init
    OBVIOUS
  <2>1. Chip(type) = "ROM_ONLY" /\ ~multicart /\ mode = FALSE
    BY DEF Init, ChipInit, Chip
  <2>2. WindowBank(0) = 0 /\ WindowBank(RomBankSize) = 1
    BY <2>1 DEF WindowBank, RomBankSize
  <2>3. QED
    BY <2>1, <2>2 DEF Windows!Init, Mbc1Span
<1>2. CartridgeInv /\ CartridgeInv' /\ [Next]_vars => [Windows!Next]_Windows!vars
  BY WindowsShow, WindowsShowNext, NextMoves, MovesAreWindowMoves
<1>3. QED
  BY <1>1, <1>2, InvariantHolds, PTL DEF Spec, BankingImplementsWindows, Windows!Spec
=============================================================================
