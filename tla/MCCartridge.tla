---------------------------- MODULE MCCartridge -----------------------------
(* Cartridge files, addresses and bytes for TLC. *)
EXTENDS Cartridge

\* "banks" hold a complete logo; the other banks have no byte of one.
File(t, rom_code, size, version, banks) ==
  [type |-> t, rom_version |-> version, rom_code |-> rom_code, ram_code |-> 3,
   size |-> size, sum_is_zero |-> FALSE,
   matching |-> [bank \in LogoBanks |-> IF bank \in banks THEN LogoLength ELSE 0]]

\* 2 MiB MBC1 cartridges, and 8 MiB ones searched for logos.
Mbc1Files ==
  {File(3, 6, 2097152, 0, {0})} \cup
  {File(1, 8, 8388608, 0, banks) : banks \in {{}, {0}, {0, 1, 2}}}

\* An MBC2 recognised by its version byte, one that is too short, one that
\* is refused and 8 MiB MBC1s that are truncated, between two logos and inside
\* the last one.
Mbc2Files ==
  {File(6, 3, 262144, 6, {0}), File(5, 1, 65536, 5, {0}),
   [File(6, 3, 262144, 6, {0}) EXCEPT !.sum_is_zero = TRUE],
   File(1, 8, 65536, 0, {0}),
   [File(1, 8, LogoAddress(3) + 20, 0, {0, 1, 2}) EXCEPT !.matching[3] = 20]}

ClockFiles == {File(16, 2, 131072, 0, {0})}

OtherFiles == {File(0, 0, 32768, 0, {0}), File(25, 2, 131072, 0, {0})}

AllFiles == Mbc1Files \cup Mbc2Files \cup ClockFiles \cup OtherFiles

\* The first and the last address of every area, and both MBC2 registers.
BankedAddresses ==
  {0, 256, 8191, 8192, 8448, 16383, 16384, 24575, 24576, 32767,
   40960, 41471, 49151, 49152}

\* The key of the gate, and bank numbers around the widths of the registers.
BankedData == {0, 1, 2, 3, 10, 15, 16, 17, 26, 31, 32, 33, 255}

BankedStores == BankedAddresses \X BankedData

\* An opening and a closing gate address, a ROM bank, no mapping and the mapping
\* of the seconds and flags, the latch sequence, bytes for registers.
ClockStores ==
  {<<0, 0>>, <<1, 0>>} \cup
  {<<8192, 33>>} \cup
  ({16384} \X {0, 8, 12}) \cup
  ({24576} \X {0, 1}) \cup
  ({40960} \X {0, 5})

\* Without a controller the type byte can be written, too.
RomStores == BankedStores \cup ({327} \X {1, 5, 25})

AllStores ==
  [ROM_ONLY |-> RomStores, MBC1 |-> BankedStores, MBC2 |-> BankedStores,
   MBC3 |-> ClockStores, unsupported |-> ClockStores]

\* Stopped with a carry, and running with the upper day bit.
ClockFlags == {[upper |-> 0, halt |-> TRUE, carry |-> TRUE],
               [upper |-> 1, halt |-> FALSE, carry |-> FALSE]}
=============================================================================
