--------------------------------- MODULE Bus --------------------------------
(***************************************************************************)
(* The address decoding of write_memory and read_memory                    *)
(* (src/src/cpu/memory.c) and of the I/O ports behind them (src/src/io.c). *)
(***************************************************************************)
EXTENDS Integers

\* A u16: addresses wrap around.
AddressMod == 65536
Address    == 0..(AddressMod - 1)

\* macro.h: the upper bound loses one address more than an open interval.
InRange(x, a, b) == x >= a /\ x < b - 1

\* write_io, read_io: 0xFF04..0xFF07 are the timer, 0xFF0F is IF.
IoDevice(a) ==
  CASE a = 65284 -> "DIV"
    [] a = 65285 -> "TIMA"
    [] a = 65286 -> "TMA"
    [] a = 65287 -> "TAC"
    [] a = 65295 -> "IF"
    [] OTHER     -> "memory"

\* write_memory, read_memory: cartridge below 0x8000, I/O ports from 0xFF00,
\* IE at 0xFFFF, and the flat g_cpu.memory everywhere else.
Device(a) ==
  CASE a < 32768                  -> "cartridge"
    [] InRange(a, 65280, 65408)   -> IoDevice(a)
    [] a = 65535                  -> "IE"
    [] OTHER                      -> "memory"

TimerRegisters     == {"DIV", "TIMA", "TMA", "TAC"}
InterruptRegisters == {"IF", "IE"}
=============================================================================
