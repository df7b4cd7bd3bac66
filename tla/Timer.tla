-------------------------------- MODULE Timer -------------------------------
(***************************************************************************)
(* The timer of the Game Boy (src/src/cpu/timer.c): DIV counts every       *)
(* machine cycle, TIMA counts the ends of the periods TAC selects, and an  *)
(* overflow of TIMA is remembered until the next call, which reloads TIMA  *)
(* from TMA and requests the interrupt.                                    *)
(*                                                                         *)
(* The widths of the counters are constants, so that a small instance can  *)
(* be checked; in the program they are 65536 and 256, and Period is        *)
(* <<256, 4, 16, 64>>.                                                     *)
(***************************************************************************)
EXTENDS Integers

CONSTANTS DivMod,      \* number of values of DIV
          TimaMod,     \* number of values of TIMA, TMA and the bytes written
          Period,      \* TAC's clock select -> machine cycles per TIMA tick
          MaxTicks,    \* the largest argument timer_ticks() is called with
          DivDefault   \* TIMER_DIV_DEFAULT

(***************************************************************************)
(* Every period divides DIV's range and no call spans two ends of a        *)
(* period: the program passes at most 2 and the shortest period is 4.      *)
(***************************************************************************)
ASSUME TimerAssumption ==
  /\ DivMod \in Nat \ {0}
  /\ TimaMod \in Nat \ {0, 1}
  /\ MaxTicks \in Nat \ {0}
  /\ Period \in [0..3 -> Nat \ {0}]
  /\ \A c \in 0..3 : DivMod % Period[c] = 0 /\ MaxTicks <= Period[c]
  /\ DivDefault \in 0..(DivMod - 1)

VARIABLES div, tima, tma, tac, tima_overflow

timerVars == <<div, tima, tma, tac, tima_overflow>>

Byte == 0..(TimaMod - 1)

TimerTypeOK ==
  /\ div \in 0..(DivMod - 1)
  /\ tima \in Byte
  /\ tma \in Byte
  /\ tac \in 0..7
  /\ tima_overflow \in BOOLEAN

\* Power-on: only DIV is given a value, the rest is zeroed static storage.
TimerInit ==
  /\ div = DivDefault
  /\ tima = 0
  /\ tma = 0
  /\ tac = 0
  /\ tima_overflow = FALSE

-----------------------------------------------------------------------------
TimerEnabled == tac >= 4

Freq == Period[tac % 4]

\* Variant of IncreaseTima: DIV is read after it has wrapped around.
IncreaseTimaWrapped(n) ==
  (((div + n) % DivMod) \div Freq - div \div Freq) % TimaMod

\* The u8 number of period ends between DIV and DIV + n.
IncreaseTima(n) == ((div + n) \div Freq - div \div Freq) % TimaMod

\* TIMA as the call sees it once a pending overflow has reloaded it.
Reloaded == IF tima_overflow THEN tma ELSE tima

(***************************************************************************)
(* timer_ticks(n), the part of it that concerns the timer's own registers. *)
(* The interrupt request and the delayed EI of the same call are added by  *)
(* the module that composes the timer with the CPU.                        *)
(***************************************************************************)
TimerTicks(n) ==
  LET counts    == TimerEnabled /\ IncreaseTima(n) # 0
      overflows == counts /\ Reloaded = TimaMod - 1
  IN  /\ div' = (div + n) % DivMod
      /\ tima_overflow' = overflows
      /\ tima' = IF overflows THEN 0
                 ELSE IF counts THEN (Reloaded + IncreaseTima(n)) % TimaMod
                 ELSE Reloaded
      /\ UNCHANGED <<tma, tac>>

\* write_timer: any write to DIV clears it, TAC keeps three bits.
WriteTimer(register, value) ==
  /\ div'  = IF register = "DIV"  THEN 0 ELSE div
  /\ tac'  = IF register = "TAC"  THEN value % 8 ELSE tac
  /\ tma'  = IF register = "TMA"  THEN value % TimaMod ELSE tma
  /\ tima' = IF register = "TIMA" THEN value % TimaMod ELSE tima
  /\ UNCHANGED tima_overflow
=============================================================================
