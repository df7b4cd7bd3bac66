------------------------------ MODULE MCGameBoy -----------------------------
(* Small instances of GameBoy for TLC. *)
EXTENDS GameBoy

\* Clock select -> period, in the ratio of the program's shortest periods.
MCPeriod == [c \in 0..3 |-> IF c = 1 THEN 2 ELSE 4]

\* NOP, EI, DI, RETI, HALT, LDH (a8),A: everything that moves IME and halt.
InterruptOpcodes == {0, 251, 243, 217, 118, 224}

\* NOP, HALT, LDH (a8),A, LD (a16),SP, INC (HL), STOP, JR, CB: the stores of
\* one and two bytes, the double ticks and the reset of DIV.
TimerOpcodes == {0, 118, 224, 8, 52, 16, 24, 32, 203}

\* BIT 0,B, BIT 0,(HL), RES 0,(HL).
MCCbOpcodes == {64, 70, 134}

\* IF, IE, TAC, and 0: a push from 0 reaches IE and then work RAM.
InterruptPointers == {65295, 65535, 65287, 0}

\* TIMA, TMA, TAC, DIV and the byte below DIV.
TimerPointers == {65283, 65284, 65285, 65286, 65287}

AnyInterrupts == SUBSET Sources
=============================================================================
