----------------------------- MODULE Interrupts -----------------------------
(***************************************************************************)
(* The interrupt controller (src/src/cpu/interrupt.c): the request flags   *)
(* IF, the enable flags IE, the master enable IME.  A register is the set  *)
(* of the bits that are set in it; bit i stands for the vector 0x40 + 8*i, *)
(* and a lower bit has the higher priority.                                *)
(***************************************************************************)
EXTENDS Integers

VBLANK == 0
LCD    == 1
TIMA   == 2
SERIAL == 3
JOYPAD == 4

CONSTANT Sources       \* the interrupt bits the instance has

ASSUME SourcesAssumption == Sources \subseteq VBLANK..JOYPAD /\ TIMA \in Sources

VARIABLES if_reg, ie_reg, ime

interruptVars == <<if_reg, ie_reg, ime>>

InterruptTypeOK ==
  /\ if_reg \subseteq Sources
  /\ ie_reg \subseteq Sources
  /\ ime \in BOOLEAN

\* g_ime starts set, and reset_cpu leaves it alone.
InterruptInit ==
  /\ if_reg = {}
  /\ ie_reg = {}
  /\ ime = TRUE

\* What interrupt_is_set && interrupt_is_enabled accepts.
Pending == if_reg \cap ie_reg

\* The first bit the loop of handle_interrupts finds.
Highest(S) == CHOOSE i \in S : \A j \in S : i <= j

\* interrupt_request.
Request(i) == if_reg' = if_reg \cup {i}

\* write_interrupt.
WriteInterrupt(register, bits) ==
  /\ if_reg' = IF register = "IF" THEN bits ELSE if_reg
  /\ ie_reg' = IF register = "IE" THEN bits ELSE ie_reg
  /\ UNCHANGED ime
=============================================================================
