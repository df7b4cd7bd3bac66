------------------------ MODULE UninterruptedProgram ------------------------
(***************************************************************************)
(* What the processor promises the program in the cartridge: its           *)
(* instructions take effect one after the other, as if there were no       *)
(* interrupts and no timer.  The program owns its registers, the memory    *)
(* cells Data and the part of the stack that is in use.                    *)
(***************************************************************************)
EXTENDS Cpu, TLC

CONSTANTS Data,       \* addresses the program keeps its data at
          StackTop    \* the address after the stack

VARIABLES rom, registers, ram

vars == <<rom, registers, ram>>

Init ==
  /\ registers = ResetFile
  /\ ram = OwnedCells(rom, registers, Data, StackTop)

\* One instruction of a processor with nothing but this state; the option -x
\* may or may not end the program at a loop.
Next ==
  /\ UNCHANGED rom
  /\ \E exits \in BOOLEAN :
       \E after \in {Execute([Reset(ram @@ rom) EXCEPT !.registers = registers,
                                                   !.exit_infinite_loop = exits])} :
         /\ registers' = after.registers
         /\ ram' = OwnedCells(after.memory, registers', Data, StackTop)

Spec == Init /\ [][Next]_vars
=============================================================================
