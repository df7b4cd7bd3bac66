-------------------------- MODULE InstructionCycles -------------------------
(***************************************************************************)
(* One instruction at a time against the machine cycles g_opcodes declares *)
(* for it: the clock is what timer_tick() calls made of it, spread over    *)
(* fetch_opcode, fetch_instruction and the handler, and nothing in the     *)
(* program compares their sum with cycle_count.                            *)
(***************************************************************************)
EXTENDS Instructions

VARIABLES op, operands,  \* the instruction being executed and its operands
          todo,          \* its micro-operations left
          elapsed,       \* machine cycles since it began
          status         \* "idle", "running", "done" or "exited"

vars == <<op, operands, todo, elapsed, status>>

TypeOK ==
  /\ op \in 0..255
  /\ operands \in Operands
  /\ todo \in Seq(MicroOps)
  /\ elapsed \in 0..6
  /\ status \in {"idle", "running", "done", "exited"}

-----------------------------------------------------------------------------
(* g_opcodes: cycle_count and cycle_count_false, 0 where there is no entry. *)

CyclesLow == << 1, 3, 2, 2, 1, 1, 2, 1, 5, 2, 2, 2, 1, 1, 2, 1,
                1, 3, 2, 2, 1, 1, 2, 1, 3, 2, 2, 2, 1, 1, 2, 1,
                3, 3, 2, 2, 1, 1, 2, 1, 3, 2, 2, 2, 1, 1, 2, 1,
                3, 3, 2, 2, 3, 3, 3, 1, 3, 2, 2, 2, 1, 1, 2, 1 >>

CyclesHigh == << 5, 3, 4, 4, 6, 4, 2, 4, 5, 4, 4, 1, 6, 6, 2, 4,
                 5, 3, 4, 0, 6, 4, 2, 4, 5, 4, 4, 0, 6, 0, 2, 4,
                 3, 3, 2, 0, 0, 4, 2, 4, 4, 1, 4, 0, 0, 0, 2, 4,
                 3, 3, 2, 1, 0, 4, 2, 4, 4, 2, 4, 1, 0, 0, 2, 4 >>

CycleCount(opcode) ==
  CASE OpcodeX(opcode) = 0 -> CyclesLow[opcode + 1]
    [] OpcodeX(opcode) = 3 -> CyclesHigh[opcode - 191]
    [] OTHER -> IF Type(opcode) \in {"R8_HL_REL", "HL_REL_R8", "A_HL_REL"} THEN 2 ELSE 1

CycleCountFalse(type) == IF type = "FLAG_A16" THEN 3 ELSE 2

\* The value cb_execute_instruction returns: it does not count the prefix.
CbCycleCount(cb) ==
  IF OpcodeZ(cb) # 6 THEN 1 ELSE IF OpcodeX(cb) = 1 THEN 2 ELSE 3

Declared(opcode, o) ==
  IF opcode = 203 THEN CycleCount(opcode) + CbCycleCount(o.cb)
  ELSE IF Condition(Type(opcode), o) THEN CycleCount(opcode)
  ELSE CycleCountFalse(Type(opcode))

-----------------------------------------------------------------------------
Init ==
  /\ op = 0
  /\ operands = [condition |-> TRUE, self_jump |-> FALSE, cb |-> 0]
  /\ todo = << >>
  /\ elapsed = 0
  /\ status = "idle"

\* Only a CB instruction has a second opcode.
OperandsOf(opcode) == {o \in Operands : opcode # 203 => o.cb = 0}

Begin ==
  /\ status = "idle"
  /\ op' \in 0..255
  /\ operands' \in OperandsOf(op')
  /\ todo' = Program(op', operands')
  /\ elapsed' = 0
  /\ status' = "running"

\* What the micro-operation m adds to the clock.
CyclesOf(m) == IF m = "tick" THEN 1 ELSE IF m = "tick2" THEN 2 ELSE 0

Advance ==
  /\ status = "running" /\ todo # << >> /\ Head(todo) # "exit"
  /\ todo' = Tail(todo)
  /\ elapsed' = elapsed + CyclesOf(Head(todo))
  /\ UNCHANGED <<op, operands, status>>

Return ==
  /\ status = "running" /\ todo = << >>
  /\ status' = "done"
  /\ UNCHANGED <<op, operands, todo, elapsed>>

Exit ==
  /\ status = "running" /\ todo # << >> /\ Head(todo) = "exit"
  /\ status' = "exited"
  /\ UNCHANGED <<op, operands, todo, elapsed>>

\* The caller takes the next instruction.
Retire ==
  /\ status = "done"
  /\ status' = "idle"
  /\ op' = 0
  /\ operands' = [condition |-> TRUE, self_jump |-> FALSE, cb |-> 0]
  /\ elapsed' = 0
  /\ UNCHANGED todo

Next == Begin \/ Advance \/ Return \/ Retire \/ Exit

Spec == Init /\ [][Next]_vars

-----------------------------------------------------------------------------
(* Properties *)

(***************************************************************************)
(* The opcodes whose clock is not the declared one: JP (HL) ticks as any   *)
(* other JP; ADD HL,rr, ADD SP,d8 and LD HL,SP+d8 miss their internal      *)
(* cycles; LDH misses the cycle of its store; the holes declare nothing.   *)
(***************************************************************************)
Inexact == {233, 9, 25, 41, 57, 232, 248, 224, 226} \cup Holes

(***************************************************************************)
(* Every other opcode, and every CB instruction, passes exactly the        *)
(* machine cycles declared for it, whether its condition holds or not: no  *)
(* timer_tick() is forgotten or repeated on any of its paths               *)
(* (instruction_fetch.c:113-390, instruction.c, instruction_cb.c).         *)
(***************************************************************************)
ClockMatchesTable ==
  status = "done" /\ op \notin Inexact => elapsed = Declared(op, operands)

(***************************************************************************)
(* README.md and the help of -x: execution stops at an infinite JR loop,   *)
(* that is at a JR to itself that is taken.                                *)
(***************************************************************************)
StopsOnlyInLoop == status = "exited" => Condition(Type(op), operands)
=============================================================================
