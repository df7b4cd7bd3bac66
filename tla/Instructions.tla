---------------------------- MODULE Instructions ----------------------------
(***************************************************************************)
(* The instruction set as the emulator executes it: what each opcode does  *)
(* to the clock, to memory and to the interrupt machinery, in program      *)
(* order.                                                                  *)
(*                                                                         *)
(* An instruction is one uninterrupted C call, execute_instruction(), but  *)
(* the clock advances in the middle of it (every timer_tick()), and with   *)
(* the clock the timer, the interrupt flags and the delayed EI.  The order *)
(* of ticks, stores and IME updates inside a call is therefore observable, *)
(* and an opcode is translated into the sequence of its micro-operations:  *)
(*                                                                         *)
(*   tick, tick2     timer_ticks(1), timer_ticks(2)                        *)
(*   store           write_memory at the effective address                 *)
(*   store_next      the second byte of write_memory_16bit                 *)
(*   push            write_memory(--sp, ..) of stack_push                  *)
(*   schedule        g_cpu.ime_scheduled = true (EI)                       *)
(*   ime_on, ime_off interrupt_set_ime (RETI, DI)                          *)
(*   halt            g_cpu.halt = true                                     *)
(*   clear_div       write_memory(TIMER_DIV, 0) (STOP)                     *)
(*   exit            exit(1) through FATAL_ERROR                           *)
(*                                                                         *)
(* Loads and arithmetic change only registers and flags and leave no       *)
(* micro-operation here.                                                   *)
(***************************************************************************)
EXTENDS Integers, Sequences

CONSTANT ExitInfiniteLoop   \* the command line option -x

ASSUME ExitInfiniteLoopAssumption == ExitInfiniteLoop \in BOOLEAN

Ticks == {"tick", "tick2"}

MicroOps == Ticks \cup {"store", "store_next", "push", "schedule", "ime_on",
                        "ime_off", "halt", "clear_div", "exit"}

-----------------------------------------------------------------------------
(* The octal digits of an opcode. *)

OpcodeX(op) == op \div 64
OpcodeY(op) == (op \div 8) % 8
OpcodeZ(op) == op % 8

(***************************************************************************)
(* g_opcodes: the rows 0x0..0x3 and 0xC..0xF of the table.  "ADC" with     *)
(* "ERR_OPERAND" is a hole: the table has no entry there, and both         *)
(* enumerations begin at zero.                                             *)
(***************************************************************************)
NamesLow == <<
  "NOP",  "LD", "LD", "INC", "INC", "DEC", "LD", "RLCA",
  "LD",  "ADD", "LD", "DEC", "INC", "DEC", "LD", "RRCA",
  "STOP", "LD", "LD", "INC", "INC", "DEC", "LD", "RLA",
  "JR",  "ADD", "LD", "DEC", "INC", "DEC", "LD", "RRA",
  "JR",   "LD", "LD", "INC", "INC", "DEC", "LD", "DAA",
  "JR",  "ADD", "LD", "DEC", "INC", "DEC", "LD", "CPL",
  "JR",   "LD", "LD", "INC", "INC", "DEC", "LD", "SCF",
  "JR",  "ADD", "LD", "DEC", "INC", "DEC", "LD", "CCF" >>

TypesLow == <<
  "NO_OPERAND", "R16_D16", "R16_REL_A", "R16", "R8", "R8", "R8_D8", "NO_OPERAND",
  "D16_REL_SP", "HL_R16", "A_R16_REL", "R16", "R8", "R8", "R8_D8", "NO_OPERAND",
  "NO_OPERAND", "R16_D16", "R16_REL_A", "R16", "R8", "R8", "R8_D8", "NO_OPERAND",
  "S8", "HL_R16", "A_R16_REL", "R16", "R8", "R8", "R8_D8", "NO_OPERAND",
  "FLAG_S8", "R16_D16", "HLI_A", "R16", "R8", "R8", "R8_D8", "NO_OPERAND",
  "FLAG_S8", "HL_R16", "A_HLI", "R16", "R8", "R8", "R8_D8", "NO_OPERAND",
  "FLAG_S8", "R16_D16", "HLD_A", "R16", "HL_REL", "HL_REL", "HL_REL_D8", "NO_OPERAND",
  "FLAG_S8", "HL_R16", "A_HLD", "R16", "R8", "R8", "R8_D8", "NO_OPERAND" >>

NamesHigh == <<
  "RET", "POP", "JP", "JP", "CALL", "PUSH", "ADD", "RST",
  "RET", "RET", "JP", "CB", "CALL", "CALL", "ADC", "RST",
  "RET", "POP", "JP", "ADC", "CALL", "PUSH", "SUB", "RST",
  "RET", "RETI", "JP", "ADC", "CALL", "ADC", "SBC", "RST",
  "LDH", "POP", "LDH", "ADC", "ADC", "PUSH", "AND", "RST",
  "ADD", "JP", "LD", "ADC", "ADC", "ADC", "XOR", "RST",
  "LDH", "POP", "LDH", "DI", "ADC", "PUSH", "OR", "RST",
  "LD", "LD", "LD", "EI", "ADC", "ADC", "CP", "RST" >>

TypesHigh == <<
  "FLAG", "R16", "FLAG_A16", "A16", "FLAG_A16", "R16", "A_D8", "RST",
  "FLAG", "NO_OPERAND", "FLAG_A16", "NO_OPERAND", "FLAG_A16", "A16", "A_D8", "RST",
  "FLAG", "R16", "FLAG_A16", "ERR_OPERAND", "FLAG_A16", "R16", "A_D8", "RST",
  "FLAG", "NO_OPERAND", "FLAG_A16", "ERR_OPERAND", "FLAG_A16", "ERR_OPERAND", "A_D8", "RST",
  "D8_REL_A", "R16", "C_REL_A", "ERR_OPERAND", "ERR_OPERAND", "R16", "A_D8", "RST",
  "SP_S8", "HL_REL", "D16_REL_A", "ERR_OPERAND", "ERR_OPERAND", "ERR_OPERAND", "A_D8", "RST",
  "A_D8_REL", "R16", "A_C_REL", "NO_OPERAND", "ERR_OPERAND", "R16", "A_D8", "RST",
  "HL_S8", "SP_HL", "A_D16_REL", "NO_OPERAND", "ERR_OPERAND", "ERR_OPERAND", "A_D8", "RST" >>

Arithmetic == << "ADD", "ADC", "SUB", "SBC", "AND", "XOR", "OR", "CP" >>

Name(op) ==
  CASE OpcodeX(op) = 0 -> NamesLow[op + 1]
    [] op = 118        -> "HALT"
    [] OpcodeX(op) = 1 /\ op # 118 -> "LD"
    [] OpcodeX(op) = 2 -> Arithmetic[OpcodeY(op) + 1]
    [] OTHER           -> NamesHigh[op - 191]

Type(op) ==
  CASE OpcodeX(op) = 0                        -> TypesLow[op + 1]
    [] op = 118                               -> "NO_OPERAND"
    [] OpcodeX(op) = 1 /\ OpcodeY(op) = 6 /\ op # 118 -> "HL_REL_R8"
    [] OpcodeX(op) = 1 /\ OpcodeZ(op) = 6 /\ OpcodeY(op) # 6 -> "R8_HL_REL"
    [] OpcodeX(op) = 1 /\ OpcodeZ(op) # 6 /\ OpcodeY(op) # 6 -> "R8_R8"
    [] OpcodeX(op) = 2 /\ OpcodeZ(op) = 6     -> "A_HL_REL"
    [] OpcodeX(op) = 2 /\ OpcodeZ(op) # 6     -> "A_R8"
    [] OTHER                                  -> TypesHigh[op - 191]

\* The opcodes of g_opcodes whose entry is missing.
Holes == {op \in 0..255 : Type(op) = "ERR_OPERAND"}

-----------------------------------------------------------------------------
(***************************************************************************)
(* fetch_instruction: the ticks spent reading the operands.                *)
(***************************************************************************)
FetchTicks(type) ==
  CASE type \in {"S8", "FLAG_S8", "D8", "R8_D8", "A_D8", "HL_S8", "SP_S8",
                 "HL_REL_D8", "D8_REL_A", "R8_HL_REL", "A_R16_REL", "A_HLD",
                 "A_HLI", "A_C_REL", "A_HL_REL"} -> <<"tick">>
    [] type \in {"A16", "FLAG_A16", "R16_D16", "A_D8_REL", "D16_REL_A",
                 "D16_REL_SP"} -> <<"tick", "tick">>
    [] type = "A_D16_REL" -> <<"tick", "tick", "tick">>
    [] OTHER -> << >>

\* IS_DST_REGISTER: the operand types between R8_R8 and HL_S8.
IsDstRegister(type) ==
  type \in {"R8_R8", "R8_D8", "R8_HL_REL", "A_R16_REL", "A_D16_REL", "R16_D16",
            "SP_HL", "SP_S8", "A_HLD", "A_HLI", "A_C_REL", "A_D8_REL", "A_R8",
            "A_D8", "A_HL_REL", "HL_R16", "HL_S8"}

\* Variant of Push16: a cycle too many.
Push16Late == <<"tick", "push", "tick", "push", "tick">>

\* stack_push_16bit and stack_pop_16bit.
Push16 == <<"tick", "push", "tick", "push">>
Pop16  == <<"tick", "tick">>

(***************************************************************************)
(* What a run of an instruction depends on besides its opcode: the value   *)
(* of the flag a conditional jump tests, whether a JR jumps to itself      *)
(* (offset -2), and the second byte of a CB instruction.                   *)
(***************************************************************************)
Operands == [condition : BOOLEAN, self_jump : BOOLEAN, cb : 0..255]

Condition(type, o) ==
  type \in {"FLAG", "FLAG_A16", "FLAG_S8"} => o.condition

Ld(type) ==
  CASE type \in {"HL_S8", "SP_HL"} -> <<"tick">>
    [] type = "D16_REL_SP"         -> <<"tick2", "store", "store_next">>
    [] IsDstRegister(type) /\ type \notin {"HL_S8", "SP_HL"} -> << >>
    [] OTHER                       -> <<"tick", "store">>

\* Variant of IncDec: no cycle for the 16-bit register.
IncDecUnclocked(type) == IF type = "HL_REL" THEN <<"tick2", "store">> ELSE << >>

IncDec(type) ==
  CASE type = "HL_REL" -> <<"tick2", "store">>
    [] type = "R16"    -> <<"tick">>
    [] OTHER           -> << >>

\* cb: opcode fetch, then the read and the write back of (HL), BIT only reads.
Cb(cb) ==
  CASE OpcodeZ(cb) # 6                      -> <<"tick">>
    [] OpcodeZ(cb) = 6 /\ OpcodeX(cb) = 1   -> <<"tick", "tick">>
    [] OTHER                                -> <<"tick", "tick", "tick", "store">>

Jr(type, o) ==
  CASE ExitInfiniteLoop /\ o.self_jump -> <<"exit">>
    [] ~(ExitInfiniteLoop /\ o.self_jump) /\ Condition(type, o) -> <<"tick">>
    [] OTHER -> << >>

Call(type, o) == IF Condition(type, o) THEN <<"tick">> \o Push16 ELSE << >>

Ret(type, o) ==
  (IF type # "NO_OPERAND" THEN <<"tick">> ELSE << >>)
    \o (IF Condition(type, o) THEN Pop16 \o <<"tick">> ELSE << >>)

\* g_instruction_handlers: the micro-operations of the handler itself.
Handler(name, type, o) ==
  CASE name = "JP"   -> IF Condition(type, o) THEN <<"tick">> ELSE << >>
    [] name = "JR"   -> Jr(type, o)
    [] name = "CALL" -> Call(type, o)
    [] name = "RET"  -> Ret(type, o)
    [] name = "RETI" -> Pop16 \o <<"tick", "ime_on">>
    [] name = "RST"  -> <<"tick">> \o Push16
    [] name = "PUSH" -> <<"tick">> \o Push16
    [] name = "POP"  -> Pop16
    [] name = "LD"   -> Ld(type)
    [] name = "LDH"  -> IF IsDstRegister(type) THEN << >> ELSE <<"store">>
    [] name \in {"INC", "DEC"} -> IncDec(type)
    [] name = "DI"   -> <<"ime_off">>
    [] name = "EI"   -> <<"schedule">>
    [] name = "HALT" -> <<"halt">>
    [] name = "STOP" -> <<"clear_div">>
    [] name = "CB"   -> Cb(o.cb)
    [] OTHER         -> << >>

\* execute_instruction: fetch the opcode, fetch the operands, run the handler.
Program(op, o) ==
  <<"tick">> \o FetchTicks(Type(op)) \o Handler(Name(op), Type(op), o)

\* handle_interrupt: timer_ticks(2), push the program counter, timer_tick.
Dispatch == <<"tick2">> \o Push16 \o <<"tick">>
=============================================================================
