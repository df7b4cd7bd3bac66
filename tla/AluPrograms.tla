---------------------------- MODULE AluPrograms -----------------------------
(***************************************************************************)
(* Numbers wider than a byte exist on this CPU only as sequences of        *)
(* instructions that hand the carry and the half carry from one to the     *)
(* next.  This machine runs such sequences on two 16-bit numbers x and y,  *)
(* kept as their low and high bytes, and collects the bytes they store.    *)
(***************************************************************************)
EXTENDS Alu, Sequences

CONSTANTS Bytes,          \* the bytes of binary numbers
          DecimalBytes    \* the bytes of decimal numbers, a digit per nibble

ASSUME BytesAssumption ==
  /\ Bytes \subseteq Byte
  /\ DecimalBytes \subseteq {b \in Byte : b % 16 < 10 /\ b \div 16 < 10}

VARIABLES program,  \* its name
          x, y,     \* <<low byte, high byte>>
          todo,     \* the instructions left
          half,     \* the byte of x and y being worked on
          a, f,     \* the accumulator and the flags
          out       \* the bytes stored

vars == <<program, x, y, todo, half, a, f, out>>

\* "LOW" and "HIGH" load a byte of x into the accumulator; the operand of
\* an operation is that byte of y.  The shapes of the programs:
Bytewise(load, operation, reload, other) ==
  <<load, operation, "STORE", reload, other, "STORE">>

\* With the carry clear at the start.
Cleared(operation, other) ==
  <<"SCF", "CCF", "LOW", operation, "STORE", "HIGH", other, "STORE">>

Corrected(operation, other) ==
  <<"LOW", operation, "DAA", "STORE", "HIGH", other, "DAA", "STORE">>

FourTimes(rotation) ==
  <<"LOW", rotation, rotation, rotation, rotation, "STORE", "LOW", "SWAP", "STORE">>

Sums        == {"add", "adc"}
Differences == {"sub", "cp"}
LeftShifts  == {"sla", "rla"}
Exchanges   == {"rlc", "rrc", "rlca", "rrca"}

Program(name) ==
  CASE name = "add"  -> Bytewise("LOW", "ADD", "HIGH", "ADC")
    [] name = "adc"  -> Cleared("ADC", "ADC")
    [] name = "sub"  -> Bytewise("LOW", "SUB", "HIGH", "SBC")
    [] name = "cp"   -> Bytewise("LOW", "CP", "HIGH", "SBC")
    [] name = "decimal_add" -> Corrected("ADD", "ADC")
    [] name = "decimal_sub" -> Corrected("SUB", "SBC")
    [] name = "sla"  -> Bytewise("LOW", "SLA", "HIGH", "RL")
    [] name = "rla"  -> Cleared("RLA", "RLA")
    [] name = "srl"  -> Bytewise("HIGH", "SRL", "LOW", "RR")
    [] name = "sra"  -> Bytewise("HIGH", "SRA", "LOW", "RRA")
    [] name = "rlc"  -> FourTimes("RLC")
    [] name = "rrc"  -> FourTimes("RRC")
    [] name = "rlca" -> FourTimes("RLCA")
    [] name = "rrca" -> FourTimes("RRCA")
    [] name = "negate" -> <<"LOW", "CPL", "INC", "STORE", "DEC", "CPL", "STORE">>
    [] name = "logic" ->
         <<"LOW", "AND", "STORE", "LOW", "OR", "STORE", "LOW", "XOR", "STORE">>
    [] name = "bits" -> <<"LOW", "SET", "BIT", "STORE", "RES", "BIT", "STORE">>

Names == {"decimal_add", "decimal_sub", "srl", "sra", "negate", "logic", "bits"}
           \cup Sums \cup Differences \cup LeftShifts \cup Exchanges

NumberBytes(name) ==
  IF name \in {"decimal_add", "decimal_sub"} THEN DecimalBytes ELSE Bytes

TypeOK ==
  /\ a \in Byte
  /\ f \in Flags
  /\ half \in 1..2
  /\ out \in Seq(Byte) /\ Len(out) <= 3

\* reset_cpu: AF is 0x01B0.
Init ==
  /\ program \in Names
  /\ x \in NumberBytes(program) \X NumberBytes(program)
  /\ y \in NumberBytes(program) \X NumberBytes(program)
  /\ todo = Program(program)
  /\ half = 1
  /\ a = 1
  /\ f = [z |-> TRUE, n |-> FALSE, h |-> TRUE, c |-> TRUE]
  /\ out = << >>

-----------------------------------------------------------------------------
Begins(instructions) == todo # << >> /\ Head(todo) \in instructions

Load ==
  /\ Begins({"LOW", "HIGH"})
  /\ half' = IF Head(todo) = "LOW" THEN 1 ELSE 2
  /\ a' = x[half']
  /\ todo' = Tail(todo)
  /\ UNCHANGED <<program, x, y, f, out>>

StoreByte ==
  /\ Begins({"STORE"})
  /\ out' = Append(out, a)
  /\ todo' = Tail(todo)
  /\ UNCHANGED <<program, x, y, half, a, f>>

\* The bit number of RES, SET and BIT has three bits.
Operand == IF Head(todo) \in {"RES", "SET", "BIT"} THEN y[half] % 8 ELSE y[half]

Operate ==
  /\ todo # << >> /\ ~Begins({"LOW", "HIGH", "STORE"})
  /\ LET result == Apply(Head(todo), a, Operand, f)
     IN  a' = result.a /\ f' = result.f
  /\ todo' = Tail(todo)
  /\ UNCHANGED <<program, x, y, half, out>>

Next == Load \/ StoreByte \/ Operate

Spec == Init /\ [][Next]_vars

-----------------------------------------------------------------------------
(* Properties *)

Ended(names) == program \in names /\ todo = << >>

Word(bytes) == bytes[1] + 256 * bytes[2]

Digits(bytes) ==
  (bytes[1] % 16) + 10 * (bytes[1] \div 16)
    + 100 * (bytes[2] % 16) + 1000 * (bytes[2] \div 16)

(***************************************************************************)
(* Byte by byte, with the carry between them, ADD and ADC add two words,   *)
(* SUB and SBC subtract them and CP and SBC compare them; carry and half   *)
(* carry are those of the word, as ADD HL leaves them (instruction.c:162,  *)
(* 170, 301-382, 422).                                                     *)
(***************************************************************************)
WideArithmetic ==
  LET sum == AddHl(Word(x), Word(y), f) IN
  /\ Ended(Sums) => Word(out) = sum.hl /\ f = sum.f
  /\ Ended(Differences) =>
       /\ f.c = (Word(x) < Word(y))
       /\ f.h = (Word(x) % 4096 < Word(y) % 4096)
       /\ a = ((Word(x) - Word(y)) % 65536) \div 256
       /\ program = "sub" => out[1] = (Word(x) - Word(y)) % 256

(***************************************************************************)
(* With a DAA after each byte, the same programs add and subtract numbers  *)
(* of four decimal digits, and the carry is the decimal one                *)
(* (instruction.c:178-206).                                                *)
(***************************************************************************)
DecimalArithmetic ==
  /\ Ended({"decimal_add"}) =>
       /\ Digits(out) = (Digits(x) + Digits(y)) % 10000
       /\ f.c = (Digits(x) + Digits(y) >= 10000)
  /\ Ended({"decimal_sub"}) =>
       /\ Digits(out) = (Digits(x) - Digits(y)) % 10000
       /\ f.c = (Digits(x) < Digits(y))

(***************************************************************************)
(* A shift of one byte and a rotation of the other through the carry shift *)
(* the word: SLA/RL and RLA/RLA left, SRL/RR right, SRA/RRA right with the *)
(* sign (instruction.c:436-481, instruction_cb.c:76-158, 180-198).         *)
(***************************************************************************)
WideShifts ==
  /\ Ended(LeftShifts) =>
       /\ Word(out) = (2 * Word(x)) % 65536
       /\ f.c = (Word(x) >= 32768)
  /\ Ended({"srl", "sra"}) =>
       /\ out[2] + 256 * out[1] =
            (Word(x) \div 2) + (IF program = "sra" /\ x[2] >= 128 THEN 32768 ELSE 0)
       /\ f.c = (x[1] % 2 = 1)

(***************************************************************************)
(* Different instructions agree on the same byte: four rotations are a     *)
(* SWAP, CPL and INC negate it and DEC and CPL undo that, AND and XOR make *)
(* up OR, and BIT sees what SET and RES did (instruction.c:208-297,        *)
(* 386-434, 453, 483; instruction_cb.c:36-74, 160-178, 200-241).           *)
(***************************************************************************)
ByteIdentities ==
  /\ Ended(Exchanges) => out[1] = out[2]
  /\ Ended({"negate"}) => (out[1] + x[1]) % 256 = 0 /\ out[2] = x[1]
  /\ Ended({"logic"}) => out[2] = out[1] + out[3] /\ f.z = (x[1] = y[1])
  /\ program = "bits" /\ Len(out) = 1 /\ Begins({"RES"}) => ~f.z
  /\ Ended({"bits"}) => f.z /\ out[1] = out[2] + 2^(y[1] % 8)
=============================================================================
