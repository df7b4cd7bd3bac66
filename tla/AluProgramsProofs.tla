------------------------- MODULE AluProgramsProofs -------------------------
(***************************************************************************)
(* What the programs of AluPrograms compute, for all the bytes they are    *)
(* given.  A program has no branch, so the states of a run form a line:    *)
(* the inductive invariant names the positions of each program and, at     *)
(* each of them, the values of the accumulator, the flags and the bytes    *)
(* stored, as applications of the operations to the bytes of x and y.      *)
(***************************************************************************)
EXTENDS AluPrograms, AluProofs, SequenceTheorems

-----------------------------------------------------------------------------
(* The invariant. *)

Instructions == {"LOW", "HIGH", "STORE"} \cup AccumulatorOperations
                  \cup Rotations \cup BitOperations

TypeInv ==
  /\ x \in Byte \X Byte /\ y \in Byte \X Byte
  /\ todo \in Seq(Instructions)
  /\ half \in 1..2
  /\ a \in Byte /\ f \in Flags
  /\ out \in Seq(Byte)

\* The machine with the instructions of rest left.
At(rest, made, part, accumulator, flags) ==
  /\ todo = rest
  /\ out = made
  /\ half = part
  /\ a = accumulator
  /\ f = flags

Initially == [z |-> TRUE, n |-> FALSE, h |-> TRUE, c |-> TRUE]
CarryClear == [z |-> TRUE, n |-> FALSE, h |-> FALSE, c |-> FALSE]

Part(load) == IF load = "LOW" THEN 1 ELSE 2

\* The results of the two operations of a program that goes byte by byte.
One(operation, part, before) == Apply(operation, x[part], y[part], before)

BytewiseRun(load, operation, reload, other, before) ==
  LET i == Part(load)
      j == Part(reload)
      one == One(operation, i, before)
      two == One(other, j, one.f)
  IN  \/ At(<<load, operation, "STORE", reload, other, "STORE">>, << >>, half, a, before)
      \/ At(<<operation, "STORE", reload, other, "STORE">>, << >>, i, x[i], before)
      \/ At(<<"STORE", reload, other, "STORE">>, << >>, i, one.a, one.f)
      \/ At(<<reload, other, "STORE">>, <<one.a>>, i, one.a, one.f)
      \/ At(<<other, "STORE">>, <<one.a>>, j, x[j], one.f)
      \/ At(<<"STORE">>, <<one.a>>, j, two.a, two.f)
      \/ At(<< >>, <<one.a, two.a>>, j, two.a, two.f)

-----------------------------------------------------------------------------
(* One step. *)

LEMMA AppendOne ==
  ASSUME NEW b \in Byte
  PROVE  Append(<< >>, b) = <<b>>
<1>1. << >> \in Seq(Byte) /\ <<b>> \in Seq(Byte)
  OBVIOUS
<1>2. Append(<< >>, b) \in Seq(Byte) /\ Len(Append(<< >>, b)) = 1 /\ Append(<< >>, b)[1] = b
  BY <1>1, AppendProperties
<1>3. QED
  BY <1>1, <1>2, SeqEqual

LEMMA AppendTwo ==
  ASSUME NEW b \in Byte, NEW c \in Byte
  PROVE  Append(<<b>>, c) = <<b, c>>
<1>1. <<b>> \in Seq(Byte) /\ <<b, c>> \in Seq(Byte) /\ Len(<<b>>) = 1
  OBVIOUS
<1> DEFINE s == Append(<<b>>, c)
<1>2. s \in Seq(Byte) /\ Len(s) = 2 /\ s[1] = b /\ s[2] = c
  BY <1>1, AppendProperties
<1> HIDE DEF s
<1>3. s = <<b, c>>
  BY <1>1, <1>2, SeqEqual
<1>4. QED
  BY <1>3 DEF s

LEMMA AppendThree ==
  ASSUME NEW b \in Byte, NEW c \in Byte, NEW d \in Byte
  PROVE  Append(<<b, c>>, d) = <<b, c, d>>
<1>1. <<b, c>> \in Seq(Byte) /\ <<b, c, d>> \in Seq(Byte) /\ Len(<<b, c>>) = 2
  OBVIOUS
<1> DEFINE s == Append(<<b, c>>, d)
<1>2. s \in Seq(Byte) /\ Len(s) = 3 /\ s[1] = b /\ s[2] = c /\ s[3] = d
  BY <1>1, AppendProperties
<1> HIDE DEF s
<1>3. s = <<b, c, d>>
  BY <1>1, <1>2, SeqEqual
<1>4. QED
  BY <1>3 DEF s

(* Loads, stores and operations, by the first instruction left. *)
LEMMA Steps ==
  ASSUME Next
  PROVE  /\ todo # << >>
         /\ todo' = Tail(todo)
         /\ UNCHANGED <<program, x, y>>
         /\ Head(todo) \in {"LOW", "HIGH"} =>
              half' = Part(Head(todo)) /\ a' = x[half'] /\ f' = f /\ out' = out
         /\ Head(todo) = "STORE" =>
              half' = half /\ a' = a /\ f' = f /\ out' = Append(out, a)
         /\ Head(todo) \notin {"LOW", "HIGH", "STORE"} =>
              /\ half' = half /\ out' = out
              /\ a' = Apply(Head(todo), a, Operand, f).a
              /\ f' = Apply(Head(todo), a, Operand, f).f
BY DEF Next, Load, StoreByte, Operate, Begins, Part

LEMMA OperandType ==
  ASSUME TypeInv
  PROVE  Operand \in Byte
<1>1. y[half] \in Byte
  BY DEF TypeInv
<1>2. y[half] % 8 \in Byte
  BY <1>1 DEF Byte
<1>3. QED
  BY <1>1, <1>2 DEF Operand

(* Every instruction leaves a byte and four flags. *)
LEMMA TypeStep ==
  ASSUME TypeInv, Next
  PROVE  TypeInv'
<1>1. todo # << >> /\ todo \in Seq(Instructions)
  BY Steps DEF TypeInv
<1>2. Head(todo) \in Instructions /\ Tail(todo) \in Seq(Instructions)
  BY <1>1, HeadTailProperties
<1>3. /\ todo' \in Seq(Instructions)
      /\ x' \in Byte \X Byte /\ y' \in Byte \X Byte
  BY <1>2, Steps DEF TypeInv
<1>4. CASE Head(todo) \in {"LOW", "HIGH"}
  <2>1. half' \in 1..2
    BY <1>4, Steps DEF Part
  <2>2. a' \in Byte
    BY <1>4, <2>1, Steps DEF TypeInv
  <2>3. QED
    BY <1>3, <1>4, <2>1, <2>2, Steps DEF TypeInv
<1>5. CASE Head(todo) = "STORE"
  <2>1. Append(out, a) \in Seq(Byte)
    BY AppendProperties DEF TypeInv
  <2>2. QED
    BY <1>3, <1>5, <2>1, Steps DEF TypeInv
<1>6. CASE Head(todo) \notin {"LOW", "HIGH", "STORE"}
  <2>1. Head(todo) \in AccumulatorOperations \cup Rotations \cup BitOperations
    BY <1>2, <1>6 DEF Instructions
  <2>2. Operand \in Byte /\ a \in Byte /\ f \in Flags
    BY OperandType DEF TypeInv
  <2>3. Apply(Head(todo), a, Operand, f) \in Results
    BY <2>1, <2>2, AccumulatorType, RotationType, BitOperationType
  <2>4. a' \in Byte /\ f' \in Flags
    BY <1>6, <2>3, Steps DEF Results
  <2>5. QED
    BY <1>3, <1>6, <2>4, Steps DEF TypeInv
<1>7. QED
  BY <1>4, <1>5, <1>6

-----------------------------------------------------------------------------
(* One step along each program. *)

LEMMA BytewiseStep ==
  ASSUME NEW load \in {"LOW", "HIGH"}, NEW reload \in {"LOW", "HIGH"},
         NEW operation, operation \notin {"LOW", "HIGH", "STORE"} \cup BitOperations,
         NEW other, other \notin {"LOW", "HIGH", "STORE"} \cup BitOperations,
         NEW before, TypeInv, Next,
         BytewiseRun(load, operation, reload, other, before)
  PROVE  BytewiseRun(load, operation, reload, other, before)'
<1> DEFINE i == Part(load)
           j == Part(reload)
           one == One(operation, i, before)
           two == One(other, j, one.f)
<1>1. x' = x /\ y' = y /\ i' = i /\ j' = j /\ one' = one /\ two' = two
  BY Steps DEF One, Part
<1>2. CASE At(<<load, operation, "STORE", reload, other, "STORE">>, << >>, half, a, before)
  <2>1. Head(todo) = load /\ Tail(todo) = <<operation, "STORE", reload, other, "STORE">>
    BY <1>2 DEF At
  <2>2. At(<<operation, "STORE", reload, other, "STORE">>, << >>, i, x[i], before)'
    BY <1>1, <1>2, <2>1, Steps DEF At
  <2>3. QED
    BY <2>2 DEF BytewiseRun
<1>3. CASE At(<<operation, "STORE", reload, other, "STORE">>, << >>, i, x[i], before)
  <2>1. Head(todo) = operation /\ Tail(todo) = <<"STORE", reload, other, "STORE">>
    BY <1>3 DEF At
  <2>2. Operand = y[i]
    BY <1>3, <2>1 DEF At, Operand, BitOperations
  <2>3. At(<<"STORE", reload, other, "STORE">>, << >>, i, one.a, one.f)'
    BY <1>1, <1>3, <2>1, <2>2, Steps DEF At, One
  <2>4. QED
    BY <2>3 DEF BytewiseRun
<1>4. CASE At(<<"STORE", reload, other, "STORE">>, << >>, i, one.a, one.f)
  <2>1. Head(todo) = "STORE" /\ Tail(todo) = <<reload, other, "STORE">>
    BY <1>4 DEF At
  <2>2. Append(out, a) = <<one.a>>
    BY <1>4, AppendOne DEF At, TypeInv
  <2>3. At(<<reload, other, "STORE">>, <<one.a>>, i, one.a, one.f)'
    BY <1>1, <1>4, <2>1, <2>2, Steps DEF At
  <2>4. QED
    BY <2>3 DEF BytewiseRun
<1>5. CASE At(<<reload, other, "STORE">>, <<one.a>>, i, one.a, one.f)
  <2>1. Head(todo) = reload /\ Tail(todo) = <<other, "STORE">>
    BY <1>5 DEF At
  <2>2. At(<<other, "STORE">>, <<one.a>>, j, x[j], one.f)'
    BY <1>1, <1>5, <2>1, Steps DEF At
  <2>3. QED
    BY <2>2 DEF BytewiseRun
<1>6. CASE At(<<other, "STORE">>, <<one.a>>, j, x[j], one.f)
  <2>1. Head(todo) = other /\ Tail(todo) = <<"STORE">>
    BY <1>6 DEF At
  <2>2. Operand = y[j]
    BY <1>6, <2>1 DEF At, Operand, BitOperations
  <2>3. At(<<"STORE">>, <<one.a>>, j, two.a, two.f)'
    BY <1>1, <1>6, <2>1, <2>2, Steps DEF At, One
  <2>4. QED
    BY <2>3 DEF BytewiseRun
<1>7. CASE At(<<"STORE">>, <<one.a>>, j, two.a, two.f)
  <2>1. Head(todo) = "STORE" /\ Tail(todo) = << >>
    BY <1>7 DEF At
  <2>2. one.a \in Byte /\ two.a \in Byte
    BY <1>7 DEF At, TypeInv
  <2>3. Append(out, a) = <<one.a, two.a>>
    BY <1>7, <2>2, AppendTwo DEF At
  <2>4. At(<< >>, <<one.a, two.a>>, j, two.a, two.f)'
    BY <1>1, <1>7, <2>1, <2>3, Steps DEF At
  <2>5. QED
    BY <2>4 DEF BytewiseRun
<1>8. CASE At(<< >>, <<one.a, two.a>>, j, two.a, two.f)
  BY <1>8, Steps DEF At
<1>9. QED
  BY <1>2, <1>3, <1>4, <1>5, <1>6, <1>7, <1>8 DEF BytewiseRun

CarrySet == [z |-> TRUE, n |-> FALSE, h |-> FALSE, c |-> TRUE]

ClearedRun(operation, other) ==
  \/ At(Cleared(operation, other), << >>, half, a, Initially)
  \/ At(<<"CCF", "LOW", operation, "STORE", "HIGH", other, "STORE">>, << >>, half, a, CarrySet)
  \/ BytewiseRun("LOW", operation, "HIGH", other, CarryClear)

LEMMA ClearedStep ==
  ASSUME NEW operation, operation \notin {"LOW", "HIGH", "STORE"} \cup BitOperations,
         NEW other, other \notin {"LOW", "HIGH", "STORE"} \cup BitOperations,
         TypeInv, Next, ClearedRun(operation, other)
  PROVE  ClearedRun(operation, other)'
<1>1. CASE At(Cleared(operation, other), << >>, half, a, Initially)
  <2>1. /\ Head(todo) = "SCF"
        /\ Tail(todo) = <<"CCF", "LOW", operation, "STORE", "HIGH", other, "STORE">>
    BY <1>1 DEF At, Cleared
  <2>2. Apply("SCF", a, Operand, Initially).f = CarrySet
    BY DEF Apply, Scf, Initially, CarrySet
  <2>3. QED
    BY <1>1, <2>1, <2>2, Steps DEF At, ClearedRun
<1>2. CASE At(<<"CCF", "LOW", operation, "STORE", "HIGH", other, "STORE">>, << >>, half, a, CarrySet)
  <2>1. /\ Head(todo) = "CCF"
        /\ Tail(todo) = Bytewise("LOW", operation, "HIGH", other)
    BY <1>2 DEF At, Bytewise
  <2>2. Apply("CCF", a, Operand, CarrySet).f = CarryClear
    BY DEF Apply, Ccf, CarryClear, CarrySet
  <2>3. At(Bytewise("LOW", operation, "HIGH", other), << >>, half, a, CarryClear)'
    BY <1>2, <2>1, <2>2, Steps DEF At
  <2>4. QED
    BY <2>3 DEF ClearedRun, BytewiseRun, Bytewise
<1>3. CASE BytewiseRun("LOW", operation, "HIGH", other, CarryClear)
  BY <1>3, BytewiseStep DEF ClearedRun
<1>4. QED
  BY <1>1, <1>2, <1>3 DEF ClearedRun

(* The two operations, each corrected by DAA.                              *)
CorrectedLine(operation, other, one, low, two, high) ==
  \/ At(<<"LOW", operation, "DAA", "STORE", "HIGH", other, "DAA", "STORE">>,
        << >>, 1, a, Initially)
  \/ At(<<operation, "DAA", "STORE", "HIGH", other, "DAA", "STORE">>,
        << >>, 1, x[1], Initially)
  \/ At(<<"DAA", "STORE", "HIGH", other, "DAA", "STORE">>, << >>, 1, one.a, one.f)
  \/ At(<<"STORE", "HIGH", other, "DAA", "STORE">>, << >>, 1, low.a, low.f)
  \/ At(<<"HIGH", other, "DAA", "STORE">>, <<low.a>>, 1, low.a, low.f)
  \/ At(<<other, "DAA", "STORE">>, <<low.a>>, 2, x[2], low.f)
  \/ At(<<"DAA", "STORE">>, <<low.a>>, 2, two.a, two.f)
  \/ At(<<"STORE">>, <<low.a>>, 2, high.a, high.f)
  \/ At(<< >>, <<low.a, high.a>>, 2, high.a, high.f)

CorrectedRun(operation, other) ==
  LET one  == Apply(operation, x[1], y[1], Initially)
      low  == Apply("DAA", one.a, y[1], one.f)
      two  == Apply(other, x[2], y[2], low.f)
      high == Apply("DAA", two.a, y[2], two.f)
  IN  CorrectedLine(operation, other, one, low, two, high)

LEMMA CorrectedLineStep ==
  ASSUME NEW operation, operation \notin {"LOW", "HIGH", "STORE"} \cup BitOperations,
         NEW other, other \notin {"LOW", "HIGH", "STORE"} \cup BitOperations,
         NEW one, NEW low, NEW two, NEW high
  PROVE  /\ TypeInv /\ Next
         /\ one = Apply(operation, x[1], y[1], Initially)
         /\ low = Apply("DAA", one.a, y[1], one.f)
         /\ two = Apply(other, x[2], y[2], low.f)
         /\ high = Apply("DAA", two.a, y[2], two.f)
         /\ CorrectedLine(operation, other, one, low, two, high)
         => CorrectedLine(operation, other, one, low, two, high)'
<1>1. SUFFICES ASSUME TypeInv, Next,
                      one = Apply(operation, x[1], y[1], Initially),
                      low = Apply("DAA", one.a, y[1], one.f),
                      two = Apply(other, x[2], y[2], low.f),
                      high = Apply("DAA", two.a, y[2], two.f),
                      CorrectedLine(operation, other, one, low, two, high)
               PROVE  CorrectedLine(operation, other, one, low, two, high)'
  OBVIOUS
<1>2. TypeInv /\ Next
  BY <1>1
<1>3. /\ one = Apply(operation, x[1], y[1], Initially)
      /\ low = Apply("DAA", one.a, y[1], one.f)
      /\ two = Apply(other, x[2], y[2], low.f)
      /\ high = Apply("DAA", two.a, y[2], two.f)
  BY <1>1
<1>4. x' = x /\ y' = y
  BY <1>2, Steps
<1>5. CASE At(<<"LOW", operation, "DAA", "STORE", "HIGH", other, "DAA", "STORE">>,
              << >>, 1, a, Initially)
  <2>1. Head(todo) = "LOW" /\ Tail(todo) = <<operation, "DAA", "STORE", "HIGH", other, "DAA", "STORE">>
    BY <1>5 DEF At
  <2>2. At(<<operation, "DAA", "STORE", "HIGH", other, "DAA", "STORE">>,
           << >>, 1, x[1], Initially)'
    BY <1>2, <1>4, <1>5, <2>1, Steps DEF At, Part
  <2>3. QED
    BY <2>2 DEF CorrectedLine
<1>6. CASE At(<<operation, "DAA", "STORE", "HIGH", other, "DAA", "STORE">>,
              << >>, 1, x[1], Initially)
  <2>1. Head(todo) = operation /\ Tail(todo) = <<"DAA", "STORE", "HIGH", other, "DAA", "STORE">>
    BY <1>6 DEF At
  <2>2. Operand = y[1]
    BY <1>6, <2>1 DEF At, Operand, BitOperations
  <2>3. At(<<"DAA", "STORE", "HIGH", other, "DAA", "STORE">>, << >>, 1, one.a, one.f)'
    BY <1>2, <1>3, <1>4, <1>6, <2>1, <2>2, Steps DEF At
  <2>4. QED
    BY <2>3 DEF CorrectedLine
<1>7. CASE At(<<"DAA", "STORE", "HIGH", other, "DAA", "STORE">>, << >>, 1, one.a, one.f)
  <2>1. Head(todo) = "DAA" /\ Tail(todo) = <<"STORE", "HIGH", other, "DAA", "STORE">>
    BY <1>7 DEF At
  <2>2. Operand = y[1]
    BY <1>7, <2>1 DEF At, Operand
  <2>3. At(<<"STORE", "HIGH", other, "DAA", "STORE">>, << >>, 1, low.a, low.f)'
    BY <1>2, <1>3, <1>4, <1>7, <2>1, <2>2, Steps DEF At
  <2>4. QED
    BY <2>3 DEF CorrectedLine
<1>8. CASE At(<<"STORE", "HIGH", other, "DAA", "STORE">>, << >>, 1, low.a, low.f)
  <2>1. Head(todo) = "STORE" /\ Tail(todo) = <<"HIGH", other, "DAA", "STORE">>
    BY <1>8 DEF At
  <2>2. low.a \in Byte
    BY <1>2, <1>8 DEF At, TypeInv
  <2>3. Append(out, a) = <<low.a>>
    BY <1>8, <2>2, AppendOne DEF At
  <2>4. At(<<"HIGH", other, "DAA", "STORE">>, <<low.a>>, 1, low.a, low.f)'
    BY <1>2, <1>8, <2>1, <2>3, Steps DEF At
  <2>5. QED
    BY <2>4 DEF CorrectedLine
<1>9. CASE At(<<"HIGH", other, "DAA", "STORE">>, <<low.a>>, 1, low.a, low.f)
  <2>1. Head(todo) = "HIGH" /\ Tail(todo) = <<other, "DAA", "STORE">>
    BY <1>9 DEF At
  <2>2. At(<<other, "DAA", "STORE">>, <<low.a>>, 2, x[2], low.f)'
    BY <1>2, <1>4, <1>9, <2>1, Steps DEF At, Part
  <2>3. QED
    BY <2>2 DEF CorrectedLine
<1>10. CASE At(<<other, "DAA", "STORE">>, <<low.a>>, 2, x[2], low.f)
  <2>1. Head(todo) = other /\ Tail(todo) = <<"DAA", "STORE">>
    BY <1>10 DEF At
  <2>2. Operand = y[2]
    BY <1>10, <2>1 DEF At, Operand, BitOperations
  <2>3. At(<<"DAA", "STORE">>, <<low.a>>, 2, two.a, two.f)'
    BY <1>2, <1>3, <1>4, <1>10, <2>1, <2>2, Steps DEF At
  <2>4. QED
    BY <2>3 DEF CorrectedLine
<1>11. CASE At(<<"DAA", "STORE">>, <<low.a>>, 2, two.a, two.f)
  <2>1. Head(todo) = "DAA" /\ Tail(todo) = <<"STORE">>
    BY <1>11 DEF At
  <2>2. Operand = y[2]
    BY <1>11, <2>1 DEF At, Operand
  <2>3. At(<<"STORE">>, <<low.a>>, 2, high.a, high.f)'
    BY <1>2, <1>3, <1>4, <1>11, <2>1, <2>2, Steps DEF At
  <2>4. QED
    BY <2>3 DEF CorrectedLine
<1>12. CASE At(<<"STORE">>, <<low.a>>, 2, high.a, high.f)
  <2>1. Head(todo) = "STORE" /\ Tail(todo) = << >>
    BY <1>12 DEF At
  <2>2. low.a \in Byte /\ high.a \in Byte
    BY <1>2, <1>12 DEF At, TypeInv
  <2>3. Append(out, a) = <<low.a, high.a>>
    BY <1>12, <2>2, AppendTwo DEF At
  <2>4. At(<< >>, <<low.a, high.a>>, 2, high.a, high.f)'
    BY <1>2, <1>12, <2>1, <2>3, Steps DEF At
  <2>5. QED
    BY <2>4 DEF CorrectedLine
<1>13. CASE At(<< >>, <<low.a, high.a>>, 2, high.a, high.f)
  BY <1>2, <1>13, Steps DEF At
<1>14. QED
  BY <1>1, <1>5, <1>6, <1>7, <1>8, <1>9, <1>10, <1>11, <1>12, <1>13 DEF CorrectedLine

LEMMA CorrectedStep ==
  ASSUME NEW operation, operation \notin {"LOW", "HIGH", "STORE"} \cup BitOperations,
         NEW other, other \notin {"LOW", "HIGH", "STORE"} \cup BitOperations,
         TypeInv, Next, CorrectedRun(operation, other)
  PROVE  CorrectedRun(operation, other)'
<1> DEFINE one  == Apply(operation, x[1], y[1], Initially)
           low  == Apply("DAA", one.a, y[1], one.f)
           two  == Apply(other, x[2], y[2], low.f)
           high == Apply("DAA", two.a, y[2], two.f)
<1>1. CorrectedLine(operation, other, one, low, two, high)
  BY DEF CorrectedRun
<1>2. x' = x /\ y' = y
  BY Steps
<1>3. one' = one /\ low' = low /\ two' = two /\ high' = high
  BY <1>2
<1>4. CorrectedLine(operation, other, one, low, two, high)'
  <2> HIDE DEF one, low, two, high
  <2> QED
    BY <1>1, <1>3, CorrectedLineStep DEF one, low, two, high
<1>5. QED
  BY <1>4 DEF CorrectedRun

(* Four rotations, and the exchange of the two nibbles.                    *)
FourTimesLine(rotation, one, two, three, four, swapped) ==
  \/ At(<<"LOW", rotation, rotation, rotation, rotation, "STORE", "LOW", "SWAP", "STORE">>,
        << >>, 1, a, Initially)
  \/ At(<<rotation, rotation, rotation, rotation, "STORE", "LOW", "SWAP", "STORE">>,
        << >>, 1, x[1], Initially)
  \/ At(<<rotation, rotation, rotation, "STORE", "LOW", "SWAP", "STORE">>,
        << >>, 1, one.a, one.f)
  \/ At(<<rotation, rotation, "STORE", "LOW", "SWAP", "STORE">>, << >>, 1, two.a, two.f)
  \/ At(<<rotation, "STORE", "LOW", "SWAP", "STORE">>, << >>, 1, three.a, three.f)
  \/ At(<<"STORE", "LOW", "SWAP", "STORE">>, << >>, 1, four.a, four.f)
  \/ At(<<"LOW", "SWAP", "STORE">>, <<four.a>>, 1, four.a, four.f)
  \/ At(<<"SWAP", "STORE">>, <<four.a>>, 1, x[1], four.f)
  \/ At(<<"STORE">>, <<four.a>>, 1, swapped.a, swapped.f)
  \/ At(<< >>, <<four.a, swapped.a>>, 1, swapped.a, swapped.f)

FourTimesRun(rotation) ==
  LET one     == Apply(rotation, x[1], y[1], Initially)
      two     == Apply(rotation, one.a, y[1], one.f)
      three   == Apply(rotation, two.a, y[1], two.f)
      four    == Apply(rotation, three.a, y[1], three.f)
      swapped == Apply("SWAP", x[1], y[1], four.f)
  IN  FourTimesLine(rotation, one, two, three, four, swapped)

LEMMA FourTimesLineStep ==
  ASSUME NEW rotation, rotation \notin {"LOW", "HIGH", "STORE"} \cup BitOperations,
         NEW one, NEW two, NEW three, NEW four, NEW swapped
  PROVE  /\ TypeInv /\ Next
         /\ one = Apply(rotation, x[1], y[1], Initially)
         /\ two = Apply(rotation, one.a, y[1], one.f)
         /\ three = Apply(rotation, two.a, y[1], two.f)
         /\ four = Apply(rotation, three.a, y[1], three.f)
         /\ swapped = Apply("SWAP", x[1], y[1], four.f)
         /\ FourTimesLine(rotation, one, two, three, four, swapped)
         => FourTimesLine(rotation, one, two, three, four, swapped)'
<1>1. SUFFICES ASSUME TypeInv, Next,
                      one = Apply(rotation, x[1], y[1], Initially),
                      two = Apply(rotation, one.a, y[1], one.f),
                      three = Apply(rotation, two.a, y[1], two.f),
                      four = Apply(rotation, three.a, y[1], three.f),
                      swapped = Apply("SWAP", x[1], y[1], four.f),
                      FourTimesLine(rotation, one, two, three, four, swapped)
               PROVE  FourTimesLine(rotation, one, two, three, four, swapped)'
  OBVIOUS
<1>2. TypeInv /\ Next
  BY <1>1
<1>3. /\ one = Apply(rotation, x[1], y[1], Initially)
      /\ two = Apply(rotation, one.a, y[1], one.f)
      /\ three = Apply(rotation, two.a, y[1], two.f)
      /\ four = Apply(rotation, three.a, y[1], three.f)
      /\ swapped = Apply("SWAP", x[1], y[1], four.f)
  BY <1>1
<1>4. x' = x /\ y' = y
  BY <1>2, Steps
<1>5. CASE At(<<"LOW", rotation, rotation, rotation, rotation, "STORE", "LOW", "SWAP", "STORE">>,
              << >>, 1, a, Initially)
  <2>1. Head(todo) = "LOW" /\ Tail(todo) = <<rotation, rotation, rotation, rotation, "STORE", "LOW", "SWAP", "STORE">>
    BY <1>5 DEF At
  <2>2. At(<<rotation, rotation, rotation, rotation, "STORE", "LOW", "SWAP", "STORE">>,
           << >>, 1, x[1], Initially)'
    BY <1>2, <1>4, <1>5, <2>1, Steps DEF At, Part
  <2>3. QED
    BY <2>2 DEF FourTimesLine
<1>6. CASE At(<<rotation, rotation, rotation, rotation, "STORE", "LOW", "SWAP", "STORE">>,
              << >>, 1, x[1], Initially)
  <2>1. Head(todo) = rotation /\ Tail(todo) = <<rotation, rotation, rotation, "STORE", "LOW", "SWAP", "STORE">>
    BY <1>6 DEF At
  <2>2. Operand = y[1]
    BY <1>6, <2>1 DEF At, Operand, BitOperations
  <2>3. At(<<rotation, rotation, rotation, "STORE", "LOW", "SWAP", "STORE">>,
           << >>, 1, one.a, one.f)'
    BY <1>2, <1>3, <1>4, <1>6, <2>1, <2>2, Steps DEF At
  <2>4. QED
    BY <2>3 DEF FourTimesLine
<1>7. CASE At(<<rotation, rotation, rotation, "STORE", "LOW", "SWAP", "STORE">>,
              << >>, 1, one.a, one.f)
  <2>1. Head(todo) = rotation /\ Tail(todo) = <<rotation, rotation, "STORE", "LOW", "SWAP", "STORE">>
    BY <1>7 DEF At
  <2>2. Operand = y[1]
    BY <1>7, <2>1 DEF At, Operand, BitOperations
  <2>3. At(<<rotation, rotation, "STORE", "LOW", "SWAP", "STORE">>,
           << >>, 1, two.a, two.f)'
    BY <1>2, <1>3, <1>4, <1>7, <2>1, <2>2, Steps DEF At
  <2>4. QED
    BY <2>3 DEF FourTimesLine
<1>8. CASE At(<<rotation, rotation, "STORE", "LOW", "SWAP", "STORE">>,
              << >>, 1, two.a, two.f)
  <2>1. Head(todo) = rotation /\ Tail(todo) = <<rotation, "STORE", "LOW", "SWAP", "STORE">>
    BY <1>8 DEF At
  <2>2. Operand = y[1]
    BY <1>8, <2>1 DEF At, Operand, BitOperations
  <2>3. At(<<rotation, "STORE", "LOW", "SWAP", "STORE">>, << >>, 1, three.a, three.f)'
    BY <1>2, <1>3, <1>4, <1>8, <2>1, <2>2, Steps DEF At
  <2>4. QED
    BY <2>3 DEF FourTimesLine
<1>9. CASE At(<<rotation, "STORE", "LOW", "SWAP", "STORE">>, << >>, 1, three.a, three.f)
  <2>1. Head(todo) = rotation /\ Tail(todo) = <<"STORE", "LOW", "SWAP", "STORE">>
    BY <1>9 DEF At
  <2>2. Operand = y[1]
    BY <1>9, <2>1 DEF At, Operand, BitOperations
  <2>3. At(<<"STORE", "LOW", "SWAP", "STORE">>, << >>, 1, four.a, four.f)'
    BY <1>2, <1>3, <1>4, <1>9, <2>1, <2>2, Steps DEF At
  <2>4. QED
    BY <2>3 DEF FourTimesLine
<1>10. CASE At(<<"STORE", "LOW", "SWAP", "STORE">>, << >>, 1, four.a, four.f)
  <2>1. Head(todo) = "STORE" /\ Tail(todo) = <<"LOW", "SWAP", "STORE">>
    BY <1>10 DEF At
  <2>2. four.a \in Byte
    BY <1>2, <1>10 DEF At, TypeInv
  <2>3. Append(out, a) = <<four.a>>
    BY <1>10, <2>2, AppendOne DEF At
  <2>4. At(<<"LOW", "SWAP", "STORE">>, <<four.a>>, 1, four.a, four.f)'
    BY <1>2, <1>10, <2>1, <2>3, Steps DEF At
  <2>5. QED
    BY <2>4 DEF FourTimesLine
<1>11. CASE At(<<"LOW", "SWAP", "STORE">>, <<four.a>>, 1, four.a, four.f)
  <2>1. Head(todo) = "LOW" /\ Tail(todo) = <<"SWAP", "STORE">>
    BY <1>11 DEF At
  <2>2. At(<<"SWAP", "STORE">>, <<four.a>>, 1, x[1], four.f)'
    BY <1>2, <1>4, <1>11, <2>1, Steps DEF At, Part
  <2>3. QED
    BY <2>2 DEF FourTimesLine
<1>12. CASE At(<<"SWAP", "STORE">>, <<four.a>>, 1, x[1], four.f)
  <2>1. Head(todo) = "SWAP" /\ Tail(todo) = <<"STORE">>
    BY <1>12 DEF At
  <2>2. Operand = y[1]
    BY <1>12, <2>1 DEF At, Operand
  <2>3. At(<<"STORE">>, <<four.a>>, 1, swapped.a, swapped.f)'
    BY <1>2, <1>3, <1>4, <1>12, <2>1, <2>2, Steps DEF At
  <2>4. QED
    BY <2>3 DEF FourTimesLine
<1>13. CASE At(<<"STORE">>, <<four.a>>, 1, swapped.a, swapped.f)
  <2>1. Head(todo) = "STORE" /\ Tail(todo) = << >>
    BY <1>13 DEF At
  <2>2. four.a \in Byte /\ swapped.a \in Byte
    BY <1>2, <1>13 DEF At, TypeInv
  <2>3. Append(out, a) = <<four.a, swapped.a>>
    BY <1>13, <2>2, AppendTwo DEF At
  <2>4. At(<< >>, <<four.a, swapped.a>>, 1, swapped.a, swapped.f)'
    BY <1>2, <1>13, <2>1, <2>3, Steps DEF At
  <2>5. QED
    BY <2>4 DEF FourTimesLine
<1>14. CASE At(<< >>, <<four.a, swapped.a>>, 1, swapped.a, swapped.f)
  BY <1>2, <1>14, Steps DEF At
<1>15. QED
  BY <1>1, <1>5, <1>6, <1>7, <1>8, <1>9, <1>10, <1>11, <1>12, <1>13, <1>14 DEF FourTimesLine

LEMMA FourTimesStep ==
  ASSUME NEW rotation, rotation \notin {"LOW", "HIGH", "STORE"} \cup BitOperations,
         TypeInv, Next, FourTimesRun(rotation)
  PROVE  FourTimesRun(rotation)'
<1> DEFINE one     == Apply(rotation, x[1], y[1], Initially)
           two     == Apply(rotation, one.a, y[1], one.f)
           three   == Apply(rotation, two.a, y[1], two.f)
           four    == Apply(rotation, three.a, y[1], three.f)
           swapped == Apply("SWAP", x[1], y[1], four.f)
<1>1. FourTimesLine(rotation, one, two, three, four, swapped)
  BY DEF FourTimesRun
<1>2. x' = x /\ y' = y
  BY Steps
<1>3. one' = one /\ two' = two /\ three' = three /\ four' = four /\ swapped' = swapped
  BY <1>2
<1>4. FourTimesLine(rotation, one, two, three, four, swapped)'
  <2> HIDE DEF one, two, three, four, swapped
  <2> QED
    BY <1>1, <1>3, FourTimesLineStep DEF one, two, three, four, swapped
<1>5. QED
  BY <1>4 DEF FourTimesRun

(* The complement and one more, and back.                                  *)
NegateLine(inverted, negated, less, restored) ==
  \/ At(<<"LOW", "CPL", "INC", "STORE", "DEC", "CPL", "STORE">>, << >>, 1, a, Initially)
  \/ At(<<"CPL", "INC", "STORE", "DEC", "CPL", "STORE">>, << >>, 1, x[1], Initially)
  \/ At(<<"INC", "STORE", "DEC", "CPL", "STORE">>, << >>, 1, inverted.a, inverted.f)
  \/ At(<<"STORE", "DEC", "CPL", "STORE">>, << >>, 1, negated.a, negated.f)
  \/ At(<<"DEC", "CPL", "STORE">>, <<negated.a>>, 1, negated.a, negated.f)
  \/ At(<<"CPL", "STORE">>, <<negated.a>>, 1, less.a, less.f)
  \/ At(<<"STORE">>, <<negated.a>>, 1, restored.a, restored.f)
  \/ At(<< >>, <<negated.a, restored.a>>, 1, restored.a, restored.f)

NegateRun ==
  LET inverted == Apply("CPL", x[1], y[1], Initially)
      negated  == Apply("INC", inverted.a, y[1], inverted.f)
      less     == Apply("DEC", negated.a, y[1], negated.f)
      restored == Apply("CPL", less.a, y[1], less.f)
  IN  NegateLine(inverted, negated, less, restored)

LEMMA NegateLineStep ==
  ASSUME NEW inverted, NEW negated, NEW less, NEW restored
  PROVE  /\ TypeInv /\ Next
         /\ inverted = Apply("CPL", x[1], y[1], Initially)
         /\ negated = Apply("INC", inverted.a, y[1], inverted.f)
         /\ less = Apply("DEC", negated.a, y[1], negated.f)
         /\ restored = Apply("CPL", less.a, y[1], less.f)
         /\ NegateLine(inverted, negated, less, restored)
         => NegateLine(inverted, negated, less, restored)'
<1>1. SUFFICES ASSUME TypeInv, Next,
                      inverted = Apply("CPL", x[1], y[1], Initially),
                      negated = Apply("INC", inverted.a, y[1], inverted.f),
                      less = Apply("DEC", negated.a, y[1], negated.f),
                      restored = Apply("CPL", less.a, y[1], less.f),
                      NegateLine(inverted, negated, less, restored)
               PROVE  NegateLine(inverted, negated, less, restored)'
  OBVIOUS
<1>2. TypeInv /\ Next
  BY <1>1
<1>3. /\ inverted = Apply("CPL", x[1], y[1], Initially)
      /\ negated = Apply("INC", inverted.a, y[1], inverted.f)
      /\ less = Apply("DEC", negated.a, y[1], negated.f)
      /\ restored = Apply("CPL", less.a, y[1], less.f)
  BY <1>1
<1>4. x' = x /\ y' = y
  BY <1>2, Steps
<1>5. CASE At(<<"LOW", "CPL", "INC", "STORE", "DEC", "CPL", "STORE">>,
              << >>, 1, a, Initially)
  <2>1. Head(todo) = "LOW" /\ Tail(todo) = <<"CPL", "INC", "STORE", "DEC", "CPL", "STORE">>
    BY <1>5 DEF At
  <2>2. At(<<"CPL", "INC", "STORE", "DEC", "CPL", "STORE">>, << >>, 1, x[1], Initially)'
    BY <1>2, <1>4, <1>5, <2>1, Steps DEF At, Part
  <2>3. QED
    BY <2>2 DEF NegateLine
<1>6. CASE At(<<"CPL", "INC", "STORE", "DEC", "CPL", "STORE">>, << >>, 1, x[1], Initially)
  <2>1. Head(todo) = "CPL" /\ Tail(todo) = <<"INC", "STORE", "DEC", "CPL", "STORE">>
    BY <1>6 DEF At
  <2>2. Operand = y[1]
    BY <1>6, <2>1 DEF At, Operand
  <2>3. At(<<"INC", "STORE", "DEC", "CPL", "STORE">>, << >>, 1, inverted.a, inverted.f)'
    BY <1>2, <1>3, <1>4, <1>6, <2>1, <2>2, Steps DEF At
  <2>4. QED
    BY <2>3 DEF NegateLine
<1>7. CASE At(<<"INC", "STORE", "DEC", "CPL", "STORE">>, << >>, 1, inverted.a, inverted.f)
  <2>1. Head(todo) = "INC" /\ Tail(todo) = <<"STORE", "DEC", "CPL", "STORE">>
    BY <1>7 DEF At
  <2>2. Operand = y[1]
    BY <1>7, <2>1 DEF At, Operand
  <2>3. At(<<"STORE", "DEC", "CPL", "STORE">>, << >>, 1, negated.a, negated.f)'
    BY <1>2, <1>3, <1>4, <1>7, <2>1, <2>2, Steps DEF At
  <2>4. QED
    BY <2>3 DEF NegateLine
<1>8. CASE At(<<"STORE", "DEC", "CPL", "STORE">>, << >>, 1, negated.a, negated.f)
  <2>1. Head(todo) = "STORE" /\ Tail(todo) = <<"DEC", "CPL", "STORE">>
    BY <1>8 DEF At
  <2>2. negated.a \in Byte
    BY <1>2, <1>8 DEF At, TypeInv
  <2>3. Append(out, a) = <<negated.a>>
    BY <1>8, <2>2, AppendOne DEF At
  <2>4. At(<<"DEC", "CPL", "STORE">>, <<negated.a>>, 1, negated.a, negated.f)'
    BY <1>2, <1>8, <2>1, <2>3, Steps DEF At
  <2>5. QED
    BY <2>4 DEF NegateLine
<1>9. CASE At(<<"DEC", "CPL", "STORE">>, <<negated.a>>, 1, negated.a, negated.f)
  <2>1. Head(todo) = "DEC" /\ Tail(todo) = <<"CPL", "STORE">>
    BY <1>9 DEF At
  <2>2. Operand = y[1]
    BY <1>9, <2>1 DEF At, Operand
  <2>3. At(<<"CPL", "STORE">>, <<negated.a>>, 1, less.a, less.f)'
    BY <1>2, <1>3, <1>4, <1>9, <2>1, <2>2, Steps DEF At
  <2>4. QED
    BY <2>3 DEF NegateLine
<1>10. CASE At(<<"CPL", "STORE">>, <<negated.a>>, 1, less.a, less.f)
  <2>1. Head(todo) = "CPL" /\ Tail(todo) = <<"STORE">>
    BY <1>10 DEF At
  <2>2. Operand = y[1]
    BY <1>10, <2>1 DEF At, Operand
  <2>3. At(<<"STORE">>, <<negated.a>>, 1, restored.a, restored.f)'
    BY <1>2, <1>3, <1>4, <1>10, <2>1, <2>2, Steps DEF At
  <2>4. QED
    BY <2>3 DEF NegateLine
<1>11. CASE At(<<"STORE">>, <<negated.a>>, 1, restored.a, restored.f)
  <2>1. Head(todo) = "STORE" /\ Tail(todo) = << >>
    BY <1>11 DEF At
  <2>2. negated.a \in Byte /\ restored.a \in Byte
    BY <1>2, <1>11 DEF At, TypeInv
  <2>3. Append(out, a) = <<negated.a, restored.a>>
    BY <1>11, <2>2, AppendTwo DEF At
  <2>4. At(<< >>, <<negated.a, restored.a>>, 1, restored.a, restored.f)'
    BY <1>2, <1>11, <2>1, <2>3, Steps DEF At
  <2>5. QED
    BY <2>4 DEF NegateLine
<1>12. CASE At(<< >>, <<negated.a, restored.a>>, 1, restored.a, restored.f)
  BY <1>2, <1>12, Steps DEF At
<1>13. QED
  BY <1>1, <1>5, <1>6, <1>7, <1>8, <1>9, <1>10, <1>11, <1>12 DEF NegateLine

LEMMA NegateStep ==
  ASSUME TypeInv, Next, NegateRun
  PROVE  NegateRun'
<1> DEFINE inverted == Apply("CPL", x[1], y[1], Initially)
           negated  == Apply("INC", inverted.a, y[1], inverted.f)
           less     == Apply("DEC", negated.a, y[1], negated.f)
           restored == Apply("CPL", less.a, y[1], less.f)
<1>1. NegateLine(inverted, negated, less, restored)
  BY DEF NegateRun
<1>2. x' = x /\ y' = y
  BY Steps
<1>3. inverted' = inverted /\ negated' = negated /\ less' = less /\ restored' = restored
  BY <1>2
<1>4. NegateLine(inverted, negated, less, restored)'
  <2> HIDE DEF inverted, negated, less, restored
  <2> QED
    BY <1>1, <1>3, NegateLineStep DEF inverted, negated, less, restored
<1>5. QED
  BY <1>4 DEF NegateRun

(* The three operations on the bits of two bytes.                          *)
LogicLine(both, either, odd) ==
  \/ At(<<"LOW", "AND", "STORE", "LOW", "OR", "STORE", "LOW", "XOR", "STORE">>,
        << >>, 1, a, Initially)
  \/ At(<<"AND", "STORE", "LOW", "OR", "STORE", "LOW", "XOR", "STORE">>,
        << >>, 1, x[1], Initially)
  \/ At(<<"STORE", "LOW", "OR", "STORE", "LOW", "XOR", "STORE">>,
        << >>, 1, both.a, both.f)
  \/ At(<<"LOW", "OR", "STORE", "LOW", "XOR", "STORE">>, <<both.a>>, 1, both.a, both.f)
  \/ At(<<"OR", "STORE", "LOW", "XOR", "STORE">>, <<both.a>>, 1, x[1], both.f)
  \/ At(<<"STORE", "LOW", "XOR", "STORE">>, <<both.a>>, 1, either.a, either.f)
  \/ At(<<"LOW", "XOR", "STORE">>, <<both.a, either.a>>, 1, either.a, either.f)
  \/ At(<<"XOR", "STORE">>, <<both.a, either.a>>, 1, x[1], either.f)
  \/ At(<<"STORE">>, <<both.a, either.a>>, 1, odd.a, odd.f)
  \/ At(<< >>, <<both.a, either.a, odd.a>>, 1, odd.a, odd.f)

LogicRun ==
  LET both   == Apply("AND", x[1], y[1], Initially)
      either == Apply("OR", x[1], y[1], both.f)
      odd    == Apply("XOR", x[1], y[1], either.f)
  IN  LogicLine(both, either, odd)

LEMMA LogicLineStep ==
  ASSUME NEW both, NEW either, NEW odd
  PROVE  /\ TypeInv /\ Next
         /\ both = Apply("AND", x[1], y[1], Initially)
         /\ either = Apply("OR", x[1], y[1], both.f)
         /\ odd = Apply("XOR", x[1], y[1], either.f)
         /\ LogicLine(both, either, odd)
         => LogicLine(both, either, odd)'
<1>1. SUFFICES ASSUME TypeInv, Next,
                      both = Apply("AND", x[1], y[1], Initially),
                      either = Apply("OR", x[1], y[1], both.f),
                      odd = Apply("XOR", x[1], y[1], either.f),
                      LogicLine(both, either, odd)
               PROVE  LogicLine(both, either, odd)'
  OBVIOUS
<1>2. TypeInv /\ Next
  BY <1>1
<1>3. /\ both = Apply("AND", x[1], y[1], Initially)
      /\ either = Apply("OR", x[1], y[1], both.f)
      /\ odd = Apply("XOR", x[1], y[1], either.f)
  BY <1>1
<1>4. x' = x /\ y' = y
  BY <1>2, Steps
<1>5. CASE At(<<"LOW", "AND", "STORE", "LOW", "OR", "STORE", "LOW", "XOR", "STORE">>,
              << >>, 1, a, Initially)
  <2>1. Head(todo) = "LOW" /\ Tail(todo) = <<"AND", "STORE", "LOW", "OR", "STORE", "LOW", "XOR", "STORE">>
    BY <1>5 DEF At
  <2>2. At(<<"AND", "STORE", "LOW", "OR", "STORE", "LOW", "XOR", "STORE">>,
           << >>, 1, x[1], Initially)'
    BY <1>2, <1>4, <1>5, <2>1, Steps DEF At, Part
  <2>3. QED
    BY <2>2 DEF LogicLine
<1>6. CASE At(<<"AND", "STORE", "LOW", "OR", "STORE", "LOW", "XOR", "STORE">>,
              << >>, 1, x[1], Initially)
  <2>1. Head(todo) = "AND" /\ Tail(todo) = <<"STORE", "LOW", "OR", "STORE", "LOW", "XOR", "STORE">>
    BY <1>6 DEF At
  <2>2. Operand = y[1]
    BY <1>6, <2>1 DEF At, Operand
  <2>3. At(<<"STORE", "LOW", "OR", "STORE", "LOW", "XOR", "STORE">>,
           << >>, 1, both.a, both.f)'
    BY <1>2, <1>3, <1>4, <1>6, <2>1, <2>2, Steps DEF At
  <2>4. QED
    BY <2>3 DEF LogicLine
<1>7. CASE At(<<"STORE", "LOW", "OR", "STORE", "LOW", "XOR", "STORE">>,
              << >>, 1, both.a, both.f)
  <2>1. Head(todo) = "STORE" /\ Tail(todo) = <<"LOW", "OR", "STORE", "LOW", "XOR", "STORE">>
    BY <1>7 DEF At
  <2>2. both.a \in Byte
    BY <1>2, <1>7 DEF At, TypeInv
  <2>3. Append(out, a) = <<both.a>>
    BY <1>7, <2>2, AppendOne DEF At
  <2>4. At(<<"LOW", "OR", "STORE", "LOW", "XOR", "STORE">>, <<both.a>>, 1, both.a, both.f)'
    BY <1>2, <1>7, <2>1, <2>3, Steps DEF At
  <2>5. QED
    BY <2>4 DEF LogicLine
<1>8. CASE At(<<"LOW", "OR", "STORE", "LOW", "XOR", "STORE">>,
              <<both.a>>, 1, both.a, both.f)
  <2>1. Head(todo) = "LOW" /\ Tail(todo) = <<"OR", "STORE", "LOW", "XOR", "STORE">>
    BY <1>8 DEF At
  <2>2. At(<<"OR", "STORE", "LOW", "XOR", "STORE">>, <<both.a>>, 1, x[1], both.f)'
    BY <1>2, <1>4, <1>8, <2>1, Steps DEF At, Part
  <2>3. QED
    BY <2>2 DEF LogicLine
<1>9. CASE At(<<"OR", "STORE", "LOW", "XOR", "STORE">>, <<both.a>>, 1, x[1], both.f)
  <2>1. Head(todo) = "OR" /\ Tail(todo) = <<"STORE", "LOW", "XOR", "STORE">>
    BY <1>9 DEF At
  <2>2. Operand = y[1]
    BY <1>9, <2>1 DEF At, Operand
  <2>3. At(<<"STORE", "LOW", "XOR", "STORE">>, <<both.a>>, 1, either.a, either.f)'
    BY <1>2, <1>3, <1>4, <1>9, <2>1, <2>2, Steps DEF At
  <2>4. QED
    BY <2>3 DEF LogicLine
<1>10. CASE At(<<"STORE", "LOW", "XOR", "STORE">>, <<both.a>>, 1, either.a, either.f)
  <2>1. Head(todo) = "STORE" /\ Tail(todo) = <<"LOW", "XOR", "STORE">>
    BY <1>10 DEF At
  <2>2. both.a \in Byte /\ either.a \in Byte
    BY <1>2, <1>10 DEF At, TypeInv
  <2>3. Append(out, a) = <<both.a, either.a>>
    BY <1>10, <2>2, AppendTwo DEF At
  <2>4. At(<<"LOW", "XOR", "STORE">>, <<both.a, either.a>>, 1, either.a, either.f)'
    BY <1>2, <1>10, <2>1, <2>3, Steps DEF At
  <2>5. QED
    BY <2>4 DEF LogicLine
<1>11. CASE At(<<"LOW", "XOR", "STORE">>, <<both.a, either.a>>, 1, either.a, either.f)
  <2>1. Head(todo) = "LOW" /\ Tail(todo) = <<"XOR", "STORE">>
    BY <1>11 DEF At
  <2>2. At(<<"XOR", "STORE">>, <<both.a, either.a>>, 1, x[1], either.f)'
    BY <1>2, <1>4, <1>11, <2>1, Steps DEF At, Part
  <2>3. QED
    BY <2>2 DEF LogicLine
<1>12. CASE At(<<"XOR", "STORE">>, <<both.a, either.a>>, 1, x[1], either.f)
  <2>1. Head(todo) = "XOR" /\ Tail(todo) = <<"STORE">>
    BY <1>12 DEF At
  <2>2. Operand = y[1]
    BY <1>12, <2>1 DEF At, Operand
  <2>3. At(<<"STORE">>, <<both.a, either.a>>, 1, odd.a, odd.f)'
    BY <1>2, <1>3, <1>4, <1>12, <2>1, <2>2, Steps DEF At
  <2>4. QED
    BY <2>3 DEF LogicLine
<1>13. CASE At(<<"STORE">>, <<both.a, either.a>>, 1, odd.a, odd.f)
  <2>1. Head(todo) = "STORE" /\ Tail(todo) = << >>
    BY <1>13 DEF At
  <2>2. both.a \in Byte /\ either.a \in Byte /\ odd.a \in Byte
    BY <1>2, <1>13 DEF At, TypeInv
  <2>3. Append(out, a) = <<both.a, either.a, odd.a>>
    BY <1>13, <2>2, AppendThree DEF At
  <2>4. At(<< >>, <<both.a, either.a, odd.a>>, 1, odd.a, odd.f)'
    BY <1>2, <1>13, <2>1, <2>3, Steps DEF At
  <2>5. QED
    BY <2>4 DEF LogicLine
<1>14. CASE At(<< >>, <<both.a, either.a, odd.a>>, 1, odd.a, odd.f)
  BY <1>2, <1>14, Steps DEF At
<1>15. QED
  BY <1>1, <1>5, <1>6, <1>7, <1>8, <1>9, <1>10, <1>11, <1>12, <1>13, <1>14 DEF LogicLine

LEMMA LogicStep ==
  ASSUME TypeInv, Next, LogicRun
  PROVE  LogicRun'
<1> DEFINE both   == Apply("AND", x[1], y[1], Initially)
           either == Apply("OR", x[1], y[1], both.f)
           odd    == Apply("XOR", x[1], y[1], either.f)
<1>1. LogicLine(both, either, odd)
  BY DEF LogicRun
<1>2. x' = x /\ y' = y
  BY Steps
<1>3. both' = both /\ either' = either /\ odd' = odd
  BY <1>2
<1>4. LogicLine(both, either, odd)'
  <2> HIDE DEF both, either, odd
  <2> QED
    BY <1>1, <1>3, LogicLineStep DEF both, either, odd
<1>5. QED
  BY <1>4 DEF LogicRun

(* A bit set and looked at, reset and looked at.                           *)
BitsLine(set, seen, reset, unseen) ==
  \/ At(<<"LOW", "SET", "BIT", "STORE", "RES", "BIT", "STORE">>, << >>, 1, a, Initially)
  \/ At(<<"SET", "BIT", "STORE", "RES", "BIT", "STORE">>, << >>, 1, x[1], Initially)
  \/ At(<<"BIT", "STORE", "RES", "BIT", "STORE">>, << >>, 1, set.a, set.f)
  \/ At(<<"STORE", "RES", "BIT", "STORE">>, << >>, 1, seen.a, seen.f)
  \/ At(<<"RES", "BIT", "STORE">>, <<seen.a>>, 1, seen.a, seen.f)
  \/ At(<<"BIT", "STORE">>, <<seen.a>>, 1, reset.a, reset.f)
  \/ At(<<"STORE">>, <<seen.a>>, 1, unseen.a, unseen.f)
  \/ At(<< >>, <<seen.a, unseen.a>>, 1, unseen.a, unseen.f)

BitsRun ==
  LET set    == Apply("SET", x[1], y[1] % 8, Initially)
      seen   == Apply("BIT", set.a, y[1] % 8, set.f)
      reset  == Apply("RES", seen.a, y[1] % 8, seen.f)
      unseen == Apply("BIT", reset.a, y[1] % 8, reset.f)
  IN  BitsLine(set, seen, reset, unseen)

LEMMA BitsLineStep ==
  ASSUME NEW set, NEW seen, NEW reset, NEW unseen
  PROVE  /\ TypeInv /\ Next
         /\ set = Apply("SET", x[1], y[1] % 8, Initially)
         /\ seen = Apply("BIT", set.a, y[1] % 8, set.f)
         /\ reset = Apply("RES", seen.a, y[1] % 8, seen.f)
         /\ unseen = Apply("BIT", reset.a, y[1] % 8, reset.f)
         /\ BitsLine(set, seen, reset, unseen)
         => BitsLine(set, seen, reset, unseen)'
<1>1. SUFFICES ASSUME TypeInv, Next,
                      set = Apply("SET", x[1], y[1] % 8, Initially),
                      seen = Apply("BIT", set.a, y[1] % 8, set.f),
                      reset = Apply("RES", seen.a, y[1] % 8, seen.f),
                      unseen = Apply("BIT", reset.a, y[1] % 8, reset.f),
                      BitsLine(set, seen, reset, unseen)
               PROVE  BitsLine(set, seen, reset, unseen)'
  OBVIOUS
<1>2. TypeInv /\ Next
  BY <1>1
<1>3. /\ set = Apply("SET", x[1], y[1] % 8, Initially)
      /\ seen = Apply("BIT", set.a, y[1] % 8, set.f)
      /\ reset = Apply("RES", seen.a, y[1] % 8, seen.f)
      /\ unseen = Apply("BIT", reset.a, y[1] % 8, reset.f)
  BY <1>1
<1>4. x' = x /\ y' = y
  BY <1>2, Steps
<1>5. CASE At(<<"LOW", "SET", "BIT", "STORE", "RES", "BIT", "STORE">>,
              << >>, 1, a, Initially)
  <2>1. Head(todo) = "LOW" /\ Tail(todo) = <<"SET", "BIT", "STORE", "RES", "BIT", "STORE">>
    BY <1>5 DEF At
  <2>2. At(<<"SET", "BIT", "STORE", "RES", "BIT", "STORE">>, << >>, 1, x[1], Initially)'
    BY <1>2, <1>4, <1>5, <2>1, Steps DEF At, Part
  <2>3. QED
    BY <2>2 DEF BitsLine
<1>6. CASE At(<<"SET", "BIT", "STORE", "RES", "BIT", "STORE">>, << >>, 1, x[1], Initially)
  <2>1. Head(todo) = "SET" /\ Tail(todo) = <<"BIT", "STORE", "RES", "BIT", "STORE">>
    BY <1>6 DEF At
  <2>2. Operand = y[1] % 8
    BY <1>6, <2>1 DEF At, Operand
  <2>3. At(<<"BIT", "STORE", "RES", "BIT", "STORE">>, << >>, 1, set.a, set.f)'
    BY <1>2, <1>3, <1>4, <1>6, <2>1, <2>2, Steps DEF At
  <2>4. QED
    BY <2>3 DEF BitsLine
<1>7. CASE At(<<"BIT", "STORE", "RES", "BIT", "STORE">>, << >>, 1, set.a, set.f)
  <2>1. Head(todo) = "BIT" /\ Tail(todo) = <<"STORE", "RES", "BIT", "STORE">>
    BY <1>7 DEF At
  <2>2. Operand = y[1] % 8
    BY <1>7, <2>1 DEF At, Operand
  <2>3. At(<<"STORE", "RES", "BIT", "STORE">>, << >>, 1, seen.a, seen.f)'
    BY <1>2, <1>3, <1>4, <1>7, <2>1, <2>2, Steps DEF At
  <2>4. QED
    BY <2>3 DEF BitsLine
<1>8. CASE At(<<"STORE", "RES", "BIT", "STORE">>, << >>, 1, seen.a, seen.f)
  <2>1. Head(todo) = "STORE" /\ Tail(todo) = <<"RES", "BIT", "STORE">>
    BY <1>8 DEF At
  <2>2. seen.a \in Byte
    BY <1>2, <1>8 DEF At, TypeInv
  <2>3. Append(out, a) = <<seen.a>>
    BY <1>8, <2>2, AppendOne DEF At
  <2>4. At(<<"RES", "BIT", "STORE">>, <<seen.a>>, 1, seen.a, seen.f)'
    BY <1>2, <1>8, <2>1, <2>3, Steps DEF At
  <2>5. QED
    BY <2>4 DEF BitsLine
<1>9. CASE At(<<"RES", "BIT", "STORE">>, <<seen.a>>, 1, seen.a, seen.f)
  <2>1. Head(todo) = "RES" /\ Tail(todo) = <<"BIT", "STORE">>
    BY <1>9 DEF At
  <2>2. Operand = y[1] % 8
    BY <1>9, <2>1 DEF At, Operand
  <2>3. At(<<"BIT", "STORE">>, <<seen.a>>, 1, reset.a, reset.f)'
    BY <1>2, <1>3, <1>4, <1>9, <2>1, <2>2, Steps DEF At
  <2>4. QED
    BY <2>3 DEF BitsLine
<1>10. CASE At(<<"BIT", "STORE">>, <<seen.a>>, 1, reset.a, reset.f)
  <2>1. Head(todo) = "BIT" /\ Tail(todo) = <<"STORE">>
    BY <1>10 DEF At
  <2>2. Operand = y[1] % 8
    BY <1>10, <2>1 DEF At, Operand
  <2>3. At(<<"STORE">>, <<seen.a>>, 1, unseen.a, unseen.f)'
    BY <1>2, <1>3, <1>4, <1>10, <2>1, <2>2, Steps DEF At
  <2>4. QED
    BY <2>3 DEF BitsLine
<1>11. CASE At(<<"STORE">>, <<seen.a>>, 1, unseen.a, unseen.f)
  <2>1. Head(todo) = "STORE" /\ Tail(todo) = << >>
    BY <1>11 DEF At
  <2>2. seen.a \in Byte /\ unseen.a \in Byte
    BY <1>2, <1>11 DEF At, TypeInv
  <2>3. Append(out, a) = <<seen.a, unseen.a>>
    BY <1>11, <2>2, AppendTwo DEF At
  <2>4. At(<< >>, <<seen.a, unseen.a>>, 1, unseen.a, unseen.f)'
    BY <1>2, <1>11, <2>1, <2>3, Steps DEF At
  <2>5. QED
    BY <2>4 DEF BitsLine
<1>12. CASE At(<< >>, <<seen.a, unseen.a>>, 1, unseen.a, unseen.f)
  BY <1>2, <1>12, Steps DEF At
<1>13. QED
  BY <1>1, <1>5, <1>6, <1>7, <1>8, <1>9, <1>10, <1>11, <1>12 DEF BitsLine

LEMMA BitsStep ==
  ASSUME TypeInv, Next, BitsRun
  PROVE  BitsRun'
<1> DEFINE set    == Apply("SET", x[1], y[1] % 8, Initially)
           seen   == Apply("BIT", set.a, y[1] % 8, set.f)
           reset  == Apply("RES", seen.a, y[1] % 8, seen.f)
           unseen == Apply("BIT", reset.a, y[1] % 8, reset.f)
<1>1. BitsLine(set, seen, reset, unseen)
  BY DEF BitsRun
<1>2. x' = x /\ y' = y
  BY Steps
<1>3. set' = set /\ seen' = seen /\ reset' = reset /\ unseen' = unseen
  BY <1>2
<1>4. BitsLine(set, seen, reset, unseen)'
  <2> HIDE DEF set, seen, reset, unseen
  <2> QED
    BY <1>1, <1>3, BitsLineStep DEF set, seen, reset, unseen
<1>5. QED
  BY <1>4 DEF BitsRun

-----------------------------------------------------------------------------
(* Where each program ends. *)

LEMMA BytewiseEnd ==
  ASSUME NEW load, NEW operation, NEW reload, NEW other, NEW before,
         BytewiseRun(load, operation, reload, other, before), todo = << >>
  PROVE  \E one, two :
           /\ one = One(operation, Part(load), before)
           /\ two = One(other, Part(reload), one.f)
           /\ out = <<one.a, two.a>> /\ a = two.a /\ f = two.f
BY DEF BytewiseRun, At

LEMMA ClearedEnd ==
  ASSUME NEW operation, NEW other, ClearedRun(operation, other), todo = << >>
  PROVE  \E one, two :
           /\ one = One(operation, 1, CarryClear)
           /\ two = One(other, 2, one.f)
           /\ out = <<one.a, two.a>> /\ a = two.a /\ f = two.f
<1>1. BytewiseRun("LOW", operation, "HIGH", other, CarryClear)
  BY DEF ClearedRun, At, Cleared
<1>2. QED
  BY <1>1, BytewiseEnd DEF Part

LEMMA CorrectedEnd ==
  ASSUME NEW operation, NEW other, CorrectedRun(operation, other), todo = << >>
  PROVE  \E one, low, two, high :
           /\ one = Apply(operation, x[1], y[1], Initially)
           /\ low = Apply("DAA", one.a, y[1], one.f)
           /\ two = Apply(other, x[2], y[2], low.f)
           /\ high = Apply("DAA", two.a, y[2], two.f)
           /\ out = <<low.a, high.a>> /\ f = high.f
<1> DEFINE one  == Apply(operation, x[1], y[1], Initially)
           low  == Apply("DAA", one.a, y[1], one.f)
           two  == Apply(other, x[2], y[2], low.f)
           high == Apply("DAA", two.a, y[2], two.f)
<1>1. CorrectedLine(operation, other, one, low, two, high)
  BY DEF CorrectedRun
<1> HIDE DEF one, low, two, high
<1>2. out = <<low.a, high.a>> /\ f = high.f
  BY <1>1 DEF CorrectedLine, At
<1>3. QED
  BY <1>2 DEF one, low, two, high

-----------------------------------------------------------------------------
(* The results, in the programs' own terms. *)

LEMMA ByteParts ==
  ASSUME TypeInv
  PROVE  x[1] \in Byte /\ x[2] \in Byte /\ y[1] \in Byte /\ y[2] \in Byte
BY DEF TypeInv

LEMMA WordParts ==
  /\ \A b : Word(b) = WordOf(b[1], b[2])
  /\ \A b, c : Word(<<b, c>>) = WordOf(b, c)
BY DEF Word, WordOf

(* The sum of two words. *)
LEMMA SumsAdd ==
  ASSUME TypeInv, NEW one, NEW two, NEW k0, k0 = 0,
         SumOf(one, x[1], y[1], k0), two = Apply("ADC", x[2], y[2], one.f),
         out = <<one.a, two.a>>, f = two.f
  PROVE  /\ Word(out) = AddHl(Word(x), Word(y), f).hl
         /\ f = AddHl(Word(x), Word(y), f).f
<1>1. x[1] \in Byte /\ x[2] \in Byte /\ y[1] \in Byte /\ y[2] \in Byte
  BY ByteParts
<1>2. SumOf(two, x[2], y[2], Number(one.f.c))
  BY <1>1, AdcIsSum
<1>3. two.f \in Flags
  BY DEF TypeInv
<1>4. WordsAdded(one, two, WordOf(x[1], x[2]), WordOf(y[1], y[2]))
  BY <1>1, <1>2, <1>3, SumOfWords
<1>5. /\ Word(x) = WordOf(x[1], x[2]) /\ Word(y) = WordOf(y[1], y[2])
      /\ Word(out) = WordOf(one.a, two.a)
  BY WordParts
<1>6. QED
  BY <1>4, <1>5 DEF WordsAdded

(* The difference of two words. *)
LEMMA DifferencesSubtract ==
  ASSUME TypeInv, NEW one, NEW two,
         BorrowOf(one, x[1], y[1]), two = Apply("SBC", x[2], y[2], one.f),
         a = two.a, f = two.f
  PROVE  /\ f.c = (Word(x) < Word(y))
         /\ f.h = (Word(x) % 4096 < Word(y) % 4096)
         /\ a = ((Word(x) - Word(y)) % 65536) \div 256
         /\ (x[1] - y[1]) % 256 = (Word(x) - Word(y)) % 256
<1>1. x[1] \in Byte /\ x[2] \in Byte /\ y[1] \in Byte /\ y[2] \in Byte
  BY ByteParts
<1>2. DifferenceOf(two, x[2], y[2], Number(one.f.c))
  BY <1>1, SbcIsDifference
<1>3. WordsSubtracted(two, WordOf(x[1], x[2]), WordOf(y[1], y[2]))
  BY <1>1, <1>2, DifferenceOfWords
<1>4. Word(x) = WordOf(x[1], x[2]) /\ Word(y) = WordOf(y[1], y[2])
  BY WordParts
<1>5. (x[1] - y[1]) % 256 = (WordOf(x[1], x[2]) - WordOf(y[1], y[2])) % 256
  <2> DEFINE l1 == x[1]
             h1 == x[2]
             l2 == y[1]
             h2 == y[2]
  <2>1. l1 \in Byte /\ h1 \in Byte /\ l2 \in Byte /\ h2 \in Byte
    BY <1>1
  <2> HIDE DEF l1, h1, l2, h2
  <2>2. (l1 - l2) % 256 = (WordOf(l1, h1) - WordOf(l2, h2)) % 256
    BY <2>1 DEF WordOf, Byte
  <2>3. QED
    BY <2>2 DEF l1, l2, h1, h2
<1>6. QED
  BY <1>3, <1>4, <1>5 DEF WordsSubtracted

DecimalInput ==
  /\ x[1] \in DecimalByte /\ x[2] \in DecimalByte
  /\ y[1] \in DecimalByte /\ y[2] \in DecimalByte

LEMMA DigitsOfBytes ==
  ASSUME NEW b, b[1] \in DecimalByte, b[2] \in DecimalByte
  PROVE  Digits(b) = DecimalWord(b[1], b[2])
<1>1. \A v \in DecimalByte : v % 16 \in 0..9 /\ v \div 16 \in 0..9
  BY DEF DecimalByte, Byte
<1>2. QED
  BY <1>1 DEF Digits, DecimalWord, Decimal

LEMMA DecimalSums ==
  ASSUME TypeInv, DecimalInput, CorrectedRun("ADD", "ADC"), todo = << >>
  PROVE  /\ Digits(out) = (Digits(x) + Digits(y)) % 10000
         /\ f.c = (Digits(x) + Digits(y) >= 10000)
<1>1. PICK one, low, two, high :
           /\ one = Apply("ADD", x[1], y[1], Initially)
           /\ low = Apply("DAA", one.a, y[1], one.f)
           /\ two = Apply("ADC", x[2], y[2], low.f)
           /\ high = Apply("DAA", two.a, y[2], two.f)
           /\ out = <<low.a, high.a>> /\ f = high.f
  BY CorrectedEnd
<1>2. /\ x[1] \in Byte /\ x[2] \in Byte /\ y[1] \in Byte /\ y[2] \in Byte
      /\ Initially \in Flags
  BY ByteParts DEF Initially, Flags
<1>3. one.a \in Byte /\ one.f \in Flags
  BY <1>1, <1>2, AccumulatorType DEF AccumulatorOperations, Results
<1>4. low.a \in Byte /\ low.f \in Flags
  BY <1>1, <1>2, <1>3, AccumulatorType DEF AccumulatorOperations, Results
<1>5. two.a \in Byte /\ two.f \in Flags
  BY <1>1, <1>2, <1>4, AccumulatorType DEF AccumulatorOperations, Results
<1> DEFINE k  == Number(low.f.c)
           k0 == 0
<1>6. k0 = 0 /\ k0 \in 0..1 /\ k \in 0..1
  BY DEF Number
<1> HIDE DEF k0
<1>7. SumOf(one, x[1], y[1], k0) /\ SumOf(two, x[2], y[2], k)
  BY <1>1, <1>2, <1>6, AddIsSum, AdcIsSum
<1> HIDE DEF k
<1>8. DecimalCarry(low, Decimal(x[1]) + Decimal(y[1]) + k0)
  BY <1>1, <1>3, <1>6, <1>7, CorrectedSumByte DEF DecimalInput
<1>9. DecimalCarry(high, Decimal(x[2]) + Decimal(y[2]) + k)
  BY <1>1, <1>5, <1>6, <1>7, CorrectedSumByte DEF DecimalInput
<1>10. DecimalCarry(high, Decimal(x[2]) + Decimal(y[2]) + Number(low.f.c))
  BY <1>9 DEF k
<1>11. DecimalsAdded(low, high, DecimalWord(x[1], x[2]), DecimalWord(y[1], y[2]))
  BY <1>6, <1>8, <1>10, SumOfDecimals DEF DecimalInput
<1>12. low.a \in DecimalByte /\ high.a \in DecimalByte
  BY <1>8, <1>9 DEF DecimalCarry
<1>13. /\ Digits(x) = DecimalWord(x[1], x[2]) /\ Digits(y) = DecimalWord(y[1], y[2])
       /\ Digits(out) = DecimalWord(low.a, high.a)
  <2>1. out[1] = low.a /\ out[2] = high.a
    BY <1>1
  <2>2. QED
    BY <1>12, <2>1, DigitsOfBytes DEF DecimalInput
<1>14. f.c = high.f.c
  BY <1>1
<1>15. QED
  BY <1>11, <1>13, <1>14 DEF DecimalsAdded

LEMMA DecimalDifferences ==
  ASSUME TypeInv, DecimalInput, CorrectedRun("SUB", "SBC"), todo = << >>
  PROVE  /\ Digits(out) = (Digits(x) - Digits(y)) % 10000
         /\ f.c = (Digits(x) < Digits(y))
<1>1. PICK one, low, two, high :
           /\ one = Apply("SUB", x[1], y[1], Initially)
           /\ low = Apply("DAA", one.a, y[1], one.f)
           /\ two = Apply("SBC", x[2], y[2], low.f)
           /\ high = Apply("DAA", two.a, y[2], two.f)
           /\ out = <<low.a, high.a>> /\ f = high.f
  BY CorrectedEnd
<1>2. /\ x[1] \in Byte /\ x[2] \in Byte /\ y[1] \in Byte /\ y[2] \in Byte
      /\ Initially \in Flags
  BY ByteParts DEF Initially, Flags
<1>3. one.a \in Byte /\ one.f \in Flags
  BY <1>1, <1>2, AccumulatorType DEF AccumulatorOperations, Results
<1>4. low.a \in Byte /\ low.f \in Flags
  BY <1>1, <1>2, <1>3, AccumulatorType DEF AccumulatorOperations, Results
<1>5. two.a \in Byte /\ two.f \in Flags
  BY <1>1, <1>2, <1>4, AccumulatorType DEF AccumulatorOperations, Results
<1> DEFINE k  == Number(low.f.c)
           k0 == 0
<1>6. k0 = 0 /\ k0 \in 0..1 /\ k \in 0..1
  BY DEF Number
<1> HIDE DEF k0
<1>7. DifferenceOf(one, x[1], y[1], k0) /\ DifferenceOf(two, x[2], y[2], k)
  BY <1>1, <1>2, <1>6, SubIsDifference, SbcIsDifference
<1> HIDE DEF k
<1>8. DecimalBorrow(low, Decimal(x[1]) - Decimal(y[1]) - k0)
  BY <1>1, <1>3, <1>6, <1>7, CorrectedDifferenceByte DEF DecimalInput
<1>9. DecimalBorrow(high, Decimal(x[2]) - Decimal(y[2]) - k)
  BY <1>1, <1>5, <1>6, <1>7, CorrectedDifferenceByte DEF DecimalInput
<1>10. DecimalBorrow(high, Decimal(x[2]) - Decimal(y[2]) - Number(low.f.c))
  BY <1>9 DEF k
<1>11. DecimalsSubtracted(low, high, DecimalWord(x[1], x[2]), DecimalWord(y[1], y[2]))
  BY <1>6, <1>8, <1>10, DifferenceOfDecimals DEF DecimalInput
<1>12. low.a \in DecimalByte /\ high.a \in DecimalByte
  BY <1>8, <1>9 DEF DecimalBorrow
<1>13. /\ Digits(x) = DecimalWord(x[1], x[2]) /\ Digits(y) = DecimalWord(y[1], y[2])
       /\ Digits(out) = DecimalWord(low.a, high.a)
  <2>1. out[1] = low.a /\ out[2] = high.a
    BY <1>1
  <2>2. QED
    BY <1>12, <2>1, DigitsOfBytes DEF DecimalInput
<1>14. f.c = high.f.c
  BY <1>1
<1>15. QED
  BY <1>11, <1>13, <1>14 DEF DecimalsSubtracted

-----------------------------------------------------------------------------
(* Shifted words. *)

LEMMA LeftShiftsShift ==
  ASSUME TypeInv, NEW one, NEW two, NEW k, k = 0,
         LeftOf(one, x[1], k), LeftOf(two, x[2], Number(one.f.c)),
         out = <<one.a, two.a>>, f = two.f
  PROVE  /\ Word(out) = (2 * Word(x)) % 65536
         /\ f.c = (Word(x) >= 32768)
<1>1. ShiftedLeft(one, two, WordOf(x[1], x[2]))
  BY ByteParts, LeftOfWords
<1>2. Word(x) = WordOf(x[1], x[2]) /\ Word(out) = WordOf(one.a, two.a)
  BY WordParts
<1>3. QED
  BY <1>1, <1>2 DEF ShiftedLeft

LEMMA RightShiftsShift ==
  ASSUME TypeInv, NEW one, NEW two, NEW k \in 0..1,
         RightOf(one, x[2], k), RightOf(two, x[1], Number(one.f.c)),
         out = <<one.a, two.a>>, f = two.f
  PROVE  /\ out[2] + 256 * out[1] = (Word(x) \div 2) + 32768 * k
         /\ f.c = (x[1] % 2 = 1)
<1>1. ShiftedRight(one, two, WordOf(x[1], x[2]), k)
  BY ByteParts, RightOfWords
<1>2. Word(x) = WordOf(x[1], x[2]) /\ out[1] = one.a /\ out[2] = two.a
  BY WordParts
<1>3. two.a + 256 * one.a = (WordOf(x[1], x[2]) \div 2) + 32768 * k
  BY <1>1 DEF ShiftedRight
<1>4. two.f.c = (WordOf(x[1], x[2]) % 2 = 1)
  BY <1>1 DEF ShiftedRight
<1>5. WordOf(x[1], x[2]) % 2 = x[1] % 2
  <2> DEFINE l == x[1]
             h == x[2]
  <2>1. l \in Int /\ h \in Int
    BY ByteParts DEF Byte
  <2> HIDE DEF l, h
  <2>2. (l + 256 * h) % 2 = l % 2
    BY <2>1
  <2>3. QED
    BY <2>2 DEF l, h, WordOf
<1>6. QED
  BY <1>2, <1>3, <1>4, <1>5

-----------------------------------------------------------------------------
(* Where the programs on one byte end. *)

LEMMA FourTimesEnd ==
  ASSUME NEW rotation, FourTimesRun(rotation), todo = << >>
  PROVE  \E one, two, three, four, swapped :
           /\ one = Apply(rotation, x[1], y[1], Initially)
           /\ two = Apply(rotation, one.a, y[1], one.f)
           /\ three = Apply(rotation, two.a, y[1], two.f)
           /\ four = Apply(rotation, three.a, y[1], three.f)
           /\ swapped = Apply("SWAP", x[1], y[1], four.f)
           /\ out = <<four.a, swapped.a>>
<1> DEFINE one     == Apply(rotation, x[1], y[1], Initially)
           two     == Apply(rotation, one.a, y[1], one.f)
           three   == Apply(rotation, two.a, y[1], two.f)
           four    == Apply(rotation, three.a, y[1], three.f)
           swapped == Apply("SWAP", x[1], y[1], four.f)
<1>1. FourTimesLine(rotation, one, two, three, four, swapped)
  BY DEF FourTimesRun
<1> HIDE DEF one, two, three, four, swapped
<1>2. out = <<four.a, swapped.a>>
  BY <1>1 DEF FourTimesLine, At
<1>3. QED
  BY <1>2 DEF one, two, three, four, swapped

LEMMA NegateEnd ==
  ASSUME NegateRun, todo = << >>
  PROVE  \E inverted, negated, less, restored :
           /\ inverted = Apply("CPL", x[1], y[1], Initially)
           /\ negated = Apply("INC", inverted.a, y[1], inverted.f)
           /\ less = Apply("DEC", negated.a, y[1], negated.f)
           /\ restored = Apply("CPL", less.a, y[1], less.f)
           /\ out = <<negated.a, restored.a>>
<1> DEFINE inverted == Apply("CPL", x[1], y[1], Initially)
           negated  == Apply("INC", inverted.a, y[1], inverted.f)
           less     == Apply("DEC", negated.a, y[1], negated.f)
           restored == Apply("CPL", less.a, y[1], less.f)
<1>1. NegateLine(inverted, negated, less, restored)
  BY DEF NegateRun
<1> HIDE DEF inverted, negated, less, restored
<1>2. out = <<negated.a, restored.a>>
  BY <1>1 DEF NegateLine, At
<1>3. QED
  BY <1>2 DEF inverted, negated, less, restored

LEMMA LogicEnd ==
  ASSUME LogicRun, todo = << >>
  PROVE  \E both, either, odd :
           /\ both = Apply("AND", x[1], y[1], Initially)
           /\ either = Apply("OR", x[1], y[1], both.f)
           /\ odd = Apply("XOR", x[1], y[1], either.f)
           /\ out = <<both.a, either.a, odd.a>> /\ f = odd.f
<1> DEFINE both   == Apply("AND", x[1], y[1], Initially)
           either == Apply("OR", x[1], y[1], both.f)
           odd    == Apply("XOR", x[1], y[1], either.f)
<1>1. LogicLine(both, either, odd)
  BY DEF LogicRun
<1> HIDE DEF both, either, odd
<1>2. out = <<both.a, either.a, odd.a>> /\ f = odd.f
  BY <1>1 DEF LogicLine, At
<1>3. QED
  BY <1>2 DEF both, either, odd

LEMMA BitsEnd ==
  ASSUME BitsRun
  PROVE  \E set, seen, reset, unseen :
           /\ set = Apply("SET", x[1], y[1] % 8, Initially)
           /\ seen = Apply("BIT", set.a, y[1] % 8, set.f)
           /\ reset = Apply("RES", seen.a, y[1] % 8, seen.f)
           /\ unseen = Apply("BIT", reset.a, y[1] % 8, reset.f)
           /\ Len(out) = 1 /\ Begins({"RES"}) => f = seen.f
           /\ todo = << >> => out = <<seen.a, unseen.a>> /\ f = unseen.f
<1> DEFINE set    == Apply("SET", x[1], y[1] % 8, Initially)
           seen   == Apply("BIT", set.a, y[1] % 8, set.f)
           reset  == Apply("RES", seen.a, y[1] % 8, seen.f)
           unseen == Apply("BIT", reset.a, y[1] % 8, reset.f)
<1>1. BitsLine(set, seen, reset, unseen)
  BY DEF BitsRun
<1> HIDE DEF set, seen, reset, unseen
<1>2. todo = << >> => out = <<seen.a, unseen.a>> /\ f = unseen.f
  BY <1>1 DEF BitsLine, At
<1>3. Begins({"RES"}) => f = seen.f
  BY <1>1 DEF BitsLine, At, Begins
<1>4. QED
  BY <1>2, <1>3 DEF set, seen, reset, unseen

-----------------------------------------------------------------------------
(* Where each program is, whatever the bytes. *)

ProgramInv ==
  /\ TypeInv
  /\ program \in Names
  /\ program \in {"decimal_add", "decimal_sub"} => DecimalInput
  /\ program = "add" => BytewiseRun("LOW", "ADD", "HIGH", "ADC", Initially)
  /\ program = "adc" => ClearedRun("ADC", "ADC")
  /\ program = "sub" => BytewiseRun("LOW", "SUB", "HIGH", "SBC", Initially)
  /\ program = "cp"  => BytewiseRun("LOW", "CP", "HIGH", "SBC", Initially)
  /\ program = "decimal_add" => CorrectedRun("ADD", "ADC")
  /\ program = "decimal_sub" => CorrectedRun("SUB", "SBC")
  /\ program = "sla" => BytewiseRun("LOW", "SLA", "HIGH", "RL", Initially)
  /\ program = "rla" => ClearedRun("RLA", "RLA")
  /\ program = "srl" => BytewiseRun("HIGH", "SRL", "LOW", "RR", Initially)
  /\ program = "sra" => BytewiseRun("HIGH", "SRA", "LOW", "RRA", Initially)
  /\ program = "rlc"  => FourTimesRun("RLC")
  /\ program = "rrc"  => FourTimesRun("RRC")
  /\ program = "rlca" => FourTimesRun("RLCA")
  /\ program = "rrca" => FourTimesRun("RRCA")
  /\ program = "negate" => NegateRun
  /\ program = "logic" => LogicRun
  /\ program = "bits" => BitsRun

(* Every program is a sequence of instructions. *)
LEMMA ProgramType ==
  ASSUME NEW name \in Names
  PROVE  Program(name) \in Seq(Instructions)
<1>1. \A load, operation, reload, other \in Instructions :
         Bytewise(load, operation, reload, other) \in Seq(Instructions)
  BY DEF Bytewise, Instructions
<1>2. \A operation, other \in Instructions :
         /\ Cleared(operation, other) \in Seq(Instructions)
         /\ Corrected(operation, other) \in Seq(Instructions)
  BY DEF Cleared, Corrected, Instructions, AccumulatorOperations
<1>3. \A rotation \in Instructions : FourTimes(rotation) \in Seq(Instructions)
  BY DEF FourTimes, Instructions, Rotations
<1>4. /\ "LOW" \in Instructions /\ "HIGH" \in Instructions
      /\ {"ADD", "ADC", "SUB", "SBC", "CP"} \subseteq Instructions
      /\ {"SLA", "RL", "RLA", "SRL", "RR", "SRA", "RRA"} \subseteq Instructions
      /\ {"RLC", "RRC", "RLCA", "RRCA"} \subseteq Instructions
  BY DEF Instructions, AccumulatorOperations, Rotations
<1>5. /\ name = "add" => Program(name) = Bytewise("LOW", "ADD", "HIGH", "ADC")
      /\ name = "sub" => Program(name) = Bytewise("LOW", "SUB", "HIGH", "SBC")
      /\ name = "cp"  => Program(name) = Bytewise("LOW", "CP", "HIGH", "SBC")
      /\ name = "sla" => Program(name) = Bytewise("LOW", "SLA", "HIGH", "RL")
      /\ name = "srl" => Program(name) = Bytewise("HIGH", "SRL", "LOW", "RR")
      /\ name = "sra" => Program(name) = Bytewise("HIGH", "SRA", "LOW", "RRA")
  BY DEF Program
<1>6. /\ name = "adc" => Program(name) = Cleared("ADC", "ADC")
      /\ name = "rla" => Program(name) = Cleared("RLA", "RLA")
      /\ name = "decimal_add" => Program(name) = Corrected("ADD", "ADC")
      /\ name = "decimal_sub" => Program(name) = Corrected("SUB", "SBC")
      /\ name = "rlc" => Program(name) = FourTimes("RLC")
      /\ name = "rrc" => Program(name) = FourTimes("RRC")
      /\ name = "rlca" => Program(name) = FourTimes("RLCA")
      /\ name = "rrca" => Program(name) = FourTimes("RRCA")
  BY DEF Program
<1>7. CASE name \in {"add", "sub", "cp", "sla", "srl", "sra"}
  <2>1. /\ Bytewise("LOW", "ADD", "HIGH", "ADC") \in Seq(Instructions)
        /\ Bytewise("LOW", "SUB", "HIGH", "SBC") \in Seq(Instructions)
        /\ Bytewise("LOW", "CP", "HIGH", "SBC") \in Seq(Instructions)
    BY <1>1, <1>4
  <2>2. /\ Bytewise("LOW", "SLA", "HIGH", "RL") \in Seq(Instructions)
        /\ Bytewise("HIGH", "SRL", "LOW", "RR") \in Seq(Instructions)
        /\ Bytewise("HIGH", "SRA", "LOW", "RRA") \in Seq(Instructions)
    BY <1>1, <1>4
  <2>3. QED
    BY <1>5, <1>7, <2>1, <2>2
<1>8. CASE name \in {"adc", "rla", "decimal_add", "decimal_sub"}
  BY <1>2, <1>4, <1>6, <1>8
<1>9. CASE name \in {"rlc", "rrc", "rlca", "rrca"}
  BY <1>3, <1>4, <1>6, <1>9
<1>10. CASE name = "negate"
  BY <1>10 DEF Program, Instructions, AccumulatorOperations
<1>11. CASE name = "logic"
  BY <1>11 DEF Program, Instructions, AccumulatorOperations
<1>12. CASE name = "bits"
  BY <1>12 DEF Program, Instructions, BitOperations
<1>13. QED
  BY <1>7, <1>8, <1>9, <1>10, <1>11, <1>12
     DEF Names, Sums, Differences, LeftShifts, Exchanges

(* reset_cpu leaves a program at its beginning. *)
LEMMA ProgramInit ==
  Init => ProgramInv
<1>1. SUFFICES ASSUME Init PROVE ProgramInv
  OBVIOUS
<1>2. TypeInv
  <2>1. x \in Byte \X Byte /\ y \in Byte \X Byte
    <3>1. NumberBytes(program) \subseteq Byte
      BY BytesAssumption DEF NumberBytes
    <3>2. QED
      BY <1>1, <3>1 DEF Init
  <2>2. todo \in Seq(Instructions)
    BY <1>1, ProgramType DEF Init
  <2>3. a \in Byte /\ f \in Flags /\ half \in 1..2 /\ out \in Seq(Byte)
    BY <1>1 DEF Init, Byte, Flags
  <2>4. QED
    BY <2>1, <2>2, <2>3 DEF TypeInv
<1>3. program \in {"decimal_add", "decimal_sub"} => DecimalInput
  <2>1. DecimalBytes \subseteq DecimalByte
    BY BytesAssumption DEF DecimalByte
  <2>2. SUFFICES ASSUME program \in {"decimal_add", "decimal_sub"} PROVE DecimalInput
    OBVIOUS
  <2>3. x \in DecimalBytes \X DecimalBytes /\ y \in DecimalBytes \X DecimalBytes
    BY <1>1, <2>2 DEF Init, NumberBytes
  <2>4. QED
    BY <2>1, <2>3 DEF DecimalInput
<1>4. /\ program \in Names /\ todo = Program(program)
      /\ out = << >> /\ half = 1 /\ f = Initially
  BY <1>1 DEF Init, Initially
<1>5. ASSUME NEW load, NEW operation, NEW reload, NEW other,
             todo = Bytewise(load, operation, reload, other)
      PROVE  BytewiseRun(load, operation, reload, other, Initially)
  BY <1>4, <1>5 DEF BytewiseRun, At, Bytewise
<1>6. ASSUME NEW operation, NEW other, todo = Cleared(operation, other)
      PROVE  ClearedRun(operation, other)
  BY <1>4, <1>6 DEF ClearedRun, At
<1>7. ASSUME NEW operation, NEW other, todo = Corrected(operation, other)
      PROVE  CorrectedRun(operation, other)
  BY <1>4, <1>7 DEF CorrectedRun, CorrectedLine, At, Corrected
<1>8. ASSUME NEW rotation, todo = FourTimes(rotation)
      PROVE  FourTimesRun(rotation)
  BY <1>4, <1>8 DEF FourTimesRun, FourTimesLine, At, FourTimes
<1>9. program = "add" => BytewiseRun("LOW", "ADD", "HIGH", "ADC", Initially)
  BY <1>4, <1>5 DEF Program
<1>10. program = "adc" => ClearedRun("ADC", "ADC")
  BY <1>4, <1>6 DEF Program
<1>11. program = "sub" => BytewiseRun("LOW", "SUB", "HIGH", "SBC", Initially)
  BY <1>4, <1>5 DEF Program
<1>12. program = "cp" => BytewiseRun("LOW", "CP", "HIGH", "SBC", Initially)
  BY <1>4, <1>5 DEF Program
<1>13. program = "decimal_add" => CorrectedRun("ADD", "ADC")
  BY <1>4, <1>7 DEF Program
<1>14. program = "decimal_sub" => CorrectedRun("SUB", "SBC")
  BY <1>4, <1>7 DEF Program
<1>15. program = "sla" => BytewiseRun("LOW", "SLA", "HIGH", "RL", Initially)
  BY <1>4, <1>5 DEF Program
<1>16. program = "rla" => ClearedRun("RLA", "RLA")
  BY <1>4, <1>6 DEF Program
<1>17. program = "srl" => BytewiseRun("HIGH", "SRL", "LOW", "RR", Initially)
  BY <1>4, <1>5 DEF Program
<1>18. program = "sra" => BytewiseRun("HIGH", "SRA", "LOW", "RRA", Initially)
  BY <1>4, <1>5 DEF Program
<1>19. /\ program = "rlc" => FourTimesRun("RLC")
       /\ program = "rrc" => FourTimesRun("RRC")
       /\ program = "rlca" => FourTimesRun("RLCA")
       /\ program = "rrca" => FourTimesRun("RRCA")
  BY <1>4, <1>8 DEF Program
<1>20. program = "negate" => NegateRun
  BY <1>4 DEF Program, NegateRun, NegateLine, At
<1>21. program = "logic" => LogicRun
  BY <1>4 DEF Program, LogicRun, LogicLine, At
<1>22. program = "bits" => BitsRun
  BY <1>4 DEF Program, BitsRun, BitsLine, At
<1>23. QED
  BY <1>2, <1>3, <1>4, <1>9, <1>10, <1>11, <1>12, <1>13, <1>14, <1>15, <1>16,
     <1>17, <1>18, <1>19, <1>20, <1>21, <1>22 DEF ProgramInv

(* Every step goes on to the next position of the same program. *)
LEMMA ProgramStep ==
  ProgramInv /\ [Next]_vars => ProgramInv'
<1>1. SUFFICES ASSUME ProgramInv, [Next]_vars PROVE ProgramInv'
  OBVIOUS
<1>2. CASE Next
  <2>1. TypeInv /\ TypeInv'
    BY <1>1, <1>2, TypeStep DEF ProgramInv
  <2>2. program' = program /\ x' = x /\ y' = y
    BY <1>2, Steps
  <2>3. /\ program' \in Names
        /\ program' \in {"decimal_add", "decimal_sub"} => DecimalInput'
    BY <1>1, <2>2 DEF ProgramInv, DecimalInput
  <2>4. /\ program = "add" => BytewiseRun("LOW", "ADD", "HIGH", "ADC", Initially)'
        /\ program = "sub" => BytewiseRun("LOW", "SUB", "HIGH", "SBC", Initially)'
        /\ program = "cp"  => BytewiseRun("LOW", "CP", "HIGH", "SBC", Initially)'
    BY <1>1, <1>2, <2>1, BytewiseStep DEF ProgramInv, BitOperations
  <2>5. /\ program = "sla" => BytewiseRun("LOW", "SLA", "HIGH", "RL", Initially)'
        /\ program = "srl" => BytewiseRun("HIGH", "SRL", "LOW", "RR", Initially)'
        /\ program = "sra" => BytewiseRun("HIGH", "SRA", "LOW", "RRA", Initially)'
    BY <1>1, <1>2, <2>1, BytewiseStep DEF ProgramInv, BitOperations
  <2>6. /\ program = "adc" => ClearedRun("ADC", "ADC")'
        /\ program = "rla" => ClearedRun("RLA", "RLA")'
    BY <1>1, <1>2, <2>1, ClearedStep DEF ProgramInv, BitOperations
  <2>7. /\ program = "decimal_add" => CorrectedRun("ADD", "ADC")'
        /\ program = "decimal_sub" => CorrectedRun("SUB", "SBC")'
    BY <1>1, <1>2, <2>1, CorrectedStep DEF ProgramInv, BitOperations
  <2>8. /\ program = "rlc" => FourTimesRun("RLC")'
        /\ program = "rrc" => FourTimesRun("RRC")'
        /\ program = "rlca" => FourTimesRun("RLCA")'
        /\ program = "rrca" => FourTimesRun("RRCA")'
    BY <1>1, <1>2, <2>1, FourTimesStep DEF ProgramInv, BitOperations
  <2>9. /\ program = "negate" => NegateRun'
        /\ program = "logic" => LogicRun'
        /\ program = "bits" => BitsRun'
    BY <1>1, <1>2, <2>1, NegateStep, LogicStep, BitsStep DEF ProgramInv
  <2>10. QED
    BY <2>1, <2>2, <2>3, <2>4, <2>5, <2>6, <2>7, <2>8, <2>9 DEF ProgramInv
<1>3. CASE UNCHANGED vars
  <2>1. /\ program' = program /\ x' = x /\ y' = y /\ todo' = todo
        /\ half' = half /\ a' = a /\ f' = f /\ out' = out
    BY <1>3 DEF vars
  <2>2. TypeInv' = TypeInv /\ DecimalInput' = DecimalInput
    BY <2>1 DEF TypeInv, DecimalInput
  <2>3. \A load, operation, reload, other, before :
           BytewiseRun(load, operation, reload, other, before)' <=>
             BytewiseRun(load, operation, reload, other, before)
    BY <2>1 DEF BytewiseRun, At, One
  <2>4. \A operation, other : ClearedRun(operation, other)' <=> ClearedRun(operation, other)
    BY <2>1, <2>3 DEF ClearedRun, At
  <2>5. \A operation, other :
           CorrectedRun(operation, other)' <=> CorrectedRun(operation, other)
    <3>1. \A operation, other, one, low, two, high :
             CorrectedLine(operation, other, one, low, two, high)' <=>
               CorrectedLine(operation, other, one, low, two, high)
      BY <2>1 DEF CorrectedLine, At
    <3>2. QED
      BY <2>1, <3>1 DEF CorrectedRun
  <2>6. \A rotation : FourTimesRun(rotation)' <=> FourTimesRun(rotation)
    <3>1. \A rotation, one, two, three, four, swapped :
             FourTimesLine(rotation, one, two, three, four, swapped)' <=>
               FourTimesLine(rotation, one, two, three, four, swapped)
      BY <2>1 DEF FourTimesLine, At
    <3>2. QED
      BY <2>1, <3>1 DEF FourTimesRun
  <2>7. /\ NegateRun' <=> NegateRun
        /\ LogicRun' <=> LogicRun
        /\ BitsRun' <=> BitsRun
    <3>1. /\ \A inverted, negated, less, restored :
                NegateLine(inverted, negated, less, restored)' <=>
                  NegateLine(inverted, negated, less, restored)
          /\ \A both, either, odd : LogicLine(both, either, odd)' <=> LogicLine(both, either, odd)
          /\ \A set, seen, reset, unseen :
                BitsLine(set, seen, reset, unseen)' <=> BitsLine(set, seen, reset, unseen)
      BY <2>1 DEF NegateLine, LogicLine, BitsLine, At
    <3>2. NegateRun' <=> NegateRun
      BY <2>1, <3>1 DEF NegateRun
    <3>3. LogicRun' <=> LogicRun
      BY <2>1, <3>1 DEF LogicRun
    <3>4. BitsRun' <=> BitsRun
      BY <2>1, <3>1 DEF BitsRun
    <3>5. QED
      BY <3>2, <3>3, <3>4
  <2>8. QED
    BY <1>1, <2>1, <2>2, <2>3, <2>4, <2>5, <2>6, <2>7 DEF ProgramInv
<1>4. QED
  BY <1>1, <1>2, <1>3

LEMMA Programs ==
  Spec => []ProgramInv
BY ProgramInit, ProgramStep, PTL DEF Spec

-----------------------------------------------------------------------------
(* The theorems. *)

\* At most three bytes are stored.
Few ==
  \/ out = << >>
  \/ \E b : out = <<b>>
  \/ \E b, c : out = <<b, c>>
  \/ \E b, c, d : out = <<b, c, d>>

LEMMA FewBytes ==
  Few => Len(out) <= 3
<1>1. /\ Len(<< >>) <= 3
      /\ \A b : Len(<<b>>) <= 3
      /\ \A b, c : Len(<<b, c>>) <= 3
      /\ \A b, c, d : Len(<<b, c, d>>) <= 3
  OBVIOUS
<1>2. QED
  BY <1>1 DEF Few

(* The registers of the programs stay bytes and flags, and a program       *)
(* stores at most three bytes.                                             *)
THEOREM ProgramTypes ==
  Spec => []TypeOK
<1>1. ASSUME ProgramInv PROVE TypeOK
  <2>1. \A load, operation, reload, other, before :
           BytewiseRun(load, operation, reload, other, before) => Few
    BY DEF BytewiseRun, At, Few
  <2>2. \A operation, other : ClearedRun(operation, other) => Few
    BY <2>1 DEF ClearedRun, At, Few
  <2>3. \A operation, other : CorrectedRun(operation, other) => Few
    <3>1. \A operation, other, one, low, two, high :
             CorrectedLine(operation, other, one, low, two, high) => Few
      BY DEF CorrectedLine, At, Few
    <3>2. QED
      BY <3>1 DEF CorrectedRun
  <2>4. \A rotation : FourTimesRun(rotation) => Few
    <3>1. \A rotation, one, two, three, four, swapped :
             FourTimesLine(rotation, one, two, three, four, swapped) => Few
      BY DEF FourTimesLine, At, Few
    <3>2. QED
      BY <3>1 DEF FourTimesRun
  <2>5. /\ NegateRun => Few
        /\ LogicRun => Few
        /\ BitsRun => Few
    <3>1. /\ \A inverted, negated, less, restored :
                NegateLine(inverted, negated, less, restored) => Few
          /\ \A both, either, odd : LogicLine(both, either, odd) => Few
          /\ \A set, seen, reset, unseen : BitsLine(set, seen, reset, unseen) => Few
      BY DEF NegateLine, LogicLine, BitsLine, At, Few
    <3>2. QED
      BY <3>1 DEF NegateRun, LogicRun, BitsRun
  <2>6. Few
    BY <1>1, <2>1, <2>2, <2>3, <2>4, <2>5
       DEF ProgramInv, Names, Sums, Differences, LeftShifts, Exchanges
  <2>7. Len(out) <= 3
    BY <2>6, FewBytes
  <2>8. QED
    BY <1>1, <2>7 DEF ProgramInv, TypeInv, TypeOK
<1>2. QED
  BY <1>1, Programs, PTL

(* ADD and ADC, SUB and SBC, CP and SBC compute with words of any two      *)
(* bytes as with numbers: the value, the carry and the half carry          *)
(* (instruction.c:162, 170, 301-382, 422).                                 *)
THEOREM WordsAreAdded ==
  Spec => []WideArithmetic
<1>1. ASSUME ProgramInv PROVE WideArithmetic
  <2>1. TypeInv /\ Initially \in Flags /\ CarryClear \in Flags
    BY <1>1 DEF ProgramInv, Initially, CarryClear, Flags
  <2>2. x[1] \in Byte /\ x[2] \in Byte /\ y[1] \in Byte /\ y[2] \in Byte
    BY <2>1, ByteParts
  <2>3. ASSUME Ended(Sums)
        PROVE  /\ Word(out) = AddHl(Word(x), Word(y), f).hl
               /\ f = AddHl(Word(x), Word(y), f).f
    <3> DEFINE k0 == 0
    <3>1. k0 = 0
      OBVIOUS
    <3> HIDE DEF k0
    <3>2. \E one, two :
             /\ SumOf(one, x[1], y[1], k0) /\ two = Apply("ADC", x[2], y[2], one.f)
             /\ out = <<one.a, two.a>> /\ f = two.f
      <4>1. CASE program = "add"
        <5>1. PICK one, two :
                 /\ one = One("ADD", Part("LOW"), Initially)
                 /\ two = One("ADC", Part("HIGH"), one.f)
                 /\ out = <<one.a, two.a>> /\ a = two.a /\ f = two.f
          BY <1>1, <2>3, <4>1, BytewiseEnd DEF ProgramInv, Ended
        <5>2. /\ one = Apply("ADD", x[1], y[1], Initially)
              /\ two = Apply("ADC", x[2], y[2], one.f)
          BY <5>1 DEF One, Part
        <5>3. SumOf(one, x[1], y[1], k0)
          BY <2>2, <3>1, <5>2, AddIsSum
        <5>4. QED
          BY <5>1, <5>2, <5>3
      <4>2. CASE program = "adc"
        <5>1. PICK one, two :
                 /\ one = One("ADC", 1, CarryClear)
                 /\ two = One("ADC", 2, one.f)
                 /\ out = <<one.a, two.a>> /\ a = two.a /\ f = two.f
          BY <1>1, <2>3, <4>2, ClearedEnd DEF ProgramInv, Ended
        <5>2. /\ one = Apply("ADC", x[1], y[1], CarryClear)
              /\ two = Apply("ADC", x[2], y[2], one.f)
          BY <5>1 DEF One
        <5>3. Number(CarryClear.c) = k0
          BY <3>1 DEF CarryClear, Number
        <5>4. SumOf(one, x[1], y[1], k0)
          BY <2>1, <2>2, <5>2, <5>3, AdcIsSum
        <5>5. QED
          BY <5>1, <5>2, <5>4
      <4>3. QED
        BY <2>3, <4>1, <4>2 DEF Ended, Sums
    <3>3. QED
      BY <2>1, <3>1, <3>2, SumsAdd
  <2>4. ASSUME Ended(Differences)
        PROVE  /\ f.c = (Word(x) < Word(y))
               /\ f.h = (Word(x) % 4096 < Word(y) % 4096)
               /\ a = ((Word(x) - Word(y)) % 65536) \div 256
               /\ program = "sub" => out[1] = (Word(x) - Word(y)) % 256
    <3>1. PICK one, two :
             /\ BorrowOf(one, x[1], y[1]) /\ two = Apply("SBC", x[2], y[2], one.f)
             /\ a = two.a /\ f = two.f
             /\ program = "sub" => out[1] = (x[1] - y[1]) % 256
      <4>1. CASE program = "sub"
        <5>1. PICK one, two :
                 /\ one = One("SUB", Part("LOW"), Initially)
                 /\ two = One("SBC", Part("HIGH"), one.f)
                 /\ out = <<one.a, two.a>> /\ a = two.a /\ f = two.f
          BY <1>1, <2>4, <4>1, BytewiseEnd DEF ProgramInv, Ended
        <5>2. /\ one = Apply("SUB", x[1], y[1], Initially)
              /\ two = Apply("SBC", x[2], y[2], one.f)
          BY <5>1 DEF One, Part
        <5>3. BorrowOf(one, x[1], y[1])
          BY <2>2, <5>2, LowBorrow
        <5>4. out[1] = (x[1] - y[1]) % 256
          <6> DEFINE k0 == 0
          <6>1. k0 = 0
            OBVIOUS
          <6> HIDE DEF k0
          <6>2. DifferenceOf(one, x[1], y[1], k0)
            BY <2>2, <5>2, <6>1, SubIsDifference
          <6>3. one.a = (x[1] - y[1] - k0) % 256
            BY <6>2 DEF DifferenceOf
          <6>4. x[1] \in Int /\ y[1] \in Int
            BY <2>2 DEF Byte
          <6>5. x[1] - y[1] - k0 = x[1] - y[1]
            BY <6>1, <6>4
          <6>6. QED
            BY <5>1, <6>3, <6>5
        <5>5. QED
          BY <5>1, <5>2, <5>3, <5>4
      <4>2. CASE program = "cp"
        <5>1. PICK one, two :
                 /\ one = One("CP", Part("LOW"), Initially)
                 /\ two = One("SBC", Part("HIGH"), one.f)
                 /\ out = <<one.a, two.a>> /\ a = two.a /\ f = two.f
          BY <1>1, <2>4, <4>2, BytewiseEnd DEF ProgramInv, Ended
        <5>2. /\ one = Apply("CP", x[1], y[1], Initially)
              /\ two = Apply("SBC", x[2], y[2], one.f)
          BY <5>1 DEF One, Part
        <5>3. BorrowOf(one, x[1], y[1])
          BY <2>2, <5>2, LowBorrow
        <5>4. QED
          BY <4>2, <5>1, <5>2, <5>3
      <4>3. QED
        BY <2>4, <4>1, <4>2 DEF Ended, Differences
    <3>2. QED
      BY <2>1, <3>1, DifferencesSubtract
  <2>5. QED
    BY <2>3, <2>4 DEF WideArithmetic
<1>2. QED
  BY <1>1, Programs, PTL

(* With DAA, they compute with any numbers of four decimal digits          *)
(* (instruction.c:178-206).                                                *)
THEOREM DecimalsAreAdded ==
  Spec => []DecimalArithmetic
<1>1. ASSUME ProgramInv PROVE DecimalArithmetic
  BY <1>1, DecimalSums, DecimalDifferences DEF ProgramInv, DecimalArithmetic, Ended
<1>2. QED
  BY <1>1, Programs, PTL

(* A shift of one byte and a rotation of the other shift any word          *)
(* (instruction.c:436-481, instruction_cb.c:76-158, 180-198).              *)
THEOREM WordsAreShifted ==
  Spec => []WideShifts
<1>1. ASSUME ProgramInv PROVE WideShifts
  <2>1. TypeInv /\ Initially \in Flags /\ CarryClear \in Flags
    BY <1>1 DEF ProgramInv, Initially, CarryClear, Flags
  <2>2. x[1] \in Byte /\ x[2] \in Byte /\ y[1] \in Byte /\ y[2] \in Byte
    BY <2>1, ByteParts
  <2> DEFINE k0 == 0
  <2>3. k0 = 0 /\ k0 \in 0..1
    OBVIOUS
  <2> HIDE DEF k0
  <2>4. ASSUME Ended(LeftShifts)
        PROVE  /\ Word(out) = (2 * Word(x)) % 65536
               /\ f.c = (Word(x) >= 32768)
    <3>1. \E one, two :
             /\ LeftOf(one, x[1], k0) /\ LeftOf(two, x[2], Number(one.f.c))
             /\ out = <<one.a, two.a>> /\ f = two.f
      <4>1. CASE program = "sla"
        <5>1. PICK one, two :
                 /\ one = One("SLA", Part("LOW"), Initially)
                 /\ two = One("RL", Part("HIGH"), one.f)
                 /\ out = <<one.a, two.a>> /\ a = two.a /\ f = two.f
          BY <1>1, <2>4, <4>1, BytewiseEnd DEF ProgramInv, Ended
        <5>2. /\ one = Apply("SLA", x[1], y[1], Initially)
              /\ two = Apply("RL", x[2], y[2], one.f)
          BY <5>1 DEF One, Part
        <5>3. LeftOf(one, x[1], k0)
          BY <2>2, <2>3, <5>2, LeftShiftsOf
        <5>4. LeftOf(two, x[2], Number(one.f.c))
          BY <2>2, <5>2, LeftShiftsOf
        <5>5. QED
          BY <5>1, <5>3, <5>4
      <4>2. CASE program = "rla"
        <5>1. PICK one, two :
                 /\ one = One("RLA", 1, CarryClear)
                 /\ two = One("RLA", 2, one.f)
                 /\ out = <<one.a, two.a>> /\ a = two.a /\ f = two.f
          BY <1>1, <2>4, <4>2, ClearedEnd DEF ProgramInv, Ended
        <5>2. /\ one = Apply("RLA", x[1], y[1], CarryClear)
              /\ two = Apply("RLA", x[2], y[2], one.f)
          BY <5>1 DEF One
        <5>3. Number(CarryClear.c) = k0
          BY <2>3 DEF CarryClear, Number
        <5>4. LeftOf(one, x[1], k0)
          BY <2>2, <5>2, <5>3, LeftShiftsOf
        <5>5. LeftOf(two, x[2], Number(one.f.c))
          BY <2>2, <5>2, LeftShiftsOf
        <5>6. QED
          BY <5>1, <5>4, <5>5
      <4>3. QED
        BY <2>4, <4>1, <4>2 DEF Ended, LeftShifts
    <3>2. QED
      BY <2>1, <2>3, <3>1, LeftShiftsShift
  <2>5. ASSUME Ended({"srl", "sra"})
        PROVE  /\ out[2] + 256 * out[1] =
                    (Word(x) \div 2)
                      + (IF program = "sra" /\ x[2] >= 128 THEN 32768 ELSE 0)
               /\ f.c = (x[1] % 2 = 1)
    <3> DEFINE k == IF program = "sra" /\ x[2] >= 128 THEN 1 ELSE 0
    <3>1. k \in 0..1
      OBVIOUS
    <3>2. \E one, two :
             /\ RightOf(one, x[2], k) /\ RightOf(two, x[1], Number(one.f.c))
             /\ out = <<one.a, two.a>> /\ f = two.f
      <4>1. CASE program = "srl"
        <5>1. PICK one, two :
                 /\ one = One("SRL", Part("HIGH"), Initially)
                 /\ two = One("RR", Part("LOW"), one.f)
                 /\ out = <<one.a, two.a>> /\ a = two.a /\ f = two.f
          BY <1>1, <2>5, <4>1, BytewiseEnd DEF ProgramInv, Ended
        <5>2. /\ one = Apply("SRL", x[2], y[2], Initially)
              /\ two = Apply("RR", x[1], y[1], one.f)
          BY <5>1 DEF One, Part
        <5>3. k = 0
          BY <4>1
        <5> HIDE DEF k
        <5>4. RightOf(one, x[2], k)
          BY <2>2, <5>2, <5>3, RightShiftsOf
        <5>5. RightOf(two, x[1], Number(one.f.c))
          BY <2>2, <5>2, RightShiftsOf
        <5>6. QED
          BY <5>1, <5>4, <5>5
      <4>2. CASE program = "sra"
        <5>1. PICK one, two :
                 /\ one = One("SRA", Part("HIGH"), Initially)
                 /\ two = One("RRA", Part("LOW"), one.f)
                 /\ out = <<one.a, two.a>> /\ a = two.a /\ f = two.f
          BY <1>1, <2>5, <4>2, BytewiseEnd DEF ProgramInv, Ended
        <5>2. /\ one = Apply("SRA", x[2], y[2], Initially)
              /\ two = Apply("RRA", x[1], y[1], one.f)
          BY <5>1 DEF One, Part
        <5>3. k = Number(Bit(x[2], 7))
          BY <2>2, <4>2, SignBit DEF Number
        <5> HIDE DEF k
        <5>4. RightOf(one, x[2], k)
          BY <2>2, <5>2, <5>3, RightShiftsOf
        <5>5. RightOf(two, x[1], Number(one.f.c))
          BY <2>2, <5>2, RightShiftsOf
        <5>6. QED
          BY <5>1, <5>4, <5>5
      <4>3. QED
        BY <2>5, <4>1, <4>2 DEF Ended
    <3>3. 32768 * k = IF program = "sra" /\ x[2] >= 128 THEN 32768 ELSE 0
      OBVIOUS
    <3> HIDE DEF k
    <3>4. /\ out[2] + 256 * out[1] = (Word(x) \div 2) + 32768 * k
          /\ f.c = (x[1] % 2 = 1)
      BY <2>1, <3>1, <3>2, RightShiftsShift
    <3>5. QED
      BY <3>3, <3>4
  <2>6. QED
    BY <2>4, <2>5 DEF WideShifts
<1>2. QED
  BY <1>1, Programs, PTL

(* Different instructions agree on any byte (instruction.c:208-297,        *)
(* 386-434, 453, 483; instruction_cb.c:36-74, 160-178, 200-241).           *)
THEOREM BytesAgree ==
  Spec => []ByteIdentities
<1>1. ASSUME ProgramInv PROVE ByteIdentities
  <2>1. TypeInv
    BY <1>1 DEF ProgramInv
  <2>2. x[1] \in Byte /\ y[1] \in Byte
    BY <2>1, ByteParts
  <2>3. ASSUME Ended(Exchanges) PROVE out[1] = out[2]
    <3>1. PICK rotation \in {"RLC", "RRC", "RLCA", "RRCA"} : FourTimesRun(rotation)
      BY <1>1, <2>3 DEF ProgramInv, Ended, Exchanges
    <3>2. PICK one, two, three, four, swapped :
             /\ one = Apply(rotation, x[1], y[1], Initially)
             /\ two = Apply(rotation, one.a, y[1], one.f)
             /\ three = Apply(rotation, two.a, y[1], two.f)
             /\ four = Apply(rotation, three.a, y[1], three.f)
             /\ swapped = Apply("SWAP", x[1], y[1], four.f)
             /\ out = <<four.a, swapped.a>>
      BY <2>3, <3>1, FourTimesEnd DEF Ended
    <3>3. Turned(rotation, x[1], y[1], Initially, one, two, three, four, swapped)
      BY <3>2 DEF Turned
    <3>4. Initially \in Flags
      BY DEF Initially, Flags
    <3>5. four.a = swapped.a
      BY <2>2, <3>3, <3>4, TurnedFourTimes
    <3>6. QED
      BY <3>2, <3>5
  <2>4. ASSUME Ended({"negate"}) PROVE (out[1] + x[1]) % 256 = 0 /\ out[2] = x[1]
    <3>1. PICK inverted, negated, less, restored :
             /\ inverted = Apply("CPL", x[1], y[1], Initially)
             /\ negated = Apply("INC", inverted.a, y[1], inverted.f)
             /\ less = Apply("DEC", negated.a, y[1], negated.f)
             /\ restored = Apply("CPL", less.a, y[1], less.f)
             /\ out = <<negated.a, restored.a>>
      BY <1>1, <2>4, NegateEnd DEF ProgramInv, Ended
    <3>2. Negated(x[1], y[1], Initially, inverted, negated, less, restored)
      BY <3>1 DEF Negated
    <3>3. NegationOf(negated, x[1]) /\ restored.a = x[1]
      BY <2>2, <3>2, Negation
    <3>4. out[1] = negated.a /\ out[2] = restored.a
      BY <3>1
    <3>5. QED
      BY <3>3, <3>4 DEF NegationOf
  <2>5. ASSUME Ended({"logic"}) PROVE out[2] = out[1] + out[3] /\ f.z = (x[1] = y[1])
    <3>1. PICK both, either, odd :
             /\ both = Apply("AND", x[1], y[1], Initially)
             /\ either = Apply("OR", x[1], y[1], both.f)
             /\ odd = Apply("XOR", x[1], y[1], either.f)
             /\ out = <<both.a, either.a, odd.a>> /\ f = odd.f
      BY <1>1, <2>5, LogicEnd DEF ProgramInv, Ended
    <3>2. either.a = both.a + odd.a /\ odd.f.z = (x[1] = y[1])
      BY <2>2, <3>1, Logic
    <3>3. out[1] = both.a /\ out[2] = either.a /\ out[3] = odd.a
      BY <3>1
    <3>4. QED
      BY <3>1, <3>2, <3>3
  <2>6. ASSUME program = "bits"
        PROVE  /\ Len(out) = 1 /\ Begins({"RES"}) => ~f.z
               /\ todo = << >> => f.z /\ out[1] = out[2] + 2^(y[1] % 8)
    <3>1. PICK set, seen, reset, unseen :
             /\ set = Apply("SET", x[1], y[1] % 8, Initially)
             /\ seen = Apply("BIT", set.a, y[1] % 8, set.f)
             /\ reset = Apply("RES", seen.a, y[1] % 8, seen.f)
             /\ unseen = Apply("BIT", reset.a, y[1] % 8, reset.f)
             /\ Len(out) = 1 /\ Begins({"RES"}) => f = seen.f
             /\ todo = << >> => out = <<seen.a, unseen.a>> /\ f = unseen.f
      BY <1>1, <2>6, BitsEnd DEF ProgramInv
    <3>2. y[1] % 8 \in 0..7
      BY <2>2 DEF Byte
    <3> DEFINE n == y[1] % 8
               w == 2^n
    <3>3. Flipped(x[1], n, Initially, set, seen, reset, unseen) /\ n \in 0..7
      BY <3>1, <3>2 DEF Flipped
    <3> HIDE DEF n
    <3>4. BitSeen(seen, unseen, n)
      BY <2>2, <3>3, SetAndReset
    <3>5. ~seen.f.z /\ unseen.f.z /\ seen.a = unseen.a + w
      BY <3>4 DEF BitSeen
    <3>6. out = <<seen.a, unseen.a>> => out[1] = seen.a /\ out[2] = unseen.a
      OBVIOUS
    <3> HIDE DEF w
    <3>7. Len(out) = 1 /\ Begins({"RES"}) => ~f.z
      BY <3>1, <3>5
    <3>8. todo = << >> => f.z /\ out[1] = out[2] + w
      BY <3>1, <3>5, <3>6
    <3>9. QED
      BY <3>7, <3>8 DEF w, n
  <2>7. QED
    BY <2>3, <2>4, <2>5, <2>6 DEF ByteIdentities, Ended
<1>2. QED
  BY <1>1, Programs, PTL
=============================================================================
