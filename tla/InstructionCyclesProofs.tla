---------------------- MODULE InstructionCyclesProofs -----------------------
(***************************************************************************)
(* Every instruction passes the machine cycles g_opcodes declares for it,  *)
(* on every path: what has elapsed and what the micro-operations left will *)
(* add are at any time the whole cost of the program, and the cost is the  *)
(* declared one.                                                           *)
(***************************************************************************)
EXTENDS InstructionCycles, SequenceTheorems, TLAPS

(* What a sequence of micro-operations adds to the clock: no program has   *)
(* more than nine.                                                         *)
At(s, i) == IF i \in 1..Len(s) THEN CyclesOf(s[i]) ELSE 0
Total(f) == f[1] + f[2] + f[3] + f[4] + f[5] + f[6] + f[7] + f[8] + f[9]
Ahead(s, k) == [i \in 1..9 |-> At(s, i - k)]
Cost(s) == Total(Ahead(s, 0))

Short(s, n) == s \in Seq(MicroOps) /\ Len(s) <= n

LEMMA AheadType ==
  ASSUME NEW s, NEW k \in Int
  PROVE  Ahead(s, k) \in [1..9 -> Nat]
BY DEF Ahead, At, CyclesOf

LEMMA TotalType ==
  ASSUME NEW f \in [1..9 -> Nat]
  PROVE  Total(f) \in Nat
BY DEF Total

LEMMA CostType ==
  ASSUME NEW s
  PROVE  Cost(s) \in Nat
BY AheadType, TotalType DEF Cost

LEMMA TotalOfSums ==
  ASSUME NEW f \in [1..9 -> Nat], NEW g \in [1..9 -> Nat], NEW h \in [1..9 -> Nat],
         \A i \in 1..9 : h[i] = f[i] + g[i]
  PROVE  Total(h) = Total(f) + Total(g)
BY DEF Total

LEMMA TotalOfShift ==
  ASSUME NEW f \in [1..9 -> Nat], NEW g \in [1..9 -> Nat],
         \A i \in 1..8 : g[i] = f[i + 1], g[9] = 0
  PROVE  Total(f) = f[1] + Total(g)
<1>1. /\ g[1] = f[2] /\ g[2] = f[3] /\ g[3] = f[4] /\ g[4] = f[5]
      /\ g[5] = f[6] /\ g[6] = f[7] /\ g[7] = f[8] /\ g[8] = f[9]
  OBVIOUS
<1>2. QED
  BY <1>1 DEF Total

LEMMA CostOfTail ==
  ASSUME NEW s, Short(s, 9), s # << >>
  PROVE  /\ Short(Tail(s), 9)
         /\ Cost(s) = CyclesOf(Head(s)) + Cost(Tail(s))
<1>0. s \in Seq(MicroOps) /\ Len(s) \in Nat /\ Len(s) <= 9 /\ Len(s) # 0 /\ Head(s) = s[1]
  BY DEF Short
<1>1. /\ Tail(s) \in Seq(MicroOps) /\ Len(Tail(s)) = Len(s) - 1
      /\ \A i \in 1..Len(Tail(s)) : Tail(s)[i] = s[i + 1]
  BY <1>0, HeadTailProperties
<1>2. \A i \in 1..9 : At(Tail(s), i) = At(s, i + 1)
  BY <1>0, <1>1 DEF At
<1>3. At(s, 1) = CyclesOf(Head(s)) /\ At(s, 10) = 0
  BY <1>0 DEF At
<1>4. /\ Ahead(s, 0)[1] = CyclesOf(Head(s)) /\ Ahead(Tail(s), 0)[9] = 0
      /\ \A i \in 1..8 : Ahead(Tail(s), 0)[i] = Ahead(s, 0)[i + 1]
  BY <1>2, <1>3 DEF Ahead
<1>5. Total(Ahead(s, 0)) = Ahead(s, 0)[1] + Total(Ahead(Tail(s), 0))
  BY <1>4, AheadType, TotalOfShift
<1>6. Short(Tail(s), 9)
  BY <1>0, <1>1 DEF Short
<1>7. QED
  BY <1>4, <1>5, <1>6 DEF Cost

LEMMA CostAhead ==
  ASSUME NEW k \in 0..9, NEW t, Short(t, 9 - k)
  PROVE  Total(Ahead(t, k)) = Cost(t)
<1>1. Len(t) \in Nat /\ Len(t) <= 9 - k
  BY DEF Short
<1>2. \A i \in Int : i < 1 \/ i > 9 - k => At(t, i) = 0
  BY <1>1 DEF At
<1>3. \A i \in Int : At(t, i) \in Nat
  BY DEF At, CyclesOf
<1>4. CASE k = 0
  BY <1>2, <1>3, <1>4 DEF Ahead, Cost, Total
<1>5. CASE k = 1
  BY <1>2, <1>3, <1>5 DEF Ahead, Cost, Total
<1>6. CASE k = 2
  BY <1>2, <1>3, <1>6 DEF Ahead, Cost, Total
<1>7. CASE k = 3
  BY <1>2, <1>3, <1>7 DEF Ahead, Cost, Total
<1>8. CASE k = 4
  BY <1>2, <1>3, <1>8 DEF Ahead, Cost, Total
<1>9. CASE k = 5
  BY <1>2, <1>3, <1>9 DEF Ahead, Cost, Total
<1>10. CASE k = 6
  BY <1>2, <1>3, <1>10 DEF Ahead, Cost, Total
<1>11. CASE k = 7
  BY <1>2, <1>3, <1>11 DEF Ahead, Cost, Total
<1>12. CASE k = 8
  BY <1>2, <1>3, <1>12 DEF Ahead, Cost, Total
<1>13. CASE k = 9
  BY <1>2, <1>3, <1>13 DEF Ahead, Cost, Total
<1>14. QED
  BY <1>4, <1>5, <1>6, <1>7, <1>8, <1>9, <1>10, <1>11, <1>12, <1>13

LEMMA CostOfJoin ==
  ASSUME NEW m \in Nat, NEW n \in Nat, m + n <= 9,
         NEW s, Short(s, m), NEW t, Short(t, n)
  PROVE  Short(s \o t, m + n) /\ Cost(s \o t) = Cost(s) + Cost(t)
<1>1. /\ s \in Seq(MicroOps) /\ t \in Seq(MicroOps)
      /\ Len(s) \in Nat /\ Len(t) \in Nat /\ Len(s) <= m /\ Len(t) <= n
  BY DEF Short
<1>2. /\ s \o t \in Seq(MicroOps) /\ Len(s \o t) = Len(s) + Len(t)
      /\ \A i \in 1..(Len(s) + Len(t)) :
           (s \o t)[i] = IF i <= Len(s) THEN s[i] ELSE t[i - Len(s)]
  BY <1>1, ConcatProperties
<1>3. \A i \in Int : At(s \o t, i) = At(s, i) + At(t, i - Len(s))
  <2> SUFFICES ASSUME NEW i \in Int
               PROVE  At(s \o t, i) = At(s, i) + At(t, i - Len(s))
    OBVIOUS
  <2>1. CASE i \in 1..Len(s)
    <3>1. At(s \o t, i) = CyclesOf(s[i]) /\ At(s, i) = CyclesOf(s[i]) /\ At(t, i - Len(s)) = 0
      BY <1>1, <1>2, <2>1 DEF At
    <3>2. QED
      BY <3>1 DEF CyclesOf
  <2>2. CASE i - Len(s) \in 1..Len(t)
    <3>1. /\ At(s \o t, i) = CyclesOf(t[i - Len(s)])
          /\ At(t, i - Len(s)) = CyclesOf(t[i - Len(s)]) /\ At(s, i) = 0
      BY <1>1, <1>2, <2>2 DEF At
    <3>2. QED
      BY <3>1 DEF CyclesOf
  <2>3. CASE i \notin 1..Len(s) /\ i - Len(s) \notin 1..Len(t)
    BY <1>1, <1>2, <2>3 DEF At
  <2>4. QED
    BY <2>1, <2>2, <2>3
<1>4. \A i \in 1..9 : Ahead(s \o t, 0)[i] = Ahead(s, 0)[i] + Ahead(t, Len(s))[i]
  BY <1>1, <1>3 DEF Ahead
<1>5. Cost(s \o t) = Cost(s) + Total(Ahead(t, Len(s)))
  BY <1>1, <1>4, AheadType, TotalOfSums DEF Cost
<1>6. Total(Ahead(t, Len(s))) = Cost(t)
  <2>1. Len(s) <= 9 /\ Len(t) <= 9 - Len(s)
    BY <1>1
  <2>2. Short(t, 9 - Len(s))
    BY <1>1, <2>1 DEF Short
  <2>3. \A i \in Nat : i <= 9 => i \in 0..9
    OBVIOUS
  <2>4. QED
    BY <1>1, <2>1, <2>2, <2>3, CostAhead
<1>7. Short(s \o t, m + n)
  BY <1>1, <1>2 DEF Short
<1>8. QED
  BY <1>5, <1>6, <1>7

-----------------------------------------------------------------------------
(* What each part of an instruction costs. *)

(* A sequence of at most n micro-operations that costs c. *)
Costs(s, n, c) == Short(s, n) /\ Cost(s) = c

LEMMA CostOfSingle ==
  /\ Costs(<< >>, 0, 0)
  /\ Costs(<<"tick">>, 1, 1)
  /\ \A m \in MicroOps \ Ticks : Costs(<<m>>, 1, 0)
<1> USE DEF Costs, Short, Cost, Total, Ahead, At
<1>1. Costs(<< >>, 0, 0)
  OBVIOUS
<1>2. ASSUME NEW m \in MicroOps
      PROVE  Costs(<<m>>, 1, CyclesOf(m))
  BY DEF CyclesOf
<1> HIDE DEF Costs
<1>3. "tick" \in MicroOps /\ CyclesOf("tick") = 1
  BY DEF MicroOps, Ticks, CyclesOf
<1>4. \A m \in MicroOps \ Ticks : CyclesOf(m) = 0
  BY DEF Ticks, CyclesOf
<1>5. Costs(<<"tick">>, 1, 1)
  BY <1>2, <1>3
<1>6. \A m \in MicroOps \ Ticks : Costs(<<m>>, 1, 0)
  BY <1>2, <1>4
<1>7. QED
  BY <1>1, <1>5, <1>6

LEMMA CostOfPair ==
  ASSUME NEW l \in MicroOps, NEW m \in MicroOps
  PROVE  Costs(<<l, m>>, 2, CyclesOf(l) + CyclesOf(m))
BY DEF Costs, Short, Cost, Total, Ahead, At, CyclesOf

LEMMA CostOfTriple ==
  ASSUME NEW l \in MicroOps, NEW m \in MicroOps, NEW n \in MicroOps
  PROVE  Costs(<<l, m, n>>, 3, CyclesOf(l) + CyclesOf(m) + CyclesOf(n))
BY DEF Costs, Short, Cost, Total, Ahead, At, CyclesOf

LEMMA CostOfFour ==
  ASSUME NEW k \in MicroOps, NEW l \in MicroOps, NEW m \in MicroOps, NEW n \in MicroOps
  PROVE  Costs(<<k, l, m, n>>, 4, CyclesOf(k) + CyclesOf(l) + CyclesOf(m) + CyclesOf(n))
BY DEF Costs, Short, Cost, Total, Ahead, At, CyclesOf

LEMMA JoinedCosts ==
  ASSUME NEW m \in Nat, NEW n \in Nat, m + n <= 9, NEW c \in Nat, NEW d \in Nat,
         NEW s, Costs(s, m, c), NEW t, Costs(t, n, d)
  PROVE  Costs(s \o t, m + n, c + d)
BY CostOfJoin DEF Costs

LEMMA LongerCosts ==
  ASSUME NEW m \in Nat, NEW n \in Nat, m <= n, NEW c, NEW s, Costs(s, m, c)
  PROVE  Costs(s, n, c)
BY DEF Costs, Short

LEMMA LiteralCosts ==
  /\ Costs(<<"tick", "tick">>, 2, 2)
  /\ Costs(<<"tick", "store">>, 2, 1)
  /\ Costs(<<"tick2", "store">>, 2, 2)
  /\ Costs(<<"tick", "ime_on">>, 2, 1)
  /\ Costs(<<"tick", "tick", "tick">>, 3, 3)
  /\ Costs(<<"tick2", "store", "store_next">>, 3, 2)
  /\ Costs(<<"tick", "tick", "tick", "store">>, 4, 3)
  /\ Costs(<<"tick", "push", "tick", "push">>, 4, 2)
<1>1. {"tick", "tick2", "store", "store_next", "push", "ime_on"} \subseteq MicroOps
  BY DEF MicroOps, Ticks
<1>2. /\ CyclesOf("tick") = 1 /\ CyclesOf("tick2") = 2 /\ CyclesOf("store") = 0
      /\ CyclesOf("store_next") = 0 /\ CyclesOf("push") = 0 /\ CyclesOf("ime_on") = 0
  BY DEF CyclesOf
<1>3. /\ Costs(<<"tick", "tick">>, 2, 1 + 1)
      /\ Costs(<<"tick", "store">>, 2, 1 + 0)
      /\ Costs(<<"tick2", "store">>, 2, 2 + 0)
      /\ Costs(<<"tick", "ime_on">>, 2, 1 + 0)
  BY <1>1, <1>2, CostOfPair
<1>4. /\ Costs(<<"tick", "tick", "tick">>, 3, 1 + 1 + 1)
      /\ Costs(<<"tick2", "store", "store_next">>, 3, 2 + 0 + 0)
  BY <1>1, <1>2, CostOfTriple
<1>5. /\ Costs(<<"tick", "tick", "tick", "store">>, 4, 1 + 1 + 1 + 0)
      /\ Costs(<<"tick", "push", "tick", "push">>, 4, 1 + 0 + 1 + 0)
  BY <1>1, <1>2, CostOfFour
<1>6. QED
  BY <1>3, <1>4, <1>5

FetchCost(type) ==
  CASE type \in {"S8", "FLAG_S8", "D8", "R8_D8", "A_D8", "HL_S8", "SP_S8",
                 "HL_REL_D8", "D8_REL_A", "R8_HL_REL", "A_R16_REL", "A_HLD",
                 "A_HLI", "A_C_REL", "A_HL_REL"} -> 1
    [] type \in {"A16", "FLAG_A16", "R16_D16", "A_D8_REL", "D16_REL_A",
                 "D16_REL_SP"} -> 2
    [] type = "A_D16_REL" -> 3
    [] OTHER -> 0

LdCost(type) ==
  CASE type \in {"HL_S8", "SP_HL"} -> 1
    [] type = "D16_REL_SP"         -> 2
    [] IsDstRegister(type) /\ type \notin {"HL_S8", "SP_HL"} -> 0
    [] OTHER                       -> 1

IncDecCost(type) == IF type = "HL_REL" THEN 2 ELSE IF type = "R16" THEN 1 ELSE 0

(* A handler but that of a CB instruction; taken: the condition holds. *)
HandlerCost(name, type, taken) ==
  CASE name \in {"JP", "JR"} -> IF taken THEN 1 ELSE 0
    [] name = "CALL"         -> IF taken THEN 3 ELSE 0
    [] name = "RET" ->
         (IF type # "NO_OPERAND" THEN 1 ELSE 0) + (IF taken THEN 3 ELSE 0)
    [] name \in {"RETI", "RST", "PUSH"} -> 3
    [] name = "POP"          -> 2
    [] name = "LD"           -> LdCost(type)
    [] name \in {"INC", "DEC"} -> IncDecCost(type)
    [] OTHER                 -> 0

LEMMA FetchTicksCost ==
  ASSUME NEW type
  PROVE  Costs(FetchTicks(type), 3, FetchCost(type)) /\ FetchCost(type) \in Nat
<1>1. /\ Costs(<< >>, 3, 0)
      /\ Costs(<<"tick">>, 3, 1)
      /\ Costs(<<"tick", "tick">>, 3, 2)
      /\ Costs(<<"tick", "tick", "tick">>, 3, 3)
  BY CostOfSingle, LiteralCosts, LongerCosts
<1>2. QED
  BY <1>1 DEF FetchTicks, FetchCost

LEMMA PushCost ==
  Costs(<<"tick">> \o Push16, 5, 3)
<1>1. Costs(<<"tick">>, 1, 1) /\ Costs(Push16, 4, 2)
  BY CostOfSingle, LiteralCosts DEF Push16
<1>2. Costs(<<"tick">> \o Push16, 1 + 4, 1 + 2)
  BY <1>1, JoinedCosts
<1>3. QED
  BY <1>2

LEMMA PopCost ==
  /\ Costs(Pop16, 2, 2)
  /\ Costs(Pop16 \o <<"tick">>, 3, 3)
  /\ Costs(Pop16 \o <<"tick", "ime_on">>, 4, 3)
<1>1. Costs(Pop16, 2, 2) /\ Costs(<<"tick">>, 1, 1) /\ Costs(<<"tick", "ime_on">>, 2, 1)
  BY CostOfSingle, LiteralCosts DEF Pop16
<1>2. Costs(Pop16 \o <<"tick">>, 2 + 1, 2 + 1) /\ Costs(Pop16 \o <<"tick", "ime_on">>, 2 + 2, 2 + 1)
  BY <1>1, JoinedCosts
<1>3. QED
  BY <1>1, <1>2

LEMMA RetCost ==
  ASSUME NEW type, NEW o
  PROVE  Costs(Ret(type, o), 4, HandlerCost("RET", type, Condition(type, o)))
<1> DEFINE s == IF type # "NO_OPERAND" THEN <<"tick">> ELSE << >>
           t == IF Condition(type, o) THEN Pop16 \o <<"tick">> ELSE << >>
           c == IF type # "NO_OPERAND" THEN 1 ELSE 0
           d == IF Condition(type, o) THEN 3 ELSE 0
<1>1. Costs(<< >>, 1, 0) /\ Costs(<<"tick">>, 1, 1) /\ Costs(<< >>, 3, 0)
  BY CostOfSingle, LongerCosts
<1>2. Costs(s, 1, c) /\ c \in Nat
  BY <1>1
<1>3. Costs(t, 3, d) /\ d \in Nat
  BY <1>1, PopCost
<1>4. Ret(type, o) = s \o t /\ HandlerCost("RET", type, Condition(type, o)) = c + d
  BY DEF Ret, HandlerCost
<1> HIDE DEF s, t, c, d
<1>5. Costs(s \o t, 1 + 3, c + d)
  BY <1>2, <1>3, JoinedCosts
<1>6. QED
  BY <1>4, <1>5

LEMMA LdCosts ==
  ASSUME NEW type
  PROVE  Costs(Ld(type), 3, LdCost(type))
<1>1. /\ Costs(<< >>, 3, 0)
      /\ Costs(<<"tick">>, 3, 1)
      /\ Costs(<<"tick", "store">>, 3, 1)
      /\ Costs(<<"tick2", "store", "store_next">>, 3, 2)
  BY CostOfSingle, LiteralCosts, LongerCosts
<1>2. QED
  BY <1>1 DEF Ld, LdCost

LEMMA IncDecCosts ==
  ASSUME NEW type
  PROVE  Costs(IncDec(type), 2, IncDecCost(type))
<1>1. /\ Costs(<< >>, 2, 0)
      /\ Costs(<<"tick">>, 2, 1)
      /\ Costs(<<"tick2", "store">>, 2, 2)
  BY CostOfSingle, LiteralCosts, LongerCosts
<1>2. QED
  BY <1>1 DEF IncDec, IncDecCost

LEMMA CbCosts ==
  ASSUME NEW cb
  PROVE  Costs(Cb(cb), 4, CbCycleCount(cb))
<1>1. /\ Costs(<<"tick">>, 4, 1)
      /\ Costs(<<"tick", "tick">>, 4, 2)
      /\ Costs(<<"tick", "tick", "tick", "store">>, 4, 3)
  BY CostOfSingle, LiteralCosts, LongerCosts
<1>2. QED
  BY <1>1 DEF Cb, CbCycleCount

(* A JR to itself under -x is the one instruction that does not return. *)
Exits(opcode, o) == Name(opcode) = "JR" /\ ExitInfiniteLoop /\ o.self_jump

LEMMA JrCost ==
  ASSUME NEW type, NEW o, ~(ExitInfiniteLoop /\ o.self_jump)
  PROVE  Costs(Jr(type, o), 1, HandlerCost("JR", type, Condition(type, o)))
<1>1. Costs(<< >>, 1, 0) /\ Costs(<<"tick">>, 1, 1)
  BY CostOfSingle, LongerCosts
<1>2. Jr(type, o) = IF Condition(type, o) THEN <<"tick">> ELSE << >>
  BY DEF Jr
<1>3. QED
  BY <1>1, <1>2 DEF HandlerCost

LEMMA HandlerCosts ==
  ASSUME NEW name, NEW type, NEW o, name # "CB",
         ~(name = "JR" /\ ExitInfiniteLoop /\ o.self_jump)
  PROVE  Costs(Handler(name, type, o), 5, HandlerCost(name, type, Condition(type, o)))
<1> DEFINE c == HandlerCost(name, type, Condition(type, o))
<1>1. Costs(<< >>, 5, 0) /\ Costs(<<"tick">>, 5, 1)
  BY CostOfSingle, LongerCosts
<1>2. \A m \in MicroOps \ Ticks : Costs(<<m>>, 5, 0)
  <2>1. \A s : Costs(s, 1, 0) => Costs(s, 5, 0)
    BY LongerCosts
  <2>2. QED
    BY <2>1, CostOfSingle
<1>3. CASE name = "JP"
  BY <1>1, <1>3 DEF Handler, HandlerCost
<1>4. CASE name = "JR"
  <2>1. Handler(name, type, o) = Jr(type, o) /\ Costs(Jr(type, o), 1, c)
    BY <1>4, JrCost DEF Handler
  <2>2. QED
    BY <2>1, LongerCosts
<1>5. CASE name = "CALL"
  BY <1>1, <1>5, PushCost DEF Handler, HandlerCost, Call
<1>6. CASE name = "RET"
  <2>1. Handler(name, type, o) = Ret(type, o) /\ Costs(Ret(type, o), 4, c)
    BY <1>6, RetCost DEF Handler
  <2>2. QED
    BY <2>1, LongerCosts
<1>7. CASE name = "RETI"
  <2>1. Handler(name, type, o) = Pop16 \o <<"tick", "ime_on">> /\ c = 3
    BY <1>7 DEF Handler, HandlerCost
  <2>2. QED
    BY <2>1, PopCost, LongerCosts
<1>8. CASE name \in {"RST", "PUSH"}
  BY <1>8, PushCost DEF Handler, HandlerCost
<1>9. CASE name = "POP"
  <2>1. Handler(name, type, o) = Pop16 /\ c = 2
    BY <1>9 DEF Handler, HandlerCost
  <2>2. QED
    BY <2>1, PopCost, LongerCosts
<1>10. CASE name = "LD"
  <2>1. Handler(name, type, o) = Ld(type) /\ c = LdCost(type)
    BY <1>10 DEF Handler, HandlerCost
  <2>2. QED
    BY <2>1, LdCosts, LongerCosts
<1>11. CASE name = "LDH"
  <2>1. c = 0 /\ Costs(<<"store">>, 5, 0)
    BY <1>2, <1>11 DEF HandlerCost, MicroOps, Ticks
  <2>2. QED
    BY <1>1, <1>11, <2>1 DEF Handler
<1>12. CASE name \in {"INC", "DEC"}
  <2>1. Handler(name, type, o) = IncDec(type) /\ c = IncDecCost(type)
    BY <1>12 DEF Handler, HandlerCost
  <2>2. QED
    BY <2>1, IncDecCosts, LongerCosts
<1>13. CASE name \in {"DI", "EI", "HALT", "STOP"}
  <2>1. c = 0 /\ \A m \in {"ime_off", "schedule", "halt", "clear_div"} : Costs(<<m>>, 5, 0)
    BY <1>2, <1>13 DEF HandlerCost, MicroOps, Ticks
  <2>2. QED
    BY <1>13, <2>1 DEF Handler
<1>14. CASE name \notin {"JP", "JR", "CALL", "RET", "RETI", "RST", "PUSH", "POP", "LD", "LDH",
                        "INC", "DEC", "DI", "EI", "HALT", "STOP"}
  BY <1>1, <1>14 DEF Handler, HandlerCost
<1>15. QED
  BY <1>3, <1>4, <1>5, <1>6, <1>7, <1>8, <1>9, <1>10, <1>11, <1>12, <1>13, <1>14

-----------------------------------------------------------------------------
(* The table of opcodes. *)

OpcodeCost(name, type, taken) == 1 + FetchCost(type) + HandlerCost(name, type, taken)

Conditional == {"FLAG", "FLAG_A16", "FLAG_S8"}

(* No instruction takes more than six cycles. *)
Bounded(name, type) ==
  OpcodeCost(name, type, TRUE) <= 6 /\ OpcodeCost(name, type, FALSE) <= 6

(* Those of an entry of g_opcodes are the declared ones. *)
Precise(name, type, count) ==
  /\ OpcodeCost(name, type, TRUE) = count
  /\ type \in Conditional => OpcodeCost(name, type, FALSE) = CycleCountFalse(type)

LEMMA LowCycles ==
  ASSUME NEW y \in 0..7, NEW z \in 0..7
  PROVE  /\ Bounded(NamesLow[8 * y + z + 1], TypesLow[8 * y + z + 1])
         /\ 8 * y + z \notin {9, 25, 41, 57} =>
              Precise(NamesLow[8 * y + z + 1], TypesLow[8 * y + z + 1],
                      CyclesLow[8 * y + z + 1])
         /\ NamesLow[8 * y + z + 1] # "CB"
<1> USE DEF Bounded, Precise, OpcodeCost, Conditional, FetchCost, HandlerCost, LdCost, IncDecCost,
            IsDstRegister, CycleCountFalse, NamesLow, TypesLow, CyclesLow
<1>1. CASE y = 0
  BY <1>1
<1>2. CASE y = 1
  BY <1>2
<1>3. CASE y = 2
  BY <1>3
<1>4. CASE y = 3
  BY <1>4
<1>5. CASE y = 4
  BY <1>5
<1>6. CASE y = 5
  BY <1>6
<1>7. CASE y = 6
  BY <1>7
<1>8. CASE y = 7
  BY <1>8
<1> HIDE DEF Bounded, Precise, NamesLow, TypesLow, CyclesLow
<1>9. QED
  BY <1>1, <1>2, <1>3, <1>4, <1>5, <1>6, <1>7, <1>8

ExactHigh(opcode, type) ==
  opcode \notin {233, 232, 248, 224, 226} /\ type # "ERR_OPERAND"

LEMMA HighCycles ==
  ASSUME NEW y \in 0..7, NEW z \in 0..7
  PROVE  /\ Bounded(NamesHigh[8 * y + z + 1], TypesHigh[8 * y + z + 1])
         /\ ExactHigh(192 + 8 * y + z, TypesHigh[8 * y + z + 1]) =>
              Precise(NamesHigh[8 * y + z + 1], TypesHigh[8 * y + z + 1],
                      CyclesHigh[8 * y + z + 1])
         /\ NamesHigh[8 * y + z + 1] = "CB" => 192 + 8 * y + z = 203
<1> USE DEF ExactHigh, Bounded, Precise, OpcodeCost, Conditional, FetchCost, HandlerCost, LdCost, IncDecCost,
            IsDstRegister, CycleCountFalse, NamesHigh, TypesHigh, CyclesHigh
<1>1. CASE y = 0
  BY <1>1
<1>2. CASE y = 1
  BY <1>2
<1>3. CASE y = 2
  BY <1>3
<1>4. CASE y = 3
  BY <1>4
<1>5. CASE y = 4
  BY <1>5
<1>6. CASE y = 5
  BY <1>6
<1>7. CASE y = 6
  BY <1>7
<1>8. CASE y = 7
  BY <1>8
<1> HIDE DEF ExactHigh, Bounded, Precise, NamesHigh, TypesHigh, CyclesHigh
<1>9. QED
  BY <1>1, <1>2, <1>3, <1>4, <1>5, <1>6, <1>7, <1>8

LEMMA MiddleCycles ==
  ASSUME NEW opcode \in 0..255, OpcodeX(opcode) \in {1, 2}
  PROVE  /\ Bounded(Name(opcode), Type(opcode))
         /\ Precise(Name(opcode), Type(opcode), CycleCount(opcode))
         /\ Name(opcode) # "CB"
<1> DEFINE y == OpcodeY(opcode)
           z == OpcodeZ(opcode)
<1>1. y \in 0..7 /\ z \in 0..7 /\ opcode = 64 * OpcodeX(opcode) + 8 * y + z
  BY DEF OpcodeX, OpcodeY, OpcodeZ
<1>2. /\ Bounded("HALT", "NO_OPERAND") /\ Precise("HALT", "NO_OPERAND", 1)
      /\ Bounded("LD", "HL_REL_R8") /\ Precise("LD", "HL_REL_R8", 2)
      /\ Bounded("LD", "R8_HL_REL") /\ Precise("LD", "R8_HL_REL", 2)
      /\ Bounded("LD", "R8_R8") /\ Precise("LD", "R8_R8", 1)
  BY DEF Bounded, Precise, OpcodeCost, Conditional, FetchCost, HandlerCost, LdCost, IsDstRegister
<1>3. ASSUME NEW i \in 0..7
      PROVE  /\ Bounded(Arithmetic[i + 1], "A_HL_REL") /\ Bounded(Arithmetic[i + 1], "A_R8")
             /\ Precise(Arithmetic[i + 1], "A_HL_REL", 2)
             /\ Precise(Arithmetic[i + 1], "A_R8", 1)
             /\ Arithmetic[i + 1] # "CB"
  BY <1>3 DEF Arithmetic, Bounded, Precise, OpcodeCost, Conditional, FetchCost, HandlerCost
<1>4. CASE opcode = 118
  <2>1. OpcodeX(opcode) = 1 /\ y = 6 /\ z = 6
    BY <1>4 DEF OpcodeX, OpcodeY, OpcodeZ
  <2>2. Name(opcode) = "HALT" /\ Type(opcode) = "NO_OPERAND"
    BY <1>4, <2>1 DEF Name, Type
  <2>3. CycleCount(opcode) = 1
    BY <2>1, <2>2 DEF CycleCount
  <2>4. QED
    BY <1>2, <2>2, <2>3
<1>5. CASE OpcodeX(opcode) = 1 /\ opcode # 118
  <2>1. ~(y = 6 /\ z = 6)
    BY <1>1, <1>5
  <2>2. /\ Name(opcode) = "LD"
        /\ Type(opcode) = IF y = 6 THEN "HL_REL_R8" ELSE IF z = 6 THEN "R8_HL_REL" ELSE "R8_R8"
    BY <1>5, <2>1 DEF Name, Type
  <2>3. CycleCount(opcode) = IF y = 6 \/ z = 6 THEN 2 ELSE 1
    BY <1>5, <2>2 DEF CycleCount
  <2>4. QED
    BY <1>2, <2>2, <2>3
<1>6. CASE OpcodeX(opcode) = 2
  <2>1. opcode # 118
    BY <1>1, <1>6
  <2>2. /\ Name(opcode) = Arithmetic[y + 1]
        /\ Type(opcode) = IF z = 6 THEN "A_HL_REL" ELSE "A_R8"
    BY <1>6, <2>1 DEF Name, Type
  <2>3. CycleCount(opcode) = IF z = 6 THEN 2 ELSE 1
    BY <1>6, <2>2 DEF CycleCount
  <2>4. QED
    BY <1>1, <1>3, <2>2, <2>3
<1>7. QED
  BY <1>4, <1>5, <1>6

(* Every entry of the table declares what its instruction costs. *)
LEMMA TableCycles ==
  ASSUME NEW opcode \in 0..255
  PROVE  /\ Bounded(Name(opcode), Type(opcode))
         /\ opcode \notin Inexact => Precise(Name(opcode), Type(opcode), CycleCount(opcode))
         /\ Name(opcode) = "CB" => opcode = 203
<1> DEFINE x == OpcodeX(opcode)
           y == OpcodeY(opcode)
           z == OpcodeZ(opcode)
<1>1. x \in 0..3 /\ y \in 0..7 /\ z \in 0..7 /\ opcode = 64 * x + 8 * y + z
  BY DEF OpcodeX, OpcodeY, OpcodeZ
<1>2. /\ opcode \notin Inexact => opcode \notin {9, 25, 41, 57}
      /\ opcode \notin Inexact => ExactHigh(opcode, Type(opcode))
  BY DEF Inexact, ExactHigh, Holes
<1>4. CASE x = 0
  <2>1. opcode # 118 /\ opcode = 8 * y + z
    BY <1>1, <1>4
  <2>2. /\ Name(opcode) = NamesLow[opcode + 1] /\ Type(opcode) = TypesLow[opcode + 1]
        /\ CycleCount(opcode) = CyclesLow[opcode + 1]
    BY <1>4, <2>1 DEF Name, Type, CycleCount
  <2>3. QED
    BY <1>1, <1>2, <2>1, <2>2, LowCycles
<1>5. CASE x \in {1, 2}
  BY <1>5, MiddleCycles
<1>6. CASE x = 3
  <2>1. opcode # 118 /\ opcode = 192 + 8 * y + z /\ opcode - 191 = 8 * y + z + 1
    BY <1>1, <1>6
  <2>2. /\ Name(opcode) = NamesHigh[opcode - 191] /\ Type(opcode) = TypesHigh[opcode - 191]
        /\ CycleCount(opcode) = CyclesHigh[opcode - 191]
    BY <1>6, <2>1 DEF Name, Type, CycleCount
  <2>3. QED
    BY <1>1, <1>2, <2>1, <2>2, HighCycles
<1>7. QED
  BY <1>1, <1>4, <1>5, <1>6

-----------------------------------------------------------------------------
(* The programs. *)

LEMMA BoundedCost ==
  ASSUME NEW name, NEW type, NEW taken \in BOOLEAN, Bounded(name, type)
  PROVE  HandlerCost(name, type, taken) \in Nat /\ OpcodeCost(name, type, taken) <= 6
<1>1. HandlerCost(name, type, taken) \in Nat
  <2>1. LdCost(type) \in Nat /\ IncDecCost(type) \in Nat
    BY DEF LdCost, IncDecCost
  <2>2. QED
    BY <2>1 DEF HandlerCost
<1>2. taken = TRUE \/ taken = FALSE
  OBVIOUS
<1>3. QED
  BY <1>1, <1>2 DEF Bounded

LEMMA FetchedCost ==
  ASSUME NEW type, NEW s, NEW c \in Nat, Costs(s, 5, c)
  PROVE  Costs(<<"tick">> \o FetchTicks(type) \o s, 9, 1 + FetchCost(type) + c)
<1> DEFINE t == <<"tick">> \o FetchTicks(type)
<1>1. Costs(t, 1 + 3, 1 + FetchCost(type)) /\ FetchCost(type) \in Nat
  <2>1. Costs(<<"tick">>, 1, 1)
    BY CostOfSingle
  <2>2. Costs(FetchTicks(type), 3, FetchCost(type)) /\ FetchCost(type) \in Nat
    BY FetchTicksCost
  <2>3. QED
    BY <2>1, <2>2, JoinedCosts
<1> HIDE DEF t
<1>2. Costs(t \o s, 4 + 5, (1 + FetchCost(type)) + c)
  BY <1>1, JoinedCosts
<1>3. QED
  BY <1>2 DEF t

LEMMA CbProgram ==
  ASSUME NEW o
  PROVE  Costs(Program(203, o), 9, Declared(203, o)) /\ Declared(203, o) <= 6
<1>1. OpcodeX(203) = 3 /\ 203 - 191 = 12
  BY DEF OpcodeX
<1>2. Name(203) = "CB" /\ Type(203) = "NO_OPERAND" /\ CycleCount(203) = 1
  BY <1>1 DEF Name, Type, CycleCount, NamesHigh, TypesHigh, CyclesHigh
<1>3. Costs(Cb(o.cb), 5, CbCycleCount(o.cb)) /\ CbCycleCount(o.cb) \in 0..3
  BY CbCosts, LongerCosts DEF CbCycleCount
<1>4. Program(203, o) = <<"tick">> \o FetchTicks("NO_OPERAND") \o Cb(o.cb)
  BY <1>2 DEF Program, Handler
<1>5. FetchCost("NO_OPERAND") = 0 /\ Declared(203, o) = 1 + CbCycleCount(o.cb)
  BY <1>2 DEF FetchCost, Declared
<1>6. Costs(Program(203, o), 9, 1 + FetchCost("NO_OPERAND") + CbCycleCount(o.cb))
  <2>1. CbCycleCount(o.cb) \in Nat
    BY <1>3
  <2>2. Costs(<<"tick">> \o FetchTicks("NO_OPERAND") \o Cb(o.cb), 9,
              1 + FetchCost("NO_OPERAND") + CbCycleCount(o.cb))
    BY <1>3, <2>1, FetchedCost
  <2>3. QED
    BY <1>4, <2>2
<1>7. QED
  BY <1>3, <1>5, <1>6

(* Whatever an instruction's operands, it takes what the table declares,   *)
(* unless it never returns.                                                *)
LEMMA ProgramCosts ==
  ASSUME NEW opcode \in 0..255, NEW o \in Operands
  PROVE  /\ Short(Program(opcode, o), 9) /\ Cost(Program(opcode, o)) <= 6
         /\ opcode \notin Inexact /\ ~Exits(opcode, o) =>
              Cost(Program(opcode, o)) = Declared(opcode, o)
         /\ Exits(opcode, o) =>
              LET p == Program(opcode, o) IN p # << >> /\ p[Len(p)] = "exit"
<1> DEFINE name == Name(opcode)
           type == Type(opcode)
           taken == Condition(type, o)
<1>1. taken \in BOOLEAN /\ (taken <=> (type \in Conditional => o.condition))
  BY DEF Condition, Conditional
<1>2. /\ Bounded(name, type)
      /\ opcode \notin Inexact => Precise(name, type, CycleCount(opcode))
      /\ name = "CB" => opcode = 203
  BY TableCycles
<1>3. Program(opcode, o) = <<"tick">> \o FetchTicks(type) \o Handler(name, type, o)
  BY DEF Program
<1>4. Exits(opcode, o) <=> name = "JR" /\ ExitInfiniteLoop /\ o.self_jump
  BY DEF Exits
<1> HIDE DEF name, type, taken
<1>5. CASE opcode = 203
  <2>1. Costs(Program(opcode, o), 9, Declared(opcode, o)) /\ Declared(opcode, o) <= 6
    BY <1>5, CbProgram
  <2>2. ~Exits(opcode, o)
    <3>1. OpcodeX(203) = 3 /\ 203 - 191 = 12
      BY DEF OpcodeX
    <3>2. Name(203) = "CB"
      BY <3>1 DEF Name, NamesHigh
    <3>3. QED
      BY <1>5, <3>2 DEF Exits
  <2>3. QED
    BY <2>1, <2>2 DEF Costs
<1>6. CASE opcode # 203 /\ ~Exits(opcode, o)
  <2>1. Costs(Handler(name, type, o), 5, HandlerCost(name, type, taken))
    BY <1>2, <1>4, <1>6, HandlerCosts DEF taken
  <2>2. HandlerCost(name, type, taken) \in Nat /\ OpcodeCost(name, type, taken) <= 6
    BY <1>1, <1>2, BoundedCost
  <2>3. Costs(Program(opcode, o), 9, OpcodeCost(name, type, taken))
    BY <1>3, <2>1, <2>2, FetchedCost DEF OpcodeCost
  <2>4. ASSUME opcode \notin Inexact
        PROVE  OpcodeCost(name, type, taken) = Declared(opcode, o)
    <3>1. Precise(name, type, CycleCount(opcode))
      BY <1>2, <2>4
    <3>2. Declared(opcode, o) = IF taken THEN CycleCount(opcode) ELSE CycleCountFalse(type)
      BY <1>6 DEF Declared, taken, type
    <3>3. CASE taken
      BY <3>1, <3>2, <3>3 DEF Precise
    <3>4. CASE ~taken
      BY <1>1, <3>1, <3>2, <3>4 DEF Precise
    <3>5. QED
      BY <3>3, <3>4
  <2>5. QED
    BY <1>6, <2>2, <2>3, <2>4 DEF Costs
<1>7. CASE Exits(opcode, o)
  <2> DEFINE s == <<"tick">> \o FetchTicks(type)
  <2>1. Handler(name, type, o) = <<"exit">>
    BY <1>4, <1>7 DEF Handler, Jr
  <2>2. Costs(<<"exit">>, 5, 0)
    <3>1. Costs(<<"exit">>, 1, 0)
      BY CostOfSingle DEF MicroOps, Ticks
    <3>2. QED
      BY <3>1, LongerCosts
  <2>3. Costs(Program(opcode, o), 9, 1 + FetchCost(type) + 0)
    BY <1>3, <2>1, <2>2, FetchedCost
  <2>4. FetchCost(type) \in 0..3
    BY DEF FetchCost
  <2>5. <<"tick">> \in Seq(MicroOps) /\ FetchTicks(type) \in Seq(MicroOps)
    BY CostOfSingle, FetchTicksCost DEF Costs, Short
  <2>6. s \in Seq(MicroOps)
    BY <2>5, ConcatProperties
  <2> HIDE DEF s
  <2>7. Program(opcode, o) = Append(s, "exit")
    BY <1>3, <2>1, <2>6 DEF s
  <2>8. Program(opcode, o) # << >> /\ Program(opcode, o)[Len(Program(opcode, o))] = "exit"
    BY <2>6, <2>7
  <2>9. QED
    BY <1>7, <2>3, <2>4, <2>8 DEF Costs
<1>8. QED
  BY <1>5, <1>6, <1>7

-----------------------------------------------------------------------------
(* The execution. *)

(* The time that has passed and the cost of what is left are together the  *)
(* cost of the instruction; one that exits never runs out of what is left. *)
Progress ==
  /\ op \in 0..255 /\ operands \in Operands
  /\ status \in {"idle", "running", "done", "exited"}
  /\ Short(todo, 9)
  /\ elapsed \in Nat
  /\ status = "idle" => elapsed = 0
  /\ status # "idle" => elapsed + Cost(todo) = Cost(Program(op, operands))
  /\ status = "done" => todo = << >> /\ ~Exits(op, operands)
  /\ status = "running" /\ Exits(op, operands) =>
       todo # << >> /\ todo[Len(todo)] = "exit"

LEMMA StartProgresses ==
  /\ Init => Progress
  /\ Progress /\ Retire => Progress'
<1>1. LET o == [condition |-> TRUE, self_jump |-> FALSE, cb |-> 0]
      IN  o \in Operands /\ 0 \in 0..255
  BY DEF Operands
<1>2. Short(<< >>, 9)
  BY DEF Short
<1>3. Init => Progress
  BY <1>1, <1>2 DEF Init, Progress
<1>4. Progress /\ Retire => Progress'
  BY <1>1 DEF Progress, Retire
<1>5. QED
  BY <1>3, <1>4

LEMMA NextProgresses == Progress /\ [Next]_vars => Progress'
<1> SUFFICES ASSUME Progress, [Next]_vars
             PROVE  Progress'
  OBVIOUS
<1>1. CASE Begin
  <2>1. /\ op' \in 0..255 /\ operands' \in Operands /\ status' = "running"
        /\ todo' = Program(op', operands') /\ elapsed' = 0
    BY <1>1 DEF Begin, OperandsOf
  <2>2. /\ Short(todo', 9)
        /\ Exits(op', operands') => todo' # << >> /\ todo'[Len(todo')] = "exit"
    BY <2>1, ProgramCosts
  <2>3. elapsed' + Cost(todo') = Cost(Program(op', operands'))
    BY <2>1, CostType
  <2>4. Exits(op, operands)' <=> Exits(op', operands')
    BY DEF Exits
  <2>5. QED
    BY <2>1, <2>2, <2>3, <2>4 DEF Progress
<1>2. CASE Advance
  <2>1. /\ status = "running" /\ todo # << >> /\ Head(todo) # "exit"
        /\ todo' = Tail(todo) /\ elapsed' = elapsed + CyclesOf(Head(todo))
        /\ UNCHANGED <<op, operands, status>>
    BY <1>2 DEF Advance
  <2>2. /\ Short(todo', 9) /\ Cost(todo) = CyclesOf(Head(todo)) + Cost(todo')
        /\ CyclesOf(Head(todo)) \in Nat /\ Cost(todo') \in Nat
    BY <2>1, CostOfTail, CostType DEF Progress, CyclesOf
  <2>3. elapsed' \in Nat /\ elapsed' + Cost(todo') = Cost(Program(op, operands))
    BY <2>1, <2>2 DEF Progress
  <2>4. ASSUME Exits(op, operands)
        PROVE  todo' # << >> /\ todo'[Len(todo')] = "exit"
    <3>1. /\ todo \in Seq(MicroOps) /\ Len(todo) \in Nat /\ Len(todo) # 0
          /\ todo[Len(todo)] = "exit" /\ todo[1] # "exit"
      BY <2>1, <2>4 DEF Progress, Short
    <3>2. /\ Len(todo') = Len(todo) - 1 /\ todo' \in Seq(MicroOps)
          /\ \A i \in 1..Len(todo') : todo'[i] = todo[i + 1]
      BY <2>1, <3>1, HeadTailProperties
    <3>3. QED
      BY <3>1, <3>2
  <2>5. Exits(op, operands)' <=> Exits(op, operands)
    BY <2>1 DEF Exits
  <2>6. QED
    BY <2>1, <2>2, <2>3, <2>4, <2>5 DEF Progress
<1>3. CASE Return
  <2>1. Exits(op, operands)' <=> Exits(op, operands)
    BY <1>3 DEF Exits, Return
  <2>2. QED
    BY <1>3, <2>1 DEF Progress, Return
<1>4. CASE Exit
  BY <1>4 DEF Progress, Exit
<1>5. CASE Retire
  BY <1>5, StartProgresses
<1>6. CASE UNCHANGED vars
  <2>1. Exits(op, operands)' <=> Exits(op, operands)
    BY <1>6 DEF Exits, vars
  <2>2. QED
    BY <1>6, <2>1 DEF Progress, vars
<1>7. QED
  BY <1>1, <1>2, <1>3, <1>4, <1>5, <1>6 DEF Next

LEMMA ProgressBounds == Progress => TypeOK /\ ClockMatchesTable
<1> SUFFICES ASSUME Progress
             PROVE  TypeOK /\ ClockMatchesTable
  OBVIOUS
<1>1. /\ Short(Program(op, operands), 9) /\ Cost(Program(op, operands)) <= 6
      /\ op \notin Inexact /\ ~Exits(op, operands) =>
           Cost(Program(op, operands)) = Declared(op, operands)
  BY ProgramCosts DEF Progress
<1>2. elapsed <= 6
  BY <1>1, CostType DEF Progress
<1>3. TypeOK
  BY <1>2 DEF Progress, TypeOK, Short
<1>4. ASSUME status = "done", op \notin Inexact
      PROVE  elapsed = Declared(op, operands)
  <2>1. elapsed + Cost(<< >>) = Declared(op, operands)
    BY <1>1, <1>4 DEF Progress
  <2>2. Cost(<< >>) = 0 /\ elapsed \in Nat
    BY CostOfSingle DEF Costs, Progress
  <2>3. QED
    BY <2>1, <2>2
<1>5. QED
  BY <1>3, <1>4 DEF ClockMatchesTable

(* With -x or without: every program consists of known micro-operations,   *)
(* and no instruction takes more than six cycles                           *)
(* (instruction_fetch.c:113-390, instruction.c).                           *)
THEOREM InstructionTypes == Spec => []TypeOK
<1>1. Init => Progress
  BY StartProgresses
<1>2. Progress => TypeOK
  BY ProgressBounds
<1>3. QED
  BY <1>1, <1>2, NextProgresses, PTL DEF Spec

(* With -x or without: but for the opcodes of Inexact, every instruction   *)
(* that returns has passed exactly the cycles declared for the path it     *)
(* took (instruction_fetch.c:113-390, instruction.c, instruction_cb.c).    *)
THEOREM ClockKeepsTable == Spec => []ClockMatchesTable
<1>1. Init => Progress
  BY StartProgresses
<1>2. Progress => ClockMatchesTable
  BY ProgressBounds
<1>3. QED
  BY <1>1, <1>2, NextProgresses, PTL DEF Spec
=============================================================================
