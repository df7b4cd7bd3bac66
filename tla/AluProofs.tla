----------------------------- MODULE AluProofs ------------------------------
(***************************************************************************)
(* What the arithmetic of the CPU computes, for every byte and every       *)
(* setting of the flags: the lemmas the programs of AluPrograms rest on.   *)
(***************************************************************************)
EXTENDS Alu, TLAPS

-----------------------------------------------------------------------------
(* Every operation leaves a byte and four flags. *)

Results == [a : Byte, f : Flags]

(* A u8 is never out of range. *)
LEMMA Truncated == \A value \in Int : value % 256 \in Byte
BY DEF Byte

\* The fields of a result.
LEMMA ZeroedFields ==
  ASSUME NEW value, NEW n, NEW h, NEW c
  PROVE  /\ Zeroed(value, n, h, c).a = value % 256
         /\ Zeroed(value, n, h, c).f.z = (value % 256 = 0)
         /\ Zeroed(value, n, h, c).f.n = n
         /\ Zeroed(value, n, h, c).f.h = h
         /\ Zeroed(value, n, h, c).f.c = c
BY DEF Zeroed, Result

LEMMA FromBitsType ==
  ASSUME NEW S
  PROVE  FromBits(S) \in Byte
<1>1. /\ 2^0 = 1 /\ 2^1 = 2 /\ 2^2 = 4 /\ 2^3 = 8
      /\ 2^4 = 16 /\ 2^5 = 32 /\ 2^6 = 64 /\ 2^7 = 128
  OBVIOUS
<1>2. QED
  BY <1>1 DEF FromBits, Byte

AccumulatorOperations ==
  {"ADD", "ADC", "SUB", "SBC", "CP", "AND", "OR", "XOR", "INC", "DEC", "DAA",
   "CPL", "SCF", "CCF"}

Rotations == {"RLC", "RRC", "RL", "RR", "SLA", "SRA", "SRL", "SWAP",
              "RLCA", "RRCA", "RLA", "RRA"}

BitOperations == {"RES", "SET", "BIT"}

LEMMA AccumulatorType ==
  ASSUME NEW operation \in AccumulatorOperations,
         NEW a \in Byte, NEW d \in Byte, NEW f \in Flags
  PROVE  Apply(operation, a, d, f) \in Results
<1>1. a \in Int /\ d \in Int
  BY DEF Byte
<1>2. f.c \in BOOLEAN /\ Number(f.c) \in 0..1
  BY DEF Flags, Number
<1>3. Add(a, d, f) \in Results
  <2>1. (a + d) % 256 \in Byte
    BY <1>1, Truncated
  <2>2. QED
    BY <2>1 DEF Add, Zeroed, Result, Results, Flags
<1>4. Adc(a, d, f) \in Results
  <2>1. (a + d + Number(f.c)) % 256 \in Byte
    BY <1>1, <1>2, Truncated
  <2>2. QED
    BY <2>1 DEF Adc, Zeroed, Result, Results, Flags
<1>5. Sub(a, d, f) \in Results
  <2>1. (a - d) % 256 \in Byte
    BY <1>1, Truncated
  <2>2. QED
    BY <2>1 DEF Sub, Zeroed, Result, Results, Flags
<1>6. Sbc(a, d, f) \in Results
  <2>1. (a - d - Number(f.c)) % 256 \in Byte
    BY <1>1, <1>2, Truncated
  <2>2. \A v, n : Bit(v, n) \in BOOLEAN
    BY DEF Bit
  <2>3. QED
    BY <2>1, <2>2 DEF Sbc, Zeroed, Result, Results, Flags
<1>7. Cp(a, d, f) \in Results
  <2>1. a % 256 \in Byte
    BY <1>1, Truncated
  <2>2. QED
    BY <2>1 DEF Cp, Result, Results, Flags
<1>8. And(a, d, f) \in Results /\ Or(a, d, f) \in Results /\ Xor(a, d, f) \in Results
  <2>1. \A S : FromBits(S) % 256 \in Byte
    BY FromBitsType, Truncated DEF Byte
  <2>2. QED
    BY <2>1 DEF And, Or, Xor, Zeroed, Result, Results, Flags
<1>9. Inc(a, d, f) \in Results /\ Dec(a, d, f) \in Results
  <2>1. (a + 1) % 256 \in Byte /\ (a - 1) % 256 \in Byte
    BY <1>1, Truncated
  <2>2. QED
    BY <1>2, <2>1 DEF Inc, Dec, Zeroed, Result, Results, Flags
<1>10. Daa(a, d, f) \in Results
  <2> DEFINE high  == DaaHigh(a, f)
             once  == IF f.n THEN (IF f.c THEN a - 96 ELSE a) % 256
                      ELSE (IF high THEN a + 96 ELSE a) % 256
             low   == f.h \/ (~f.n /\ once % 16 > 9)
             twice == IF ~low THEN once ELSE IF f.n THEN once - 6 ELSE once + 6
  <2>1. once \in Int
    BY <1>1
  <2>2. twice \in Int
    <3> HIDE DEF once, low
    <3> QED
      BY <2>1
  <2>3. Daa(a, d, f) = Zeroed(twice, f.n, FALSE, f.c \/ high)
    BY DEF Daa
  <2> HIDE DEF twice, high
  <2>4. twice % 256 \in Byte
    BY <2>2, Truncated
  <2>5. QED
    BY <2>3, <2>4 DEF Zeroed, Result, Results, Flags
<1>11. Cpl(a, d, f) \in Results /\ Scf(a, d, f) \in Results /\ Ccf(a, d, f) \in Results
  <2>1. 255 - a \in Byte
    BY DEF Byte
  <2>2. QED
    BY <2>1 DEF Cpl, Scf, Ccf, Results, Flags
<1>12. QED
  BY <1>3, <1>4, <1>5, <1>6, <1>7, <1>8, <1>9, <1>10, <1>11
     DEF Apply, AccumulatorOperations

LEMMA RotationType ==
  ASSUME NEW operation \in Rotations,
         NEW a \in Byte, NEW d, NEW f \in Flags
  PROVE  Apply(operation, a, d, f) \in Results
<1>1. /\ a \in Int /\ a \div 2 \in Int /\ a \div 16 \in Int /\ a % 16 \in Int
      /\ \A b : Number(b) \in Int
  BY DEF Byte, Number
<1>2. /\ (2 * a) % 256 \in Byte /\ (a \div 2) % 256 \in Byte
      /\ \A b : (2 * a + Number(b)) % 256 \in Byte
      /\ \A b : ((a \div 2) + 128 * Number(b)) % 256 \in Byte
      /\ ((a \div 16) + 16 * (a % 16)) % 256 \in Byte
  <2>1. \A m, n \in Int : m + n \in Int /\ 128 * n \in Int /\ 16 * n \in Int /\ 2 * n \in Int
    OBVIOUS
  <2>2. QED
    BY <1>1, <2>1, Truncated
<1>3. Bit(a, 0) \in BOOLEAN /\ Bit(a, 7) \in BOOLEAN
  BY DEF Bit
<1>4. Rlc(a, d, f) \in Results /\ Rl(a, d, f) \in Results /\ Sla(a, d, f) \in Results
  BY <1>2, <1>3 DEF Rlc, Rl, Sla, Zeroed, Result, Results, Flags
<1>5. Rrc(a, d, f) \in Results /\ Rr(a, d, f) \in Results
  BY <1>2, <1>3 DEF Rrc, Rr, Zeroed, Result, Results, Flags
<1>6. Sra(a, d, f) \in Results /\ Srl(a, d, f) \in Results
  BY <1>2, <1>3 DEF Sra, Srl, Zeroed, Result, Results, Flags
<1>7. Swap(a, d, f) \in Results
  BY <1>2 DEF Swap, Zeroed, Result, Results, Flags
<1>8. \A r \in Results : NoZero(r) \in Results
  BY DEF NoZero, Results, Flags
<1>9. QED
  BY <1>4, <1>5, <1>6, <1>7, <1>8 DEF Apply, Rotations, Rlca, Rrca, Rla, Rra

LEMMA BitOperationType ==
  ASSUME NEW operation \in BitOperations,
         NEW a \in Byte, NEW d, NEW f \in Flags
  PROVE  Apply(operation, a, d, f) \in Results
<1>1. Res(a, d, f) \in Results /\ Set(a, d, f) \in Results
  BY FromBitsType DEF Res, Set, Results
<1>2. TestBit(a, d, f) \in Results
  <2>1. a % 256 \in Byte
    BY Truncated DEF Byte
  <2>2. f.c \in BOOLEAN /\ (~Bit(a, d)) \in BOOLEAN
    BY DEF Flags
  <2>3. QED
    BY <2>1, <2>2 DEF TestBit, Result, Results, Flags
<1>3. QED
  BY <1>1, <1>2 DEF Apply, BitOperations

-----------------------------------------------------------------------------
(* Two bytes make a word. *)

WordOf(low, high) == low + 256 * high

(* Addition: the carry of the low bytes, added to the high bytes. *)
LEMMA WordSum ==
  ASSUME NEW l1 \in Byte, NEW h1 \in Byte, NEW l2 \in Byte, NEW h2 \in Byte,
         NEW k \in 0..1, k = IF l1 + l2 >= 256 THEN 1 ELSE 0
  PROVE  /\ WordOf((l1 + l2) % 256, (h1 + h2 + k) % 256) =
              (WordOf(l1, h1) + WordOf(l2, h2)) % 65536
         /\ (h1 + h2 + k >= 256) <=> (WordOf(l1, h1) + WordOf(l2, h2) >= 65536)
         /\ ((h1 % 16) + (h2 % 16) + k >= 16) <=>
              ((WordOf(l1, h1) % 4096) + (WordOf(l2, h2) % 4096) >= 4096)
<1>1. ((l1 + l2) % 256) + 256 * ((h1 + h2 + k) % 256) =
        (l1 + 256 * h1 + (l2 + 256 * h2)) % 65536
  BY DEF Byte
<1>2. (h1 + h2 + k >= 256) <=> (l1 + 256 * h1 + (l2 + 256 * h2) >= 65536)
  BY DEF Byte
<1>3. ((h1 % 16) + (h2 % 16) + k >= 16) <=>
        (((l1 + 256 * h1) % 4096) + ((l2 + 256 * h2) % 4096) >= 4096)
  BY DEF Byte
<1>4. QED
  BY <1>1, <1>2, <1>3 DEF WordOf

LEMMA ByteBits ==
  \A v : /\ Bit(v, 0) <=> (v \div 1) % 2 = 1
         /\ Bit(v, 4) <=> (v \div 16) % 2 = 1
         /\ Bit(v, 7) <=> (v \div 128) % 2 = 1
         /\ Bit(v, 8) <=> (v \div 256) % 2 = 1
<1>1. 2^0 = 1 /\ 2^4 = 16 /\ 2^7 = 128 /\ 2^8 = 256
  OBVIOUS
<1>2. QED
  BY <1>1 DEF Bit

(* Subtraction: the borrow of the low bytes, taken from the high bytes. *)
LEMMA WordDifference ==
  ASSUME NEW l1 \in Byte, NEW h1 \in Byte, NEW l2 \in Byte, NEW h2 \in Byte,
         NEW k \in 0..1, k = IF l1 < l2 THEN 1 ELSE 0
  PROVE  /\ (h1 - h2 - k) % 256 = ((WordOf(l1, h1) - WordOf(l2, h2)) % 65536) \div 256
         /\ (l1 - l2) % 256 = (WordOf(l1, h1) - WordOf(l2, h2)) % 256
         /\ (h1 - h2 - k < 0) <=> (WordOf(l1, h1) < WordOf(l2, h2))
         /\ ((h1 % 16) - (h2 % 16) - k < 0) <=>
              ((WordOf(l1, h1) % 4096) < (WordOf(l2, h2) % 4096))
<1>1. (h1 - h2 - k) % 256 = ((WordOf(l1, h1) - WordOf(l2, h2)) % 65536) \div 256
  BY DEF Byte, WordOf
<1>2. (l1 - l2) % 256 = (WordOf(l1, h1) - WordOf(l2, h2)) % 256
  BY DEF Byte, WordOf
<1>3. (h1 - h2 - k < 0) <=> (WordOf(l1, h1) < WordOf(l2, h2))
  BY DEF Byte, WordOf
<1>4. ((h1 % 16) - (h2 % 16) - k < 0) <=>
        (WordOf(l1, h1) % 4096) < (WordOf(l2, h2) % 4096)
  <2> DEFINE m == h1 % 16
             n == h2 % 16
  <2>1. WordOf(l1, h1) % 4096 = l1 + 256 * m /\ WordOf(l2, h2) % 4096 = l2 + 256 * n
    BY DEF Byte, WordOf
  <2>2. m \in 0..15 /\ n \in 0..15
    BY DEF Byte
  <2> HIDE DEF m, n
  <2>3. m - n - k < 0 <=> l1 + 256 * m < l2 + 256 * n
    BY <2>2 DEF Byte
  <2>4. QED
    BY <2>1, <2>3 DEF m, n
<1>5. QED
  BY <1>1, <1>2, <1>3, <1>4

(* Shifts: the bit that leaves one byte enters the other. *)
LEMMA WordShift ==
  ASSUME NEW low \in Byte, NEW high \in Byte
  PROVE  /\ WordOf((2 * low) % 256, (2 * high + Number(Bit(low, 7))) % 256) =
              (2 * WordOf(low, high)) % 65536
         /\ Bit(high, 7) <=> (WordOf(low, high) >= 32768)
         /\ WordOf(((low \div 2) + 128 * Number(Bit(high, 0))) % 256, (high \div 2) % 256) =
              WordOf(low, high) \div 2
         /\ Bit(low, 0) <=> (low % 2 = 1)
<1>1. /\ Bit(low, 7) <=> low >= 128
      /\ Bit(high, 7) <=> high >= 128
      /\ Bit(high, 0) <=> high % 2 = 1
      /\ Bit(low, 0) <=> low % 2 = 1
  <2>1. \A b \in Byte : ((b \div 128) % 2 = 1 <=> b >= 128)
                         /\ ((b \div 1) % 2 = 1 <=> b % 2 = 1)
    BY DEF Byte
  <2>2. QED
    BY <2>1, ByteBits
<1>2. Number(Bit(low, 7)) = low \div 128 /\ Number(Bit(high, 0)) = high % 2
  BY <1>1 DEF Number, Byte
<1>3. ((2 * low) % 256) + 256 * ((2 * high + (low \div 128)) % 256)
        = (2 * (low + 256 * high)) % 65536
  BY DEF Byte
<1>4. (high >= 128) <=> (low + 256 * high >= 32768)
  BY DEF Byte
<1>5. (((low \div 2) + 128 * (high % 2)) % 256) + 256 * ((high \div 2) % 256)
        = (low + 256 * high) \div 2
  BY DEF Byte
<1>6. QED
  BY <1>1, <1>2, <1>3, <1>4, <1>5 DEF WordOf

-----------------------------------------------------------------------------
(* Decimal digits. *)

DecimalByte == {b \in Byte : b % 16 < 10 /\ b \div 16 < 10}

\* The value of a byte of two decimal digits.
Decimal(b) == (b % 16) + 10 * (b \div 16)

LEMMA DecimalDigits ==
  ASSUME NEW v \in 0..9, NEW w \in 0..9
  PROVE  16 * v + w \in DecimalByte /\ Decimal(16 * v + w) = w + 10 * v
<1>1. (16 * v + w) % 16 = w /\ (16 * v + w) \div 16 = v
  OBVIOUS
<1>2. QED
  BY <1>1 DEF DecimalByte, Decimal, Byte

(* The correction of a sum: six for a low digit above 9 or a half carry,   *)
(* ninety-six for a byte above 0x99 or a carry.                            *)
SumCorrection(t, u, b, high, once, low, twice) ==
  /\ b = (16 * u + t) % 256
  /\ high <=> (16 * u + t >= 256 \/ b > 153)
  /\ once = (IF high THEN b + 96 ELSE b) % 256
  /\ low <=> (t >= 16 \/ once % 16 > 9)
  /\ twice = (IF low THEN once + 6 ELSE once) % 256

LEMMA CorrectedSum ==
  ASSUME NEW t \in 0..19, NEW u \in 0..18, NEW b, NEW once, NEW twice,
         NEW high \in BOOLEAN, NEW low \in BOOLEAN,
         SumCorrection(t, u, b, high, once, low, twice)
  PROVE  /\ twice \in DecimalByte
         /\ Decimal(twice) = (t + 10 * u) % 100
         /\ high <=> (t + 10 * u >= 100)
<1>1. high <=> 16 * u + t >= 154
  BY DEF SumCorrection
<1>2. once % 16 = t % 16
  <2>1. CASE high
    BY <2>1 DEF SumCorrection
  <2>2. CASE ~high
    BY <2>2 DEF SumCorrection
  <2>3. QED
    BY <2>1, <2>2 DEF SumCorrection
<1>3. low <=> t >= 10
  BY <1>2 DEF SumCorrection
<1>4. twice \in DecimalByte /\ Decimal(twice) = (t + 10 * u) % 100
  <2>1. CASE high /\ low
    <3> DEFINE v == u - 9
               w == t - 10
    <3>1. v \in 0..9 /\ w \in 0..9 /\ twice = 16 * v + w /\ w + 10 * v = (t + 10 * u) % 100
      BY <1>1, <1>3, <2>1 DEF SumCorrection
    <3> HIDE DEF v, w
    <3>2. QED
      BY <3>1, DecimalDigits
  <2>2. CASE high /\ ~low
    <3> DEFINE v == u - 10
               w == t
    <3>1. v \in 0..9 /\ w \in 0..9 /\ twice = 16 * v + w /\ w + 10 * v = (t + 10 * u) % 100
      BY <1>1, <1>3, <2>2 DEF SumCorrection
    <3> HIDE DEF v, w
    <3>2. QED
      BY <3>1, DecimalDigits
  <2>3. CASE ~high /\ low
    <3> DEFINE v == u + 1
               w == t - 10
    <3>1. v \in 0..9 /\ w \in 0..9 /\ twice = 16 * v + w /\ w + 10 * v = (t + 10 * u) % 100
      BY <1>1, <1>3, <2>3 DEF SumCorrection
    <3> HIDE DEF v, w
    <3>2. QED
      BY <3>1, DecimalDigits
  <2>4. CASE ~high /\ ~low
    <3> DEFINE v == u
               w == t
    <3>1. v \in 0..9 /\ w \in 0..9 /\ twice = 16 * v + w /\ w + 10 * v = (t + 10 * u) % 100
      BY <1>1, <1>3, <2>4 DEF SumCorrection
    <3> HIDE DEF v, w
    <3>2. QED
      BY <3>1, DecimalDigits
  <2>5. QED
    BY <2>1, <2>2, <2>3, <2>4 DEF SumCorrection
<1>5. high <=> t + 10 * u >= 100
  BY <1>1 DEF SumCorrection
<1>6. QED
  BY <1>4, <1>5 DEF SumCorrection

(* The correction of a difference: six for a half borrow, ninety-six for a *)
(* borrow.                                                                 *)
DifferenceCorrection(t, u, b, c, once, twice) ==
  /\ b = (16 * u + t) % 256
  /\ c <=> 16 * u + t < 0
  /\ once = (IF c THEN b - 96 ELSE b) % 256
  /\ twice = (IF t < 0 THEN once - 6 ELSE once) % 256

LEMMA CorrectedDifference ==
  ASSUME NEW t \in (-10)..9, NEW u \in (-9)..9, NEW b, NEW once, NEW twice,
         NEW c \in BOOLEAN, DifferenceCorrection(t, u, b, c, once, twice)
  PROVE  /\ twice \in DecimalByte
         /\ Decimal(twice) = (t + 10 * u) % 100
         /\ c <=> (t + 10 * u < 0)
<1>1. twice \in DecimalByte /\ Decimal(twice) = (t + 10 * u) % 100
  <2>1. CASE c /\ t < 0
    <3> DEFINE v == u + 9
               w == t + 10
    <3>1. v \in 0..9 /\ w \in 0..9 /\ twice = 16 * v + w /\ w + 10 * v = (t + 10 * u) % 100
      BY <2>1 DEF DifferenceCorrection
    <3> HIDE DEF v, w
    <3>2. QED
      BY <3>1, DecimalDigits
  <2>2. CASE c /\ ~(t < 0)
    <3> DEFINE v == u + 10
               w == t
    <3>1. v \in 0..9 /\ w \in 0..9 /\ twice = 16 * v + w /\ w + 10 * v = (t + 10 * u) % 100
      BY <2>2 DEF DifferenceCorrection
    <3> HIDE DEF v, w
    <3>2. QED
      BY <3>1, DecimalDigits
  <2>3. CASE ~c /\ t < 0
    <3> DEFINE v == u - 1
               w == t + 10
    <3>1. v \in 0..9 /\ w \in 0..9 /\ twice = 16 * v + w /\ w + 10 * v = (t + 10 * u) % 100
      BY <2>3 DEF DifferenceCorrection
    <3> HIDE DEF v, w
    <3>2. QED
      BY <3>1, DecimalDigits
  <2>4. CASE ~c /\ ~(t < 0)
    <3> DEFINE v == u
               w == t
    <3>1. v \in 0..9 /\ w \in 0..9 /\ twice = 16 * v + w /\ w + 10 * v = (t + 10 * u) % 100
      BY <2>4 DEF DifferenceCorrection
    <3> HIDE DEF v, w
    <3>2. QED
      BY <3>1, DecimalDigits
  <2>5. QED
    BY <2>1, <2>2, <2>3, <2>4 DEF DifferenceCorrection
<1>2. c <=> (t + 10 * u < 0)
  BY DEF DifferenceCorrection
<1>3. QED
  BY <1>1, <1>2 DEF DifferenceCorrection

-----------------------------------------------------------------------------
(* Sums and differences of bytes. *)

\* The results of an addition and of a subtraction with a carry k.
SumOf(r, l, m, k) ==
  /\ r.a = (l + m + k) % 256
  /\ r.f.n = FALSE
  /\ r.f.c = (l + m + k >= 256)
  /\ r.f.h = ((l % 16) + (m % 16) + k >= 16)

DifferenceOf(r, l, m, k) ==
  /\ r.a = (l - m - k) % 256
  /\ r.f.n = TRUE
  /\ r.f.c = (l - m - k < 0)
  /\ r.f.h = ((l % 16) - (m % 16) - k < 0)

LEMMA AddIsSum ==
  ASSUME NEW l \in Byte, NEW m \in Byte, NEW g, NEW k, k = 0
  PROVE  SumOf(Apply("ADD", l, m, g), l, m, k)
<1>1. Apply("ADD", l, m, g) = Add(l, m, g)
  BY DEF Apply
<1>2. l + m + k = l + m /\ (l % 16) + (m % 16) + k = (l % 16) + (m % 16)
  BY DEF Byte
<1>3. QED
  BY <1>1, <1>2 DEF Add, Zeroed, Result, SumOf

LEMMA AdcIsSum ==
  ASSUME NEW l \in Byte, NEW m \in Byte, NEW g
  PROVE  SumOf(Apply("ADC", l, m, g), l, m, Number(g.c))
<1>1. Apply("ADC", l, m, g) = Adc(l, m, g)
  BY DEF Apply
<1>2. QED
  BY <1>1 DEF Adc, Zeroed, Result, SumOf

LEMMA SubIsDifference ==
  ASSUME NEW l \in Byte, NEW m \in Byte, NEW g, NEW k, k = 0
  PROVE  DifferenceOf(Apply("SUB", l, m, g), l, m, k)
<1>1. Apply("SUB", l, m, g) = Sub(l, m, g)
  BY DEF Apply
<1>2. /\ l - m - k = l - m
      /\ (m > l) = (l - m - k < 0)
      /\ (l % 16 < m % 16) = ((l % 16) - (m % 16) - k < 0)
  BY DEF Byte
<1>3. QED
  BY <1>1, <1>2 DEF Sub, Zeroed, Result, DifferenceOf

(* The borrow is a bit of the wrapped difference. *)
LEMMA Borrows ==
  ASSUME NEW l \in Byte, NEW m \in Byte, NEW k \in 0..1
  PROVE  /\ Bit((l - m - k) % 65536, 8) = (l - m - k < 0)
         /\ Bit(((l % 16) - (m % 16) - k) % 256, 4) = ((l % 16) - (m % 16) - k < 0)
<1> DEFINE w == (l - m - k) % 65536
           p == l % 16
           q == m % 16
           v == (p - q - k) % 256
<1>1. (w \div 256) % 2 = 1 <=> l - m - k < 0
  BY DEF Byte
<1>2. p \in 0..15 /\ q \in 0..15
  BY DEF Byte
<1> HIDE DEF p, q
<1>3. (v \div 16) % 2 = 1 <=> p - q - k < 0
  BY <1>2
<1> HIDE DEF w, v
<1>4. Bit(w, 8) = ((w \div 256) % 2 = 1) /\ Bit(v, 4) = ((v \div 16) % 2 = 1)
  BY DEF Bit
<1>5. Bit(w, 8) = (l - m - k < 0) /\ Bit(v, 4) = (p - q - k < 0)
  BY <1>1, <1>3, <1>4
<1>6. QED
  BY <1>5 DEF w, v, p, q

LEMMA SbcIsDifference ==
  ASSUME NEW l \in Byte, NEW m \in Byte, NEW g
  PROVE  DifferenceOf(Apply("SBC", l, m, g), l, m, Number(g.c))
<1> DEFINE k == Number(g.c)
<1>1. k \in 0..1
  BY DEF Number
<1>2. Apply("SBC", l, m, g) = Sbc(l, m, g)
  BY DEF Apply
<1>3. /\ Sbc(l, m, g).a = (l - m - k) % 256
      /\ Sbc(l, m, g).f.c = Bit((l - m - k) % 65536, 8)
      /\ Sbc(l, m, g).f.h = Bit(((l % 16) - (m % 16) - k) % 256, 4)
      /\ Sbc(l, m, g).f.n = TRUE
  BY DEF Sbc, Zeroed, Result
<1> HIDE DEF k
<1>4. /\ Bit((l - m - k) % 65536, 8) = (l - m - k < 0)
      /\ Bit(((l % 16) - (m % 16) - k) % 256, 4) = ((l % 16) - (m % 16) - k < 0)
  BY <1>1, Borrows
<1>5. DifferenceOf(Apply("SBC", l, m, g), l, m, k)
  BY <1>2, <1>3, <1>4 DEF DifferenceOf
<1>6. QED
  BY <1>5 DEF k

-----------------------------------------------------------------------------
(* Decimal numbers. *)

\* Binary results of two digits each, and the byte and carry of a decimal one.
SumOfDigits(r, t, u) ==
  /\ r.a = (16 * u + t) % 256
  /\ r.f.n = FALSE
  /\ r.f.c = (16 * u + t >= 256)
  /\ r.f.h = (t >= 16)

DifferenceOfDigits(r, t, u) ==
  /\ r.a = (16 * u + t) % 256
  /\ r.f.n = TRUE
  /\ r.f.c = (16 * u + t < 0)
  /\ r.f.h = (t < 0)

DecimalCarry(s, n) ==
  /\ s.a \in DecimalByte
  /\ Decimal(s.a) = n % 100
  /\ s.f.c = (n >= 100)

DecimalBorrow(s, n) ==
  /\ s.a \in DecimalByte
  /\ Decimal(s.a) = n % 100
  /\ s.f.c = (n < 0)

LEMMA DaaOfSum ==
  ASSUME NEW t \in 0..19, NEW u \in 0..18, NEW d, NEW r, r.f \in Flags,
         SumOfDigits(r, t, u), NEW s, s = Apply("DAA", r.a, d, r.f)
  PROVE  DecimalCarry(s, t + 10 * u)
<1> DEFINE b == r.a
           g == r.f
           high == DaaHigh(b, g)
           once == (IF high THEN b + 96 ELSE b) % 256
           low  == g.h \/ once % 16 > 9
           twice == (IF low THEN once + 6 ELSE once) % 256
<1>1. /\ g \in Flags /\ b = (16 * u + t) % 256
      /\ g.n = FALSE /\ g.c = (16 * u + t >= 256) /\ g.h = (t >= 16)
  BY DEF SumOfDigits
<1>2. s = Daa(b, d, g)
  BY DEF Apply
<1> HIDE DEF b, g
<1>3. s.a = twice /\ s.f.c = (g.c \/ high)
  BY <1>1, <1>2 DEF Daa, Zeroed, Result
<1>4. high \in BOOLEAN /\ (high <=> (16 * u + t >= 256 \/ b > 153))
  BY <1>1 DEF DaaHigh
<1>5. low \in BOOLEAN /\ (low <=> (t >= 16 \/ once % 16 > 9))
  BY <1>1 DEF Flags
<1> HIDE DEF high
<1>6. once = (IF high THEN b + 96 ELSE b) % 256
  OBVIOUS
<1> HIDE DEF once, low
<1>7. twice = (IF low THEN once + 6 ELSE once) % 256
  OBVIOUS
<1> HIDE DEF twice
<1>8. /\ twice \in DecimalByte
      /\ Decimal(twice) = (t + 10 * u) % 100
      /\ high <=> (t + 10 * u >= 100)
  <2>1. SumCorrection(t, u, b, high, once, low, twice)
    BY <1>1, <1>4, <1>5, <1>6, <1>7 DEF SumCorrection
  <2>2. QED
    BY <1>4, <1>5, <2>1, CorrectedSum
<1>9. (g.c \/ high) = (t + 10 * u >= 100)
  BY <1>1, <1>4, <1>8
<1>10. QED
  BY <1>3, <1>8, <1>9 DEF DecimalCarry

LEMMA DaaOfDifference ==
  ASSUME NEW t \in (-10)..9, NEW u \in (-9)..9, NEW d, NEW r, r.f \in Flags,
         DifferenceOfDigits(r, t, u), NEW s, s = Apply("DAA", r.a, d, r.f)
  PROVE  DecimalBorrow(s, t + 10 * u)
<1> DEFINE b == r.a
           g == r.f
           once == (IF g.c THEN b - 96 ELSE b) % 256
           twice == (IF t < 0 THEN once - 6 ELSE once) % 256
<1>1. /\ g \in Flags /\ b = (16 * u + t) % 256
      /\ g.n = TRUE /\ g.c = (16 * u + t < 0) /\ g.h = (t < 0)
  BY DEF DifferenceOfDigits
<1>2. s = Daa(b, d, g)
  BY DEF Apply
<1> HIDE DEF b, g
<1>3. s.a = twice /\ s.f.c = g.c
  BY <1>1, <1>2 DEF Daa, DaaHigh, Zeroed, Result, Flags
<1>4. g.c \in BOOLEAN /\ (g.c <=> 16 * u + t < 0)
  BY <1>1 DEF Flags
<1>5. once = (IF g.c THEN b - 96 ELSE b) % 256
  OBVIOUS
<1> HIDE DEF once
<1>6. twice = (IF t < 0 THEN once - 6 ELSE once) % 256
  OBVIOUS
<1> HIDE DEF twice
<1>7. /\ twice \in DecimalByte
      /\ Decimal(twice) = (t + 10 * u) % 100
      /\ g.c <=> (t + 10 * u < 0)
  <2> DEFINE c == g.c
  <2>1. c \in BOOLEAN /\ DifferenceCorrection(t, u, b, c, once, twice)
    BY <1>1, <1>4, <1>5, <1>6 DEF DifferenceCorrection
  <2> HIDE DEF c
  <2>2. /\ twice \in DecimalByte
        /\ Decimal(twice) = (t + 10 * u) % 100
        /\ c <=> (t + 10 * u < 0)
    BY <2>1, CorrectedDifference
  <2>3. QED
    BY <2>2 DEF c
<1>8. QED
  BY <1>3, <1>4, <1>7 DEF DecimalBorrow

LEMMA CorrectedSumByte ==
  ASSUME NEW l \in DecimalByte, NEW m \in DecimalByte, NEW k \in 0..1, NEW d,
         NEW r, r.f \in Flags, SumOf(r, l, m, k)
  PROVE  DecimalCarry(Apply("DAA", r.a, d, r.f), Decimal(l) + Decimal(m) + k)
<1> DEFINE t == (l % 16) + (m % 16) + k
           u == (l \div 16) + (m \div 16)
<1>1. t \in 0..19 /\ u \in 0..18 /\ l + m + k = 16 * u + t
  BY DEF DecimalByte, Byte
<1>2. t + 10 * u = Decimal(l) + Decimal(m) + k
  BY DEF Decimal, DecimalByte, Byte
<1>3. SumOfDigits(r, t, u)
  BY <1>1 DEF SumOf, SumOfDigits
<1> HIDE DEF t, u
<1>4. DecimalCarry(Apply("DAA", r.a, d, r.f), t + 10 * u)
  <2>1. \A s : s = Apply("DAA", r.a, d, r.f) => DecimalCarry(s, t + 10 * u)
    BY <1>1, <1>3, DaaOfSum
  <2>2. QED
    BY <2>1
<1>5. QED
  BY <1>2, <1>4

LEMMA CorrectedDifferenceByte ==
  ASSUME NEW l \in DecimalByte, NEW m \in DecimalByte, NEW k \in 0..1, NEW d,
         NEW r, r.f \in Flags, DifferenceOf(r, l, m, k)
  PROVE  DecimalBorrow(Apply("DAA", r.a, d, r.f), Decimal(l) - Decimal(m) - k)
<1> DEFINE t == (l % 16) - (m % 16) - k
           u == (l \div 16) - (m \div 16)
<1>1. t \in (-10)..9 /\ u \in (-9)..9 /\ l - m - k = 16 * u + t
  BY DEF DecimalByte, Byte
<1>2. t + 10 * u = Decimal(l) - Decimal(m) - k
  BY DEF Decimal, DecimalByte, Byte
<1>3. DifferenceOfDigits(r, t, u)
  BY <1>1 DEF DifferenceOf, DifferenceOfDigits
<1> HIDE DEF t, u
<1>4. DecimalBorrow(Apply("DAA", r.a, d, r.f), t + 10 * u)
  <2>1. \A s : s = Apply("DAA", r.a, d, r.f) => DecimalBorrow(s, t + 10 * u)
    BY <1>1, <1>3, DaaOfDifference
  <2>2. QED
    BY <2>1
<1>5. QED
  BY <1>2, <1>4

(* Two digits and two digits. *)
FourDigitSum(p1, p2, q1, q2, k) ==
  k = (IF p1 + q1 >= 100 THEN 1 ELSE 0) =>
    /\ ((p1 + q1) % 100) + 100 * ((p2 + q2 + k) % 100) =
          (p1 + 100 * p2 + (q1 + 100 * q2)) % 10000
    /\ (p2 + q2 + k >= 100) <=> (p1 + 100 * p2 + (q1 + 100 * q2) >= 10000)

FourDigitDifference(p1, p2, q1, q2, k) ==
  k = (IF p1 - q1 < 0 THEN 1 ELSE 0) =>
    /\ ((p1 - q1) % 100) + 100 * ((p2 - q2 - k) % 100) =
          ((p1 + 100 * p2) - (q1 + 100 * q2)) % 10000
    /\ (p2 - q2 - k < 0) <=> (p1 + 100 * p2 < q1 + 100 * q2)

LEMMA FourDigits ==
  ASSUME NEW p1 \in 0..99, NEW p2 \in 0..99, NEW q1 \in 0..99, NEW q2 \in 0..99,
         NEW k \in 0..1
  PROVE  FourDigitSum(p1, p2, q1, q2, k) /\ FourDigitDifference(p1, p2, q1, q2, k)
<1>1. ASSUME k = (IF p1 + q1 >= 100 THEN 1 ELSE 0)
      PROVE  /\ ((p1 + q1) % 100) + 100 * ((p2 + q2 + k) % 100) =
                    (p1 + 100 * p2 + (q1 + 100 * q2)) % 10000
             /\ (p2 + q2 + k >= 100) <=> (p1 + 100 * p2 + (q1 + 100 * q2) >= 10000)
  <2>1. (p1 + q1) % 100 = p1 + q1 - 100 * k
    BY <1>1
  <2>2. CASE p2 + q2 + k >= 100
    <3>1. (p2 + q2 + k) % 100 = p2 + q2 + k - 100
      BY <2>2
    <3>2. (p1 + 100 * p2 + (q1 + 100 * q2)) % 10000 = p1 + 100 * p2 + (q1 + 100 * q2) - 10000
      BY <1>1, <2>2
    <3>3. p1 + 100 * p2 + (q1 + 100 * q2) >= 10000
      BY <1>1, <2>2
    <3>4. QED
      BY <2>1, <2>2, <3>1, <3>2, <3>3
  <2>3. CASE ~(p2 + q2 + k >= 100)
    <3>1. (p2 + q2 + k) % 100 = p2 + q2 + k
      BY <2>3
    <3>2. (p1 + 100 * p2 + (q1 + 100 * q2)) % 10000 = p1 + 100 * p2 + (q1 + 100 * q2)
      BY <1>1, <2>3
    <3>3. ~(p1 + 100 * p2 + (q1 + 100 * q2) >= 10000)
      BY <1>1, <2>3
    <3>4. QED
      BY <2>1, <2>3, <3>1, <3>2, <3>3
  <2>4. QED
    BY <2>2, <2>3
<1>2. ASSUME k = (IF p1 - q1 < 0 THEN 1 ELSE 0)
      PROVE  /\ ((p1 - q1) % 100) + 100 * ((p2 - q2 - k) % 100) =
                    ((p1 + 100 * p2) - (q1 + 100 * q2)) % 10000
             /\ (p2 - q2 - k < 0) <=> (p1 + 100 * p2 < q1 + 100 * q2)
  <2>1. (p1 - q1) % 100 = p1 - q1 + 100 * k
    BY <1>2
  <2>2. CASE p2 - q2 - k < 0
    <3>1. (p2 - q2 - k) % 100 = p2 - q2 - k + 100
      BY <2>2
    <3>2. ((p1 + 100 * p2) - (q1 + 100 * q2)) % 10000 = (p1 + 100 * p2) - (q1 + 100 * q2) + 10000
      BY <1>2, <2>2
    <3>3. p1 + 100 * p2 < q1 + 100 * q2
      BY <1>2, <2>2
    <3>4. QED
      BY <2>1, <2>2, <3>1, <3>2, <3>3
  <2>3. CASE ~(p2 - q2 - k < 0)
    <3>1. (p2 - q2 - k) % 100 = p2 - q2 - k
      BY <2>3
    <3>2. ((p1 + 100 * p2) - (q1 + 100 * q2)) % 10000 = (p1 + 100 * p2) - (q1 + 100 * q2)
      BY <1>2, <2>3
    <3>3. ~(p1 + 100 * p2 < q1 + 100 * q2)
      BY <1>2, <2>3
    <3>4. QED
      BY <2>1, <2>3, <3>1, <3>2, <3>3
  <2>4. QED
    BY <2>2, <2>3
<1>3. QED
  BY <1>1, <1>2 DEF FourDigitSum, FourDigitDifference

-----------------------------------------------------------------------------
(* Two bytes, the low one first. *)

WordsAdded(one, two, n, m) ==
  /\ WordOf(one.a, two.a) = AddHl(n, m, two.f).hl
  /\ two.f = AddHl(n, m, two.f).f

WordsSubtracted(two, n, m) ==
  /\ two.f.c = (n < m)
  /\ two.f.h = (n % 4096 < m % 4096)
  /\ two.a = ((n - m) % 65536) \div 256

BorrowOf(r, l, m) == r.f.c = (l < m)

(* SUB and CP compare the lower bytes alike. *)
LEMMA LowBorrow ==
  ASSUME NEW l \in Byte, NEW m \in Byte, NEW g
  PROVE  /\ BorrowOf(Apply("SUB", l, m, g), l, m)
         /\ BorrowOf(Apply("CP", l, m, g), l, m)
<1>1. Apply("SUB", l, m, g) = Sub(l, m, g) /\ Apply("CP", l, m, g) = Cp(l, m, g)
  BY DEF Apply
<1> DEFINE c == l < m
<1>2. (m > l) = c
  BY DEF Byte
<1>3. Sub(l, m, g).f.c = (m > l)
  BY ZeroedFields DEF Sub, Zeroed, Result
<1>4. Cp(l, m, g).f.c = c
  BY DEF Cp, Result
<1>5. QED
  BY <1>1, <1>2, <1>3, <1>4 DEF BorrowOf

LEMMA SumOfWords ==
  ASSUME NEW l1 \in Byte, NEW h1 \in Byte, NEW l2 \in Byte, NEW h2 \in Byte,
         NEW one, NEW two, two.f \in Flags, NEW k0, k0 = 0,
         SumOf(one, l1, l2, k0), SumOf(two, h1, h2, Number(one.f.c))
  PROVE  WordsAdded(one, two, WordOf(l1, h1), WordOf(l2, h2))
<1> DEFINE k == Number(one.f.c)
           n == WordOf(l1, h1)
           m == WordOf(l2, h2)
<1>1. l1 + l2 + k0 = l1 + l2
  BY DEF Byte
<1>2. one.a = (l1 + l2) % 256 /\ one.f.c = (l1 + l2 >= 256)
  BY <1>1 DEF SumOf
<1>3. k \in 0..1 /\ k = IF l1 + l2 >= 256 THEN 1 ELSE 0
  <2>1. k = Number(l1 + l2 >= 256)
    BY <1>2
  <2>2. QED
    BY <2>1 DEF Number
<1>4. /\ WordOf((l1 + l2) % 256, (h1 + h2 + k) % 256) = (n + m) % 65536
      /\ (h1 + h2 + k >= 256) <=> (n + m >= 65536)
      /\ ((h1 % 16) + (h2 % 16) + k >= 16) <=> ((n % 4096) + (m % 4096) >= 4096)
  BY <1>3, WordSum
<1> HIDE DEF n, m
<1>5. WordOf(one.a, two.a) = (n + m) % 65536
  BY <1>2, <1>4 DEF SumOf
<1>6. /\ two.f.c = (n + m >= 65536)
      /\ two.f.h = ((n % 4096) + (m % 4096) >= 4096)
      /\ two.f.n = FALSE
  BY <1>4 DEF SumOf
<1>7. two.f = [two.f EXCEPT !.n = FALSE, !.c = n + m >= 65536,
                            !.h = (n % 4096) + (m % 4096) >= 4096]
  <2> DEFINE c == n + m >= 65536
             h == (n % 4096) + (m % 4096) >= 4096
             g == two.f
  <2>1. g \in Flags /\ g.c = c /\ g.h = h /\ g.n = FALSE
    BY <1>6
  <2> HIDE DEF c, h, g
  <2>2. g = [g EXCEPT !.n = FALSE, !.c = c, !.h = h]
    BY <2>1 DEF Flags
  <2>3. QED
    BY <2>2 DEF c, h, g
<1>8. AddHl(n, m, two.f).hl = (n + m) % 65536 /\ AddHl(n, m, two.f).f = two.f
  BY <1>7 DEF AddHl
<1>9. QED
  BY <1>5, <1>8 DEF n, m, WordsAdded

LEMMA DifferenceOfWords ==
  ASSUME NEW l1 \in Byte, NEW h1 \in Byte, NEW l2 \in Byte, NEW h2 \in Byte,
         NEW one, NEW two,
         BorrowOf(one, l1, l2), DifferenceOf(two, h1, h2, Number(one.f.c))
  PROVE  WordsSubtracted(two, WordOf(l1, h1), WordOf(l2, h2))
<1> DEFINE k == Number(one.f.c)
           n == WordOf(l1, h1)
           m == WordOf(l2, h2)
<1>1. k \in 0..1 /\ k = IF l1 < l2 THEN 1 ELSE 0
  <2>1. k = Number(l1 < l2)
    BY DEF BorrowOf
  <2>2. QED
    BY <2>1 DEF Number
<1>2. /\ (h1 - h2 - k) % 256 = ((n - m) % 65536) \div 256
      /\ (h1 - h2 - k < 0) <=> (n < m)
      /\ ((h1 % 16) - (h2 % 16) - k < 0) <=> ((n % 4096) < (m % 4096))
  BY <1>1, WordDifference
<1> HIDE DEF n, m
<1>3. /\ two.f.c = (n < m)
      /\ two.f.h = (n % 4096 < m % 4096)
      /\ two.a = ((n - m) % 65536) \div 256
  BY <1>2 DEF DifferenceOf
<1>4. QED
  BY <1>2, <1>3 DEF n, m, WordsSubtracted

DecimalWord(low, high) == Decimal(low) + 100 * Decimal(high)

DecimalsAdded(low, high, n, m) ==
  /\ DecimalWord(low.a, high.a) = (n + m) % 10000
  /\ high.f.c = (n + m >= 10000)

DecimalsSubtracted(low, high, n, m) ==
  /\ DecimalWord(low.a, high.a) = (n - m) % 10000
  /\ high.f.c = (n < m)

LEMMA DecimalRange ==
  \A b \in DecimalByte : Decimal(b) \in 0..99
<1>1. \A b \in DecimalByte : b % 16 \in 0..9 /\ b \div 16 \in 0..9
  BY DEF DecimalByte, Byte
<1>2. QED
  BY <1>1 DEF Decimal

LEMMA SumOfDecimals ==
  ASSUME NEW l1 \in DecimalByte, NEW h1 \in DecimalByte,
         NEW l2 \in DecimalByte, NEW h2 \in DecimalByte,
         NEW low, NEW high, NEW k0, k0 = 0,
         DecimalCarry(low, Decimal(l1) + Decimal(l2) + k0),
         DecimalCarry(high, Decimal(h1) + Decimal(h2) + Number(low.f.c))
  PROVE  DecimalsAdded(low, high, DecimalWord(l1, h1), DecimalWord(l2, h2))
<1> DEFINE k == Number(low.f.c)
           p1 == Decimal(l1)
           p2 == Decimal(h1)
           q1 == Decimal(l2)
           q2 == Decimal(h2)
<1>1. p1 \in 0..99 /\ p2 \in 0..99 /\ q1 \in 0..99 /\ q2 \in 0..99
  BY DecimalRange
<1> HIDE DEF p1, p2, q1, q2
<1>2. p1 + q1 + k0 = p1 + q1
  BY <1>1
<1>3. Decimal(low.a) = (p1 + q1) % 100 /\ low.f.c = (p1 + q1 >= 100)
  BY <1>2 DEF DecimalCarry, p1, q1
<1>4. Decimal(high.a) = (p2 + q2 + k) % 100 /\ high.f.c = (p2 + q2 + k >= 100)
  BY DEF DecimalCarry, p2, q2
<1>5. k \in 0..1 /\ k = IF p1 + q1 >= 100 THEN 1 ELSE 0
  <2>1. k = Number(p1 + q1 >= 100)
    BY <1>3
  <2>2. QED
    BY <2>1 DEF Number
<1>6. FourDigitSum(p1, p2, q1, q2, k)
  BY <1>1, <1>5, FourDigits
<1>7. /\ DecimalWord(l1, h1) = p1 + 100 * p2
      /\ DecimalWord(l2, h2) = q1 + 100 * q2
      /\ DecimalWord(low.a, high.a) = ((p1 + q1) % 100) + 100 * ((p2 + q2 + k) % 100)
  BY <1>3, <1>4 DEF DecimalWord, p1, p2, q1, q2
<1>8. /\ ((p1 + q1) % 100) + 100 * ((p2 + q2 + k) % 100) =
           (p1 + 100 * p2 + (q1 + 100 * q2)) % 10000
      /\ (p2 + q2 + k >= 100) = (p1 + 100 * p2 + (q1 + 100 * q2) >= 10000)
  BY <1>5, <1>6 DEF FourDigitSum
<1>9. QED
  BY <1>4, <1>7, <1>8 DEF DecimalsAdded

LEMMA DifferenceOfDecimals ==
  ASSUME NEW l1 \in DecimalByte, NEW h1 \in DecimalByte,
         NEW l2 \in DecimalByte, NEW h2 \in DecimalByte,
         NEW low, NEW high, NEW k0, k0 = 0,
         DecimalBorrow(low, Decimal(l1) - Decimal(l2) - k0),
         DecimalBorrow(high, Decimal(h1) - Decimal(h2) - Number(low.f.c))
  PROVE  DecimalsSubtracted(low, high, DecimalWord(l1, h1), DecimalWord(l2, h2))
<1> DEFINE k == Number(low.f.c)
           p1 == Decimal(l1)
           p2 == Decimal(h1)
           q1 == Decimal(l2)
           q2 == Decimal(h2)
<1>1. p1 \in 0..99 /\ p2 \in 0..99 /\ q1 \in 0..99 /\ q2 \in 0..99
  BY DecimalRange
<1> HIDE DEF p1, p2, q1, q2
<1>2. p1 - q1 - k0 = p1 - q1
  BY <1>1
<1>3. Decimal(low.a) = (p1 - q1) % 100 /\ low.f.c = (p1 - q1 < 0)
  BY <1>2 DEF DecimalBorrow, p1, q1
<1>4. Decimal(high.a) = (p2 - q2 - k) % 100 /\ high.f.c = (p2 - q2 - k < 0)
  BY DEF DecimalBorrow, p2, q2
<1>5. k \in 0..1 /\ k = IF p1 - q1 < 0 THEN 1 ELSE 0
  <2>1. k = Number(p1 - q1 < 0)
    BY <1>3
  <2>2. QED
    BY <2>1 DEF Number
<1>6. FourDigitDifference(p1, p2, q1, q2, k)
  BY <1>1, <1>5, FourDigits
<1>7. /\ DecimalWord(l1, h1) = p1 + 100 * p2
      /\ DecimalWord(l2, h2) = q1 + 100 * q2
      /\ DecimalWord(low.a, high.a) = ((p1 - q1) % 100) + 100 * ((p2 - q2 - k) % 100)
  BY <1>3, <1>4 DEF DecimalWord, p1, p2, q1, q2
<1>8. /\ ((p1 - q1) % 100) + 100 * ((p2 - q2 - k) % 100) =
           ((p1 + 100 * p2) - (q1 + 100 * q2)) % 10000
      /\ (p2 - q2 - k < 0) = (p1 + 100 * p2 < q1 + 100 * q2)
  BY <1>5, <1>6 DEF FourDigitDifference
<1>9. high.f.c = (p1 + 100 * p2 < q1 + 100 * q2)
  BY <1>4, <1>8
<1>10. high.f.c = (DecimalWord(l1, h1) < DecimalWord(l2, h2))
  BY <1>7, <1>9
<1>11. DecimalWord(low.a, high.a) = (DecimalWord(l1, h1) - DecimalWord(l2, h2)) % 10000
  BY <1>7, <1>8
<1>12. QED
  BY <1>10, <1>11 DEF DecimalsSubtracted

-----------------------------------------------------------------------------
(* Shifts by one bit. *)

\* The results of a shift that lets in a bit k on the right, on the left.
LeftOf(r, l, k) ==
  /\ r.a = (2 * l + k) % 256
  /\ r.f.c = Bit(l, 7)

RightOf(r, l, k) ==
  /\ r.a = ((l \div 2) + 128 * k) % 256
  /\ r.f.c = Bit(l, 0)

LEMMA LeftShiftsOf ==
  ASSUME NEW l \in Byte, NEW m, NEW g, NEW k
  PROVE  /\ k = 0 => LeftOf(Apply("SLA", l, m, g), l, k)
         /\ k = Number(g.c) => LeftOf(Apply("RL", l, m, g), l, k)
         /\ k = Number(g.c) => LeftOf(Apply("RLA", l, m, g), l, k)
<1>1. /\ Apply("SLA", l, m, g) = Sla(l, m, g)
      /\ Apply("RL", l, m, g) = Rl(l, m, g)
      /\ Apply("RLA", l, m, g) = Rla(l, m, g)
  BY DEF Apply
<1>2. 2 * l + 0 = 2 * l
  BY DEF Byte
<1>3. Sla(l, m, g).a = (2 * l) % 256 /\ Sla(l, m, g).f.c = Bit(l, 7)
  BY DEF Sla, Zeroed, Result
<1>4. Rl(l, m, g).a = (2 * l + Number(g.c)) % 256 /\ Rl(l, m, g).f.c = Bit(l, 7)
  BY DEF Rl, Zeroed, Result
<1>5. Rla(l, m, g).a = (2 * l + Number(g.c)) % 256 /\ Rla(l, m, g).f.c = Bit(l, 7)
  BY DEF Rla, NoZero, Rl, Zeroed, Result
<1>6. QED
  BY <1>1, <1>2, <1>3, <1>4, <1>5 DEF LeftOf

LEMMA RightShiftsOf ==
  ASSUME NEW l \in Byte, NEW m, NEW g, NEW k
  PROVE  /\ k = 0 => RightOf(Apply("SRL", l, m, g), l, k)
         /\ k = Number(Bit(l, 7)) => RightOf(Apply("SRA", l, m, g), l, k)
         /\ k = Number(g.c) => RightOf(Apply("RR", l, m, g), l, k)
         /\ k = Number(g.c) => RightOf(Apply("RRA", l, m, g), l, k)
<1>1. /\ Apply("SRL", l, m, g) = Srl(l, m, g)
      /\ Apply("SRA", l, m, g) = Sra(l, m, g)
      /\ Apply("RR", l, m, g) = Rr(l, m, g)
      /\ Apply("RRA", l, m, g) = Rra(l, m, g)
  BY DEF Apply
<1>2. (l \div 2) + 128 * 0 = l \div 2
  BY DEF Byte
<1>3. Srl(l, m, g).a = (l \div 2) % 256 /\ Srl(l, m, g).f.c = Bit(l, 0)
  BY DEF Srl, Zeroed, Result
<1>4. /\ Sra(l, m, g).a = ((l \div 2) + 128 * Number(Bit(l, 7))) % 256
      /\ Sra(l, m, g).f.c = Bit(l, 0)
  BY DEF Sra, Zeroed, Result
<1>5. /\ Rr(l, m, g).a = ((l \div 2) + 128 * Number(g.c)) % 256
      /\ Rr(l, m, g).f.c = Bit(l, 0)
  BY DEF Rr, Zeroed, Result
<1>6. /\ Rra(l, m, g).a = ((l \div 2) + 128 * Number(g.c)) % 256
      /\ Rra(l, m, g).f.c = Bit(l, 0)
  BY DEF Rra, NoZero, Rr, Zeroed, Result
<1>7. QED
  BY <1>1, <1>2, <1>3, <1>4, <1>5, <1>6 DEF RightOf

\* A word shifted by one bit, the lower byte first and the higher byte first.
ShiftedLeft(one, two, n) ==
  /\ WordOf(one.a, two.a) = (2 * n) % 65536
  /\ two.f.c = (n >= 32768)

ShiftedRight(one, two, n, k) ==
  /\ two.a + 256 * one.a = (n \div 2) + 32768 * k
  /\ two.f.c = (n % 2 = 1)

LEMMA LeftOfWords ==
  ASSUME NEW low \in Byte, NEW high \in Byte, NEW one, NEW two, NEW k, k = 0,
         LeftOf(one, low, k), LeftOf(two, high, Number(one.f.c))
  PROVE  ShiftedLeft(one, two, WordOf(low, high))
<1>1. one.a = (2 * low) % 256 /\ two.a = (2 * high + Number(Bit(low, 7))) % 256
  BY DEF LeftOf, Byte
<1>2. two.f.c = Bit(high, 7) /\ Bit(high, 7) \in BOOLEAN
  BY DEF LeftOf, Bit
<1>3. Bit(high, 7) = (WordOf(low, high) >= 32768)
  BY <1>2, WordShift
<1>4. QED
  BY <1>1, <1>2, <1>3, WordShift DEF ShiftedLeft

LEMMA RightOfWords ==
  ASSUME NEW low \in Byte, NEW high \in Byte, NEW one, NEW two, NEW k \in 0..1,
         RightOf(one, high, k), RightOf(two, low, Number(one.f.c))
  PROVE  ShiftedRight(one, two, WordOf(low, high), k)
<1>1. one.a = ((high \div 2) + 128 * k) % 256
  BY DEF RightOf
<1>2. two.a = ((low \div 2) + 128 * Number(Bit(high, 0))) % 256
  BY DEF RightOf
<1>3. one.a = ((high \div 2) % 256) + 128 * k
  BY <1>1 DEF Byte
<1>4. WordOf(two.a, (high \div 2) % 256) = WordOf(low, high) \div 2
  BY <1>2, WordShift
<1>5. two.a \in Int /\ (high \div 2) % 256 \in Int
  <2>1. Number(Bit(high, 0)) \in Int
    BY DEF Number
  <2>2. QED
    BY <1>2, <2>1 DEF Byte
<1>6. two.a + 256 * one.a = (WordOf(low, high) \div 2) + 32768 * k
  <2> DEFINE p == (high \div 2) % 256
             q == two.a
             w == WordOf(low, high) \div 2
  <2>1. p \in Int /\ q \in Int /\ one.a = p + 128 * k /\ q + 256 * p = w
    BY <1>3, <1>4, <1>5 DEF WordOf
  <2> HIDE DEF p, q, w
  <2>2. q + 256 * (p + 128 * k) = w + 32768 * k
    BY <2>1
  <2>3. QED
    BY <2>1, <2>2 DEF q, w
<1>7. WordOf(low, high) % 2 = low % 2
  BY DEF WordOf, Byte
<1>8. two.f.c = Bit(low, 0) /\ Bit(low, 0) \in BOOLEAN
  BY DEF RightOf, Bit
<1>9. Bit(low, 0) = (WordOf(low, high) % 2 = 1)
  BY <1>7, <1>8, WordShift
<1>10. QED
  BY <1>6, <1>8, <1>9 DEF ShiftedRight

-----------------------------------------------------------------------------
(* A byte and the set of its bits. *)

LEMMA Powers ==
  /\ 2^0 = 1 /\ 2^1 = 2 /\ 2^2 = 4 /\ 2^3 = 8
  /\ 2^4 = 16 /\ 2^5 = 32 /\ 2^6 = 64 /\ 2^7 = 128
OBVIOUS

Weights(b0, b1, b2, b3, b4, b5, b6, b7) ==
  b0 + 2 * b1 + 4 * b2 + 8 * b3 + 16 * b4 + 32 * b5 + 64 * b6 + 128 * b7

LEMMA NumberType == \A b : Number(b) \in 0..1
BY DEF Number

LEMMA FromBitsWeights ==
  ASSUME NEW S
  PROVE  FromBits(S) = Weights(Number(0 \in S), Number(1 \in S), Number(2 \in S),
                               Number(3 \in S), Number(4 \in S), Number(5 \in S),
                               Number(6 \in S), Number(7 \in S))
<1> DEFINE W(n) == IF n \in S THEN 2^n ELSE 0
<1>1. /\ W(0) = Number(0 \in S) /\ W(1) = 2 * Number(1 \in S)
      /\ W(2) = 4 * Number(2 \in S) /\ W(3) = 8 * Number(3 \in S)
      /\ W(4) = 16 * Number(4 \in S) /\ W(5) = 32 * Number(5 \in S)
      /\ W(6) = 64 * Number(6 \in S) /\ W(7) = 128 * Number(7 \in S)
  BY Powers DEF Number
<1>2. FromBits(S) = W(0) + W(1) + W(2) + W(3) + W(4) + W(5) + W(6) + W(7)
  BY DEF FromBits
<1> HIDE DEF W
<1>3. QED
  BY <1>1, <1>2 DEF Weights

(* The bits of a byte make it up. *)
LEMMA ByteOfItsBits ==
  ASSUME NEW v \in Byte
  PROVE  FromBits(Bits(v)) = v
<1> DEFINE B(n) == Number(n \in Bits(v))
<1>1. /\ B(0) = v % 2 /\ B(1) = (v \div 2) % 2
      /\ B(2) = (v \div 4) % 2 /\ B(3) = (v \div 8) % 2
      /\ B(4) = (v \div 16) % 2 /\ B(5) = (v \div 32) % 2
      /\ B(6) = (v \div 64) % 2 /\ B(7) = (v \div 128) % 2
  <2>1. \A n \in 0..7 : n \in Bits(v) <=> (v \div 2^n) % 2 = 1
    BY DEF Bits, Bit
  <2>2. \A w \in Int : w % 2 \in 0..1
    OBVIOUS
  <2>3. v \div 1 = v /\ v \in Int /\ v \div 2 \in Int /\ v \div 4 \in Int /\ v \div 8 \in Int
        /\ v \div 16 \in Int /\ v \div 32 \in Int /\ v \div 64 \in Int /\ v \div 128 \in Int
    BY DEF Byte
  <2>4. /\ 0 \in Bits(v) <=> v % 2 = 1
        /\ 1 \in Bits(v) <=> (v \div 2) % 2 = 1
        /\ 2 \in Bits(v) <=> (v \div 4) % 2 = 1
        /\ 3 \in Bits(v) <=> (v \div 8) % 2 = 1
        /\ 4 \in Bits(v) <=> (v \div 16) % 2 = 1
        /\ 5 \in Bits(v) <=> (v \div 32) % 2 = 1
        /\ 6 \in Bits(v) <=> (v \div 64) % 2 = 1
        /\ 7 \in Bits(v) <=> (v \div 128) % 2 = 1
    BY <2>1, <2>3, Powers
  <2>5. QED
    BY <2>2, <2>3, <2>4 DEF Number
<1>2. FromBits(Bits(v)) = Weights(B(0), B(1), B(2), B(3), B(4), B(5), B(6), B(7))
  BY FromBitsWeights
<1> HIDE DEF B
<1>3. QED
  <2> DEFINE q1 == v \div 2
             q2 == v \div 4
             q3 == v \div 8
             q4 == v \div 16
             q5 == v \div 32
             q6 == v \div 64
             q7 == v \div 128
  <2>1. /\ q1 \in Int /\ q2 \in Int /\ q3 \in Int /\ q4 \in Int
        /\ q5 \in Int /\ q6 \in Int /\ q7 \in Int /\ v \in Int
    BY DEF Byte
  <2>2. /\ v = 2 * q1 + (v % 2) /\ q1 = 2 * q2 + (q1 % 2)
        /\ q2 = 2 * q3 + (q2 % 2) /\ q3 = 2 * q4 + (q3 % 2)
    BY DEF Byte
  <2>3. /\ q4 = 2 * q5 + (q4 % 2) /\ q5 = 2 * q6 + (q5 % 2)
        /\ q6 = 2 * q7 + (q6 % 2) /\ q7 = q7 % 2
    BY DEF Byte
  <2>4. /\ v = 2 * q1 + B(0) /\ q1 = 2 * q2 + B(1)
        /\ q2 = 2 * q3 + B(2) /\ q3 = 2 * q4 + B(3)
        /\ q4 = 2 * q5 + B(4) /\ q5 = 2 * q6 + B(5)
        /\ q6 = 2 * q7 + B(6) /\ q7 = B(7)
    BY <1>1, <2>2, <2>3
  <2>5. /\ B(0) \in Int /\ B(1) \in Int /\ B(2) \in Int /\ B(3) \in Int
        /\ B(4) \in Int /\ B(5) \in Int /\ B(6) \in Int /\ B(7) \in Int
    BY NumberType DEF B
  <2> HIDE DEF q1, q2, q3, q4, q5, q6, q7
  <2>6. v = Weights(B(0), B(1), B(2), B(3), B(4), B(5), B(6), B(7))
    BY <2>1, <2>4, <2>5 DEF Weights
  <2>7. QED
    BY <1>2, <2>6

(* A byte has the bits it is made of. *)
LEMMA WeightsBits ==
  ASSUME NEW b0 \in 0..1, NEW b1 \in 0..1, NEW b2 \in 0..1, NEW b3 \in 0..1,
         NEW b4 \in 0..1, NEW b5 \in 0..1, NEW b6 \in 0..1, NEW b7 \in 0..1,
         NEW v, v = Weights(b0, b1, b2, b3, b4, b5, b6, b7)
  PROVE  /\ v % 2 = b0 /\ (v \div 2) % 2 = b1
         /\ (v \div 4) % 2 = b2 /\ (v \div 8) % 2 = b3
         /\ (v \div 16) % 2 = b4 /\ (v \div 32) % 2 = b5
         /\ (v \div 64) % 2 = b6 /\ (v \div 128) % 2 = b7
<1> DEFINE q1 == b1 + 2 * b2 + 4 * b3 + 8 * b4 + 16 * b5 + 32 * b6 + 64 * b7
           q2 == b2 + 2 * b3 + 4 * b4 + 8 * b5 + 16 * b6 + 32 * b7
           q3 == b3 + 2 * b4 + 4 * b5 + 8 * b6 + 16 * b7
           q4 == b4 + 2 * b5 + 4 * b6 + 8 * b7
           q5 == b5 + 2 * b6 + 4 * b7
           q6 == b6 + 2 * b7
<1>1. v % 2 = b0
  BY DEF Weights
<1>2. v \div 2 = q1 /\ q1 % 2 = b1
  BY DEF Weights
<1>3. v \div 4 = q2 /\ q2 % 2 = b2
  BY DEF Weights
<1>4. v \div 8 = q3 /\ q3 % 2 = b3
  BY DEF Weights
<1>5. v \div 16 = q4 /\ q4 % 2 = b4
  BY DEF Weights
<1>6. v \div 32 = q5 /\ q5 % 2 = b5
  BY DEF Weights
<1>7. v \div 64 = q6 /\ q6 % 2 = b6
  BY DEF Weights
<1>8. v \div 128 = b7 /\ b7 % 2 = b7
  BY DEF Weights
<1>9. QED
  BY <1>1, <1>2, <1>3, <1>4, <1>5, <1>6, <1>7, <1>8

LEMMA BitsOfItsByte ==
  ASSUME NEW S, S \subseteq 0..7
  PROVE  Bits(FromBits(S)) = S
<1> DEFINE B(n) == Number(n \in S)
           v == FromBits(S)
<1>1. v = Weights(B(0), B(1), B(2), B(3), B(4), B(5), B(6), B(7))
  BY FromBitsWeights
<1>2. /\ B(0) \in 0..1 /\ B(1) \in 0..1 /\ B(2) \in 0..1 /\ B(3) \in 0..1
      /\ B(4) \in 0..1 /\ B(5) \in 0..1 /\ B(6) \in 0..1 /\ B(7) \in 0..1
  BY NumberType
<1>3. \A n \in 0..7 : B(n) = 1 <=> n \in S
  BY DEF Number
<1>4. v \in Int
  BY FromBitsType DEF Byte
<1> HIDE DEF B, v
<1>5. /\ v % 2 = B(0) /\ (v \div 2) % 2 = B(1)
      /\ (v \div 4) % 2 = B(2) /\ (v \div 8) % 2 = B(3)
      /\ (v \div 16) % 2 = B(4) /\ (v \div 32) % 2 = B(5)
      /\ (v \div 64) % 2 = B(6) /\ (v \div 128) % 2 = B(7)
  BY <1>1, <1>2, WeightsBits
<1>6. v \div 1 = v
  BY <1>4
<1>7. \A n \in 0..7 : (v \div 2^n) % 2 = B(n)
  <2>1. \A n \in 0..7 : n = 0 \/ n = 1 \/ n = 2 \/ n = 3 \/ n = 4 \/ n = 5 \/ n = 6 \/ n = 7
    OBVIOUS
  <2>2. /\ (v \div 2^0) % 2 = B(0) /\ (v \div 2^1) % 2 = B(1)
        /\ (v \div 2^2) % 2 = B(2) /\ (v \div 2^3) % 2 = B(3)
        /\ (v \div 2^4) % 2 = B(4) /\ (v \div 2^5) % 2 = B(5)
        /\ (v \div 2^6) % 2 = B(6) /\ (v \div 2^7) % 2 = B(7)
    BY <1>5, <1>6, Powers
  <2>3. QED
    BY <2>1, <2>2, Zenon
<1>8. \A n \in 0..7 : n \in Bits(v) <=> n \in S
  BY <1>3, <1>7 DEF Bits, Bit
<1>9. Bits(v) \subseteq 0..7
  BY DEF Bits
<1>10. QED
  BY <1>8, <1>9 DEF v

(* Bytes without a common bit are added bit by bit. *)
LEMMA FromBitsSum ==
  ASSUME NEW S, NEW T, S \cap T = {}
  PROVE  FromBits(S \cup T) = FromBits(S) + FromBits(T)
<1> DEFINE B(n) == Number(n \in S)
           C(n) == Number(n \in T)
           D(n) == Number(n \in S \cup T)
<1>1. \A n : D(n) = B(n) + C(n)
  BY DEF Number
<1>2. \A n : B(n) \in Int /\ C(n) \in Int
  BY DEF Number
<1>3. /\ FromBits(S) = Weights(B(0), B(1), B(2), B(3), B(4), B(5), B(6), B(7))
      /\ FromBits(T) = Weights(C(0), C(1), C(2), C(3), C(4), C(5), C(6), C(7))
      /\ FromBits(S \cup T) = Weights(D(0), D(1), D(2), D(3), D(4), D(5), D(6), D(7))
  BY FromBitsWeights
<1> HIDE DEF B, C, D
<1>4. /\ D(0) = B(0) + C(0) /\ D(1) = B(1) + C(1) /\ D(2) = B(2) + C(2) /\ D(3) = B(3) + C(3)
      /\ D(4) = B(4) + C(4) /\ D(5) = B(5) + C(5) /\ D(6) = B(6) + C(6) /\ D(7) = B(7) + C(7)
  BY <1>1
<1>5. /\ B(0) \in Int /\ B(1) \in Int /\ B(2) \in Int /\ B(3) \in Int
      /\ B(4) \in Int /\ B(5) \in Int /\ B(6) \in Int /\ B(7) \in Int
      /\ C(0) \in Int /\ C(1) \in Int /\ C(2) \in Int /\ C(3) \in Int
      /\ C(4) \in Int /\ C(5) \in Int /\ C(6) \in Int /\ C(7) \in Int
  BY <1>2
<1>6. QED
  BY <1>3, <1>4, <1>5 DEF Weights

LEMMA OneBit ==
  ASSUME NEW n \in 0..7
  PROVE  FromBits({n}) = 2^n
<1>1. n = 0 \/ n = 1 \/ n = 2 \/ n = 3 \/ n = 4 \/ n = 5 \/ n = 6 \/ n = 7
  OBVIOUS
<1>2. /\ FromBits({0}) = 1 /\ FromBits({1}) = 2 /\ FromBits({2}) = 4 /\ FromBits({3}) = 8
      /\ FromBits({4}) = 16 /\ FromBits({5}) = 32 /\ FromBits({6}) = 64 /\ FromBits({7}) = 128
  BY Powers DEF FromBits
<1>3. /\ FromBits({0}) = 2^0 /\ FromBits({1}) = 2^1 /\ FromBits({2}) = 2^2
      /\ FromBits({3}) = 2^3 /\ FromBits({4}) = 2^4 /\ FromBits({5}) = 2^5
      /\ FromBits({6}) = 2^6 /\ FromBits({7}) = 2^7
  BY <1>2, Powers
<1>4. QED
  BY <1>1, <1>3, Zenon

LEMMA NoBits ==
  ASSUME NEW S, S \subseteq 0..7
  PROVE  FromBits(S) = 0 <=> S = {}
<1>1. FromBits({}) = 0
  BY DEF FromBits
<1>2. ASSUME FromBits(S) = 0 PROVE S = {}
  <2>1. Bits(FromBits(S)) = S
    BY BitsOfItsByte
  <2>2. Bits(FromBits({})) = {}
    <3>1. {} \subseteq 0..7
      OBVIOUS
    <3>2. QED
      BY <3>1, BitsOfItsByte
  <2>3. QED
    BY <1>1, <1>2, <2>1, <2>2
<1>3. QED
  BY <1>1, <1>2

-----------------------------------------------------------------------------
(* The same byte by different operations. *)

\* The byte rotated by one bit.
Left(v)  == (2 * v + (v \div 128)) % 256
Right(v) == ((v \div 2) + 128 * (v % 2)) % 256
Swapped(v) == (v \div 16) + 16 * (v % 16)

LEMMA BytesRotated ==
  ASSUME NEW v \in Byte, NEW m, NEW g
  PROVE  /\ Apply("RLC", v, m, g).a = Left(v) /\ Apply("RLCA", v, m, g).a = Left(v)
         /\ Apply("RRC", v, m, g).a = Right(v) /\ Apply("RRCA", v, m, g).a = Right(v)
         /\ Apply("SWAP", v, m, g).a = Swapped(v)
<1>1. /\ Apply("RLC", v, m, g) = Rlc(v, m, g)
      /\ Apply("RLCA", v, m, g) = Rlca(v, m, g)
      /\ Apply("RRC", v, m, g) = Rrc(v, m, g)
      /\ Apply("RRCA", v, m, g) = Rrca(v, m, g)
      /\ Apply("SWAP", v, m, g) = Swap(v, m, g)
  BY DEF Apply
<1>2. Number(Bit(v, 7)) = v \div 128 /\ Number(Bit(v, 0)) = v % 2
  <2>1. /\ (v \div 128) % 2 = v \div 128 /\ v \div 128 \in 0..1
        /\ (v \div 1) % 2 = v % 2 /\ v % 2 \in 0..1
    BY DEF Byte
  <2>2. QED
    BY <2>1, ByteBits DEF Number
<1>3. Rlc(v, m, g).a = Left(v) /\ Rlca(v, m, g).a = Left(v)
  BY <1>2 DEF Rlc, Rlca, NoZero, Zeroed, Result, Left
<1>4. Rrc(v, m, g).a = Right(v) /\ Rrca(v, m, g).a = Right(v)
  BY <1>2 DEF Rrc, Rrca, NoZero, Zeroed, Result, Right
<1>5. Swap(v, m, g).a = Swapped(v)
  <2>1. ((v \div 16) + 16 * (v % 16)) % 256 = (v \div 16) + 16 * (v % 16)
    BY DEF Byte
  <2>2. QED
    BY <2>1 DEF Swap, Zeroed, Result, Swapped
<1>6. QED
  BY <1>1, <1>3, <1>4, <1>5

LEMMA WeightsOfByte ==
  ASSUME NEW v \in Byte
  PROVE  \E b0, b1, b2, b3, b4, b5, b6, b7 \in 0..1 :
            v = Weights(b0, b1, b2, b3, b4, b5, b6, b7)
<1> DEFINE B(n) == Number(n \in Bits(v))
<1>1. v = Weights(B(0), B(1), B(2), B(3), B(4), B(5), B(6), B(7))
  BY ByteOfItsBits, FromBitsWeights
<1>2. \A n : B(n) \in 0..1
  BY NumberType
<1> HIDE DEF B
<1>3. QED
  BY <1>1, <1>2

LEMMA WeightsRotated ==
  ASSUME NEW b0 \in 0..1, NEW b1 \in 0..1, NEW b2 \in 0..1, NEW b3 \in 0..1,
         NEW b4 \in 0..1, NEW b5 \in 0..1, NEW b6 \in 0..1, NEW b7 \in 0..1
  PROVE  /\ Left(Weights(b0, b1, b2, b3, b4, b5, b6, b7)) =
              Weights(b7, b0, b1, b2, b3, b4, b5, b6)
         /\ Right(Weights(b0, b1, b2, b3, b4, b5, b6, b7)) =
              Weights(b1, b2, b3, b4, b5, b6, b7, b0)
         /\ Swapped(Weights(b0, b1, b2, b3, b4, b5, b6, b7)) =
              Weights(b4, b5, b6, b7, b0, b1, b2, b3)
<1> DEFINE v == Weights(b0, b1, b2, b3, b4, b5, b6, b7)
           r == b0 + 2 * b1 + 4 * b2 + 8 * b3 + 16 * b4 + 32 * b5 + 64 * b6
           q == b1 + 2 * b2 + 4 * b3 + 8 * b4 + 16 * b5 + 32 * b6 + 64 * b7
           l == b0 + 2 * b1 + 4 * b2 + 8 * b3
           h == b4 + 2 * b5 + 4 * b6 + 8 * b7
<1>1. v = 128 * b7 + r /\ r \in 0..127 /\ Weights(b7, b0, b1, b2, b3, b4, b5, b6) = 2 * r + b7
  BY DEF Weights
<1>2. v = 2 * q + b0 /\ q \in 0..127 /\ Weights(b1, b2, b3, b4, b5, b6, b7, b0) = q + 128 * b0
  BY DEF Weights
<1>3. v = 16 * h + l /\ h \in 0..15 /\ l \in 0..15
      /\ Weights(b4, b5, b6, b7, b0, b1, b2, b3) = h + 16 * l
  BY DEF Weights
<1> HIDE DEF v, r, q, l, h
<1>4. Left(v) = 2 * r + b7
  BY <1>1 DEF Left
<1>5. Right(v) = q + 128 * b0
  BY <1>2 DEF Right
<1>6. Swapped(v) = h + 16 * l
  BY <1>3 DEF Swapped
<1>7. QED
  BY <1>1, <1>2, <1>3, <1>4, <1>5, <1>6 DEF v

(* Four rotations, of one bit each, exchange the two digits. *)
LEMMA FourTurns ==
  ASSUME NEW v \in Byte
  PROVE  /\ Left(Left(Left(Left(v)))) = Swapped(v)
         /\ Right(Right(Right(Right(v)))) = Swapped(v)
<1>1. PICK b0, b1, b2, b3, b4, b5, b6, b7 \in 0..1 :
         v = Weights(b0, b1, b2, b3, b4, b5, b6, b7)
  BY WeightsOfByte
<1>2. /\ Left(v) = Weights(b7, b0, b1, b2, b3, b4, b5, b6)
      /\ Right(v) = Weights(b1, b2, b3, b4, b5, b6, b7, b0)
      /\ Swapped(v) = Weights(b4, b5, b6, b7, b0, b1, b2, b3)
  BY <1>1, WeightsRotated
<1>3. /\ Left(Left(v)) = Weights(b6, b7, b0, b1, b2, b3, b4, b5)
      /\ Right(Right(v)) = Weights(b2, b3, b4, b5, b6, b7, b0, b1)
  BY <1>2, WeightsRotated
<1>4. /\ Left(Left(Left(v))) = Weights(b5, b6, b7, b0, b1, b2, b3, b4)
      /\ Right(Right(Right(v))) = Weights(b3, b4, b5, b6, b7, b0, b1, b2)
  BY <1>3, WeightsRotated
<1>5. QED
  BY <1>2, <1>4, WeightsRotated

(* The complement plus one is the negation, and it is undone backwards. *)
LEMMA CountedUp ==
  ASSUME NEW v, NEW m, NEW g
  PROVE  /\ Apply("CPL", v, m, g).a = 255 - v
         /\ Apply("INC", v, m, g).a = (v + 1) % 256
         /\ Apply("DEC", v, m, g).a = (v - 1) % 256
<1>1. /\ Apply("CPL", v, m, g) = Cpl(v, m, g)
      /\ Apply("INC", v, m, g) = Inc(v, m, g)
      /\ Apply("DEC", v, m, g) = Dec(v, m, g)
  BY DEF Apply
<1>2. Cpl(v, m, g).a = 255 - v
  BY DEF Cpl
<1>3. Inc(v, m, g).a = (v + 1) % 256
  BY DEF Inc, Zeroed, Result
<1>4. Dec(v, m, g).a = (v - 1) % 256
  BY DEF Dec, Zeroed, Result
<1>5. QED
  BY <1>1, <1>2, <1>3, <1>4

Negated(v, m, g, inverted, negated, less, restored) ==
  /\ inverted = Apply("CPL", v, m, g)
  /\ negated = Apply("INC", inverted.a, m, inverted.f)
  /\ less = Apply("DEC", negated.a, m, negated.f)
  /\ restored = Apply("CPL", less.a, m, less.f)

NegationOf(negated, v) == (negated.a + v) % 256 = 0

LEMMA Negation ==
  ASSUME NEW v \in Byte, NEW m, NEW inverted, NEW negated, NEW less, NEW restored,
         NEW g, Negated(v, m, g, inverted, negated, less, restored)
  PROVE  NegationOf(negated, v) /\ restored.a = v
<1>1. inverted.a = 255 - v
  BY CountedUp DEF Negated
<1>2. negated.a = (inverted.a + 1) % 256
  BY CountedUp DEF Negated
<1>3. less.a = (negated.a - 1) % 256
  BY CountedUp DEF Negated
<1>4. restored.a = 255 - less.a
  BY CountedUp DEF Negated
<1> DEFINE p == inverted.a
           q == negated.a
           r == less.a
<1>5. p = 255 - v /\ q = (p + 1) % 256 /\ r = (q - 1) % 256
  BY <1>1, <1>2, <1>3
<1> HIDE DEF p, q, r
<1>6. p \in 0..255 /\ q \in 0..255
  BY <1>5 DEF Byte
<1>7. (q + v) % 256 = 0
  BY <1>5 DEF Byte
<1>8. r = 255 - v
  BY <1>5, <1>6 DEF Byte
<1>9. 255 - r = v
  BY <1>8 DEF Byte
<1>10. QED
  BY <1>4, <1>7, <1>9 DEF NegationOf, q, r

(* The bits of either byte are the bits of both and the bits of one only.  *)
LEMMA Logic ==
  ASSUME NEW v \in Byte, NEW w \in Byte, NEW both, NEW either, NEW odd,
         NEW f1, NEW f2, NEW f3, both = Apply("AND", v, w, f1),
         either = Apply("OR", v, w, f2), odd = Apply("XOR", v, w, f3)
  PROVE  either.a = both.a + odd.a /\ odd.f.z = (v = w)
<1> DEFINE S == Bits(v) \cap Bits(w)
           T == (Bits(v) \cup Bits(w)) \ (Bits(v) \cap Bits(w))
<1>1. both = And(v, w, f1) /\ either = Or(v, w, f2) /\ odd = Xor(v, w, f3)
  BY DEF Apply
<1>2. \A U : FromBits(U) % 256 = FromBits(U)
  <2>1. \A n \in Byte : n % 256 = n
    BY DEF Byte
  <2>2. QED
    BY <2>1, FromBitsType
<1>3. both.a = FromBits(S)
  BY <1>1, <1>2 DEF And, Zeroed, Result
<1>4. either.a = FromBits(Bits(v) \cup Bits(w))
  BY <1>1, <1>2 DEF Or, Zeroed, Result
<1>5. odd.a = FromBits(T) /\ odd.f.z = (FromBits(T) = 0)
  BY <1>1, <1>2 DEF Xor, Zeroed, Result
<1>6. Bits(v) \cup Bits(w) = S \cup T /\ S \cap T = {}
  OBVIOUS
<1>7. FromBits(S \cup T) = FromBits(S) + FromBits(T)
  BY <1>6, FromBitsSum
<1>8. (FromBits(T) = 0) <=> (v = w)
  <2>1. T \subseteq 0..7
    BY DEF Bits
  <2>2. FromBits(T) = 0 <=> T = {}
    BY <2>1, NoBits
  <2>3. T = {} <=> Bits(v) = Bits(w)
    OBVIOUS
  <2>4. FromBits(Bits(v)) = v /\ FromBits(Bits(w)) = w
    BY ByteOfItsBits
  <2>5. QED
    BY <2>2, <2>3, <2>4
<1>9. QED
  BY <1>3, <1>4, <1>5, <1>6, <1>7, <1>8

(* What SET and RES did, as BIT sees it. *)
Tested(r, v, n) ==
  /\ r.a = v % 256
  /\ r.f.z = ~Bit(v, n)

LEMMA BitResults ==
  ASSUME NEW v, NEW n, NEW g
  PROVE  /\ Apply("SET", v, n, g).a = FromBits(Bits(v) \cup {n})
         /\ Apply("RES", v, n, g).a = FromBits(Bits(v) \ {n})
         /\ Tested(Apply("BIT", v, n, g), v, n)
<1>1. /\ Apply("SET", v, n, g) = Set(v, n, g)
      /\ Apply("RES", v, n, g) = Res(v, n, g)
      /\ Apply("BIT", v, n, g) = TestBit(v, n, g)
  BY DEF Apply
<1>2. /\ Set(v, n, g).a = FromBits(Bits(v) \cup {n})
      /\ Res(v, n, g).a = FromBits(Bits(v) \ {n})
  BY DEF Set, Res
<1> DEFINE c == ~Bit(v, n)
           e == g.c
           r == v % 256
<1>3. TestBit(v, n, g) = [a |-> r, f |-> [z |-> c, n |-> FALSE, h |-> TRUE, c |-> e]]
  BY DEF TestBit, Result
<1> HIDE DEF c, e, r
<1>4. TestBit(v, n, g).a = r /\ TestBit(v, n, g).f.z = c
  BY <1>3
<1>5. QED
  BY <1>1, <1>2, <1>4 DEF Tested, c, r

Flipped(v, n, g, set, seen, reset, unseen) ==
  /\ set = Apply("SET", v, n, g)
  /\ seen = Apply("BIT", set.a, n, set.f)
  /\ reset = Apply("RES", seen.a, n, seen.f)
  /\ unseen = Apply("BIT", reset.a, n, reset.f)

BitSeen(seen, unseen, n) ==
  /\ ~seen.f.z
  /\ unseen.f.z
  /\ seen.a = unseen.a + 2^n

LEMMA SetAndReset ==
  ASSUME NEW v \in Byte, NEW n \in 0..7, NEW set, NEW seen, NEW reset, NEW unseen,
         NEW g, Flipped(v, n, g, set, seen, reset, unseen)
  PROVE  BitSeen(seen, unseen, n)
<1> DEFINE S == Bits(v) \cup {n}
<1>1. S \subseteq 0..7
  BY DEF Bits
<1>2. \A U : FromBits(U) % 256 = FromBits(U)
  <2>1. \A w \in Byte : w % 256 = w
    BY DEF Byte
  <2>2. QED
    BY <2>1, FromBitsType
<1>3. set.a = FromBits(S)
  BY BitResults DEF Flipped
<1>4. seen.a = FromBits(S) /\ seen.f.z = ~Bit(FromBits(S), n)
  <2>1. Tested(seen, set.a, n)
    BY BitResults DEF Flipped
  <2>2. QED
    BY <1>2, <1>3, <2>1 DEF Tested
<1>5. Bits(FromBits(S)) = S
  BY <1>1, BitsOfItsByte
<1>6. reset.a = FromBits(S \ {n})
  BY <1>4, <1>5, BitResults DEF Flipped
<1>7. unseen.a = FromBits(S \ {n}) /\ unseen.f.z = ~Bit(FromBits(S \ {n}), n)
  <2>1. Tested(unseen, reset.a, n)
    BY BitResults DEF Flipped
  <2>2. QED
    BY <1>2, <1>6, <2>1 DEF Tested
<1>8. Bits(FromBits(S \ {n})) = S \ {n}
  <2>1. S \ {n} \subseteq 0..7
    BY <1>1
  <2>2. QED
    BY <2>1, BitsOfItsByte
<1>9. \A w : Bit(w, n) <=> n \in Bits(w)
  BY DEF Bits
<1>10. FromBits(S) = FromBits(S \ {n}) + 2^n
  <2>1. S = (S \ {n}) \cup {n} /\ (S \ {n}) \cap {n} = {}
    OBVIOUS
  <2>2. FromBits((S \ {n}) \cup {n}) = FromBits(S \ {n}) + FromBits({n})
    BY <2>1, FromBitsSum
  <2>3. QED
    BY <2>1, <2>2, OneBit
<1>11. Bit(FromBits(S), n) /\ ~Bit(FromBits(S \ {n}), n)
  BY <1>5, <1>8, <1>9
<1>12. QED
  BY <1>4, <1>7, <1>10, <1>11 DEF BitSeen

LEMMA SignBit ==
  ASSUME NEW v \in Byte
  PROVE  Bit(v, 7) <=> v >= 128
<1>1. (v \div 128) % 2 = 1 <=> v >= 128
  BY DEF Byte
<1>2. QED
  BY <1>1, ByteBits

TurnsLeft(r, v)  == r.a = Left(v)
TurnsRight(r, v) == r.a = Right(v)
Swaps(r, v)      == r.a = Swapped(v)

LEMMA LeftTurn ==
  ASSUME NEW rotation \in {"RLC", "RLCA"}, NEW v \in Byte, NEW m, NEW g
  PROVE  TurnsLeft(Apply(rotation, v, m, g), v)
<1>1. Apply("RLC", v, m, g).a = Left(v) /\ Apply("RLCA", v, m, g).a = Left(v)
  BY BytesRotated
<1>2. QED
  BY <1>1 DEF TurnsLeft

LEMMA RightTurn ==
  ASSUME NEW rotation \in {"RRC", "RRCA"}, NEW v \in Byte, NEW m, NEW g
  PROVE  TurnsRight(Apply(rotation, v, m, g), v)
<1>1. Apply("RRC", v, m, g).a = Right(v) /\ Apply("RRCA", v, m, g).a = Right(v)
  BY BytesRotated
<1>2. QED
  BY <1>1 DEF TurnsRight

LEMMA DigitSwap ==
  ASSUME NEW v \in Byte, NEW m, NEW g
  PROVE  Swaps(Apply("SWAP", v, m, g), v)
<1>1. Apply("SWAP", v, m, g).a = Swapped(v)
  BY BytesRotated
<1>2. QED
  BY <1>1 DEF Swaps

(* A rotation, four times, is a SWAP. *)
Turned(rotation, v, m, g, one, two, three, four, swapped) ==
  /\ one = Apply(rotation, v, m, g)
  /\ two = Apply(rotation, one.a, m, one.f)
  /\ three = Apply(rotation, two.a, m, two.f)
  /\ four = Apply(rotation, three.a, m, three.f)
  /\ swapped = Apply("SWAP", v, m, four.f)

LEMMA TurnedFourTimes ==
  ASSUME NEW rotation \in {"RLC", "RRC", "RLCA", "RRCA"},
         NEW v \in Byte, NEW m, NEW g \in Flags,
         NEW one, NEW two, NEW three, NEW four, NEW swapped,
         Turned(rotation, v, m, g, one, two, three, four, swapped)
  PROVE  four.a = swapped.a
<1>1. /\ one = Apply(rotation, v, m, g)
      /\ two = Apply(rotation, one.a, m, one.f)
      /\ three = Apply(rotation, two.a, m, two.f)
      /\ four = Apply(rotation, three.a, m, three.f)
      /\ swapped = Apply("SWAP", v, m, four.f)
  BY DEF Turned
<1>2. one.a \in Byte /\ one.f \in Flags
  BY <1>1, RotationType DEF Rotations, Results
<1>3. two.a \in Byte /\ two.f \in Flags
  BY <1>1, <1>2, RotationType DEF Rotations, Results
<1>4. three.a \in Byte /\ three.f \in Flags
  BY <1>1, <1>3, RotationType DEF Rotations, Results
<1>5. swapped.a = Swapped(v)
  <2>1. Swaps(swapped, v)
    BY <1>1, DigitSwap
  <2>2. QED
    BY <2>1 DEF Swaps
<1>6. CASE rotation \in {"RLC", "RLCA"}
  <2>1. TurnsLeft(one, v)
    BY <1>1, <1>6, LeftTurn
  <2>2. TurnsLeft(two, one.a)
    BY <1>1, <1>2, <1>6, LeftTurn
  <2>3. TurnsLeft(three, two.a)
    BY <1>1, <1>3, <1>6, LeftTurn
  <2>4. TurnsLeft(four, three.a)
    BY <1>1, <1>4, <1>6, LeftTurn
  <2>5. QED
    BY <1>5, <2>1, <2>2, <2>3, <2>4, FourTurns DEF TurnsLeft
<1>7. CASE rotation \in {"RRC", "RRCA"}
  <2>1. TurnsRight(one, v)
    BY <1>1, <1>7, RightTurn
  <2>2. TurnsRight(two, one.a)
    BY <1>1, <1>2, <1>7, RightTurn
  <2>3. TurnsRight(three, two.a)
    BY <1>1, <1>3, <1>7, RightTurn
  <2>4. TurnsRight(four, three.a)
    BY <1>1, <1>4, <1>7, RightTurn
  <2>5. QED
    BY <1>5, <2>1, <2>2, <2>3, <2>4, FourTurns DEF TurnsRight
<1>8. QED
  BY <1>6, <1>7
=============================================================================
