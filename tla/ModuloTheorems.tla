--------------------------- MODULE ModuloTheorems ---------------------------
(* Facts about quotients and remainders the timer's arithmetic rests on.   *)
EXTENDS Integers, TLAPS

(* Quotient and remainder. *)
LEMMA Division ==
  ASSUME NEW a \in Nat, NEW p \in Nat \ {0}
  PROVE  /\ a = p * (a \div p) + (a % p)
         /\ a \div p \in Nat
         /\ a % p \in Nat
         /\ a % p < p
OBVIOUS

(* Distinct multiples of p are at least p apart. *)
LEMMA MultiplesApart ==
  ASSUME NEW p \in Nat \ {0}, NEW q \in Nat, NEW k \in Nat, q < k
  PROVE p * q + p <= p * k
<1>1. PICK d \in Nat : k = q + 1 + d
  <2>1. k - q - 1 \in Nat /\ k = q + 1 + (k - q - 1)
    OBVIOUS
  <2>2. QED
    BY <2>1
<1>2. p * k = p * q + p + p * d
  BY <1>1
<1>3. p * d \in Nat
  OBVIOUS
<1>4. p * q \in Nat
  OBVIOUS
<1>5. QED
  BY <1>2, <1>3, <1>4

(* Quotient and remainder are unique. *)
LEMMA DivisionUnique ==
  ASSUME NEW p \in Nat \ {0}, NEW q \in Nat, NEW r \in Nat, r < p,
         NEW k \in Nat, NEW s \in Nat, s < p, p * q + r = p * k + s
  PROVE  q = k /\ r = s
<1>0. p * q \in Nat /\ p * k \in Nat
  OBVIOUS
<1>1. ~(q < k)
  BY MultiplesApart, <1>0
<1>2. ~(k < q)
  BY MultiplesApart, <1>0
<1>3. QED
  BY <1>1, <1>2

(* The quotient and the remainder of a number given by both. *)
LEMMA DivisionOf ==
  ASSUME NEW p \in Nat \ {0}, NEW q \in Nat, NEW r \in Nat, r < p
  PROVE  (p * q + r) \div p = q /\ (p * q + r) % p = r
<1>1. p * q + r \in Nat
  OBVIOUS
<1>2. QED
  BY <1>1, Division, DivisionUnique

(***************************************************************************)
(* In n steps from a, no more than a period p, a multiple of p is reached  *)
(* once if the last n steps of the period were left, and not at all        *)
(* otherwise: the difference of quotients timer_ticks computes.            *)
(***************************************************************************)
LEMMA PeriodEnds ==
  ASSUME NEW p \in Nat \ {0}, NEW a \in Nat, NEW n \in Nat \ {0}, n <= p
  PROVE  (a + n) \div p - a \div p = IF (a + n) % p < n THEN 1 ELSE 0
<1> DEFINE q == a \div p
           r == a % p
<1>1. a = p * q + r /\ q \in Nat /\ r \in Nat /\ r < p
  BY Division
<1> HIDE DEF q, r
<1>0. p * q \in Nat
  BY <1>1
<1>2. CASE r + n < p
  <2>1. a + n = p * q + (r + n)
    BY <1>1, <1>0
  <2>2. (a + n) \div p = q /\ (a + n) % p = r + n
    BY <2>1, <1>1, <1>2, DivisionOf
  <2>3. QED
    BY <1>1, <2>2 DEF q
<1>3. CASE r + n >= p
  <2>1. p * (q + 1) = p * q + p
    BY <1>1
  <2>2. a + n = p * (q + 1) + (r + n - p) /\ r + n - p \in Nat /\ r + n - p < p
    BY <1>1, <1>0, <1>3, <2>1
  <2> DEFINE u == q + 1
             v == r + n - p
  <2>a. a + n = p * u + v /\ u \in Nat /\ v \in Nat /\ v < p
    BY <1>1, <2>2
  <2> HIDE DEF u, v
  <2>b. (a + n) \div p = u /\ (a + n) % p = v
    BY <2>a, DivisionOf
  <2>3. (a + n) \div p = q + 1 /\ (a + n) % p = r + n - p
    BY <2>b DEF u, v
  <2>4. QED
    BY <1>1, <2>3 DEF q
<1>4. QED
  BY <1>1, <1>2, <1>3

(* A counter that wraps at a multiple of p stays in phase with p. *)
LEMMA WrapModulo ==
  ASSUME NEW p \in Nat \ {0}, NEW m \in Nat \ {0}, m % p = 0, NEW x \in Nat
  PROVE  (x % m) % p = x % p
<1> DEFINE d == m \div p
           k == x \div m
           y == x % m
           q == y \div p
           r == y % p
<1>1. m = p * d /\ d \in Nat
  BY Division
<1>2. x = m * k + y /\ k \in Nat /\ y \in Nat
  BY Division
<1>3. y = p * q + r /\ q \in Nat /\ r \in Nat /\ r < p
  BY <1>2, Division
<1> HIDE DEF d, k, y, q, r
<1>4. x = p * (d * k + q) + r
  <2>1. m * k = p * (d * k)
    BY <1>1, <1>2
  <2>2. d * k \in Nat
    BY <1>1, <1>2
  <2>3. p * (d * k + q) = p * (d * k) + p * q
    BY <2>2, <1>3
  <2>4. p * (d * k) \in Nat /\ p * q \in Nat
    BY <2>2, <1>3
  <2>5. QED
    BY <1>2, <1>3, <2>1, <2>3, <2>4
<1>5. d * k + q \in Nat
  BY <1>1, <1>2, <1>3
<1>6. x % p = r
  BY <1>3, <1>4, <1>5, DivisionOf
<1>7. QED
  BY <1>6 DEF r, y

(* A digit more: the remainder by a multiple of a. *)
LEMMA MixedRadix ==
  ASSUME NEW d \in Nat, NEW a \in Nat \ {0}, NEW b \in Nat \ {0}
  PROVE  /\ b * a \in Nat \ {0}
         /\ d % (b * a) = (d % a) + ((d \div a) % b) * a
<1> DEFINE q == d \div a
           r == d % a
           u == q \div b
           v == q % b
           p == b * a
<1>1. d = a * q + r /\ q \in Nat /\ r \in Nat /\ r < a
  BY Division
<1>2. q = b * u + v /\ u \in Nat /\ v \in Nat /\ v < b
  BY <1>1, Division
<1>3. p \in Nat \ {0}
  OBVIOUS
<1>p. p = b * a
  OBVIOUS
<1> HIDE DEF q, r, u, v, p
<1>4. v * a + a <= p
  <2>1. a * v + a <= a * b
    BY <1>2, MultiplesApart
  <2>2. a * v = v * a /\ a * b = p
    BY <1>2, <1>p
  <2>3. v * a \in Nat
    BY <1>2
  <2>4. QED
    BY <1>3, <2>1, <2>2, <2>3
<1>5. d = p * u + (v * a + r)
  <2>1. a * q = a * (b * u) + a * v
    BY <1>2
  <2>2. a * (b * u) = p * u
    BY <1>2, <1>p
  <2>3. a * v = v * a /\ p * u \in Nat /\ v * a \in Nat
    BY <1>2, <1>3
  <2>4. QED
    BY <1>1, <2>1, <2>2, <2>3
<1>6. v * a + r \in Nat /\ v * a + r < p
  <2>1. v * a \in Nat
    BY <1>2
  <2>2. QED
    BY <1>1, <1>3, <1>4, <2>1
<1> DEFINE s == v * a + r
<1>7. d = p * u + s /\ s \in Nat /\ s < p
  BY <1>5, <1>6
<1> HIDE DEF s
<1>8. d % p = s
  BY <1>2, <1>3, <1>7, DivisionOf
<1>9. QED
  BY <1>3, <1>8, <1>p DEF s, v, q, r
=============================================================================
