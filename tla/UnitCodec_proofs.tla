-------------------------- MODULE UnitCodec_proofs --------------------------
(***************************************************************************)
(* What the scaling of UnitCodec does to a value, for every range and      *)
(* every number of bits: it stays in the field, the ends of the range are  *)
(* exact, and a value written and read back loses less than one unit when  *)
(* the field has as many codes as the range has values.  And what its      *)
(* recursions over bits and controls compute: an encoded state is a        *)
(* number of that many bits, a decoded one has values its setters accept,  *)
(* and a state decoded twice is the state decoded once.                    *)
(***************************************************************************)
EXTENDS UnitCodec, Sequence_proofs

-----------------------------------------------------------------------------
(* Quotients.                                                              *)

\* The floor of a quotient.
LEMMA Floor ==
  ASSUME NEW a \in Int, NEW b \in Nat \ {0}
  PROVE  /\ a \div b \in Int
         /\ b * (a \div b) <= a
         /\ a < b * (a \div b) + b
OBVIOUS

LEMMA FloorIs ==
  ASSUME NEW a \in Int, NEW b \in Nat \ {0}, NEW q \in Int,
         b * q <= a, a < b * q + b
  PROVE  a \div b = q
<1>1. PICK d \in Int : d = a \div b /\ b * d <= a /\ a < b * d + b
  BY Floor
<1>2. d < q + 1
  <2>1. b * d < b * q + b
    BY <1>1
  <2>2. SUFFICES ASSUME d >= q + 1 PROVE FALSE
    BY <1>1
  <2>3. b * d >= b * (q + 1)
    BY <1>1, <2>2
  <2> QED BY <1>1, <2>1, <2>3
<1>3. q < d + 1
  <2>1. b * q < b * d + b
    BY <1>1
  <2>2. SUFFICES ASSUME q >= d + 1 PROVE FALSE
    BY <1>1
  <2>3. b * q >= b * (d + 1)
    BY <1>1, <2>2
  <2> QED BY <1>1, <2>1, <2>3
<1> QED BY <1>1, <1>2, <1>3

\* A product is monotone in either factor.
LEMMA Product ==
  ASSUME NEW a \in Int, NEW b \in Int, NEW c \in Nat, a <= b
  PROVE  c * a \in Int /\ c * b \in Int /\ c * a <= c * b
OBVIOUS

\* The quotient of a number that lies between two multiples lies between them.
LEMMA QuotientBetween ==
  ASSUME NEW x \in Int, NEW m \in Nat \ {0}, NEW lo \in Int, NEW hi \in Int,
         m * lo <= x, x <= m * hi
  PROVE  x \div m \in lo..hi
<1>1. PICK q \in Int : q = x \div m /\ m * q <= x /\ x < m * q + m
  BY Floor
<1>2. ~(q < lo)
  <2> SUFFICES ASSUME q + 1 <= lo PROVE FALSE
    BY <1>1
  <2>1. m * (q + 1) <= m * lo
    BY <1>1, Product
  <2>2. m * (q + 1) = m * q + m
    BY <1>1
  <2> QED BY <1>1, <2>1, <2>2
<1>3. ~(q > hi)
  <2> SUFFICES ASSUME hi + 1 <= q PROVE FALSE
    BY <1>1
  <2>1. m * (hi + 1) <= m * q
    BY <1>1, Product
  <2>2. m * (hi + 1) = m * hi + m
    OBVIOUS
  <2> QED BY <1>1, <2>1, <2>2
<1> QED BY <1>1, <1>2, <1>3

-----------------------------------------------------------------------------
\* The code getStateAsBytes writes for a value of the range fits the field of the
\* control: it cannot spill into its neighbours (_unit.py:557-597).
THEOREM ScaledFits ==
  ASSUME NEW lo \in Int, NEW hi \in Int, lo < hi, NEW v \in lo..hi, NEW mask \in Nat
  PROVE  Scaled(v, lo, hi, mask) \in 0..mask
<1>1. hi - lo \in Nat \ {0} /\ v - lo \in Nat /\ v - lo <= hi - lo
  OBVIOUS
<1>2. mask * 0 <= mask * (v - lo) /\ mask * (v - lo) <= mask * (hi - lo)
  BY <1>1, Product
<1>3. (hi - lo) * 0 <= mask * (v - lo) /\ mask * (v - lo) <= (hi - lo) * mask
  BY <1>1, <1>2
<1> QED BY <1>1, <1>3, QuotientBetween DEF Scaled

\* The two ends of the range are the first and the last code.
THEOREM ScaledEnds ==
  ASSUME NEW lo \in Int, NEW hi \in Int, lo < hi, NEW mask \in Nat
  PROVE  Scaled(lo, lo, hi, mask) = 0 /\ Scaled(hi, lo, hi, mask) = mask
<1> DEFINE w == hi - lo
<1>1. w \in Nat \ {0} /\ lo - lo = 0
  OBVIOUS
<1>2. mask * 0 = 0 /\ w * 0 <= 0 /\ 0 < w * 0 + w
  BY <1>1
<1>3. w * mask <= mask * w /\ mask * w < w * mask + w /\ mask * w \in Int
  BY <1>1
<1> HIDE DEF w
<1>4. 0 \div w = 0
  BY <1>1, <1>2, FloorIs
<1>5. (mask * w) \div w = mask
  BY <1>1, <1>3, FloorIs
<1> QED BY <1>1, <1>2, <1>4, <1>5 DEF Scaled, w

\* What setStateFromBytes reads from any code of the field lies in the range, also
\* where int() truncates a negative reading towards 0 (_unit.py:730-780).
THEOREM UnscaledInRange ==
  ASSUME NEW lo \in Int, NEW hi \in Int, lo < hi,
         NEW mask \in Nat \ {0}, NEW n \in 0..mask
  PROVE  Unscaled(n, lo, hi, mask) \in lo..hi
<1> DEFINE w == hi - lo
           x == n * w + lo * mask
<1>1. w \in Nat \ {0} /\ n \in Nat /\ n <= mask /\ x \in Int
  OBVIOUS
<1>2. mask * lo <= x /\ x <= mask * hi
  <2>1. w * 0 <= w * n /\ w * n <= w * mask
    BY <1>1, Product
  <2>2. w * 0 = 0 /\ w * n = n * w /\ mask * hi = w * mask + lo * mask
        /\ mask * lo = lo * mask
    BY <1>1
  <2>3. n * w \in Int /\ lo * mask \in Int /\ w * mask \in Int
    BY <1>1
  <2> HIDE DEF w
  <2> QED BY <2>1, <2>2, <2>3
<1> HIDE DEF w, x
<1>3. CASE x >= 0
  <2>1. x \div mask \in lo..hi
    BY <1>1, <1>2, QuotientBetween
  <2> QED BY <1>3, <2>1 DEF Unscaled, x, w
<1>4. CASE ~(x >= 0)
  <2>1. mask * (-hi) <= -x /\ -x <= mask * (-lo)
    <3>1. mask * (-hi) = -(mask * hi) /\ mask * (-lo) = -(mask * lo)
      OBVIOUS
    <3>2. mask * hi \in Int /\ mask * lo \in Int
      OBVIOUS
    <3> QED BY <1>1, <1>2, <3>1, <3>2
  <2>2. (-x) \div mask \in (-hi)..(-lo)
    BY <1>1, <2>1, QuotientBetween
  <2>3. -((-x) \div mask) \in lo..hi
    BY <2>2
  <2> QED BY <1>4, <2>3 DEF Unscaled, x, w
<1> QED BY <1>3, <1>4

\* Written and read back a value is itself or one less, if the field has a code
\* for every value and no value is negative: this is why a shade that was asked
\* for 50 reports 49, and never 48 or 51.
THEOREM WrittenAndRead ==
  ASSUME NEW lo \in Nat, NEW hi \in Nat, lo < hi, NEW v \in lo..hi,
         NEW mask \in Nat, hi - lo <= mask
  PROVE  Unscaled(Scaled(v, lo, hi, mask), lo, hi, mask) \in {v - 1, v}
<1> DEFINE w == hi - lo
           s == Scaled(v, lo, hi, mask)
           x == s * w + lo * mask
<1>1. w \in Nat \ {0} /\ mask \in Nat \ {0} /\ w <= mask /\ v - lo \in Nat
  OBVIOUS
<1>2. s \in 0..mask
  BY ScaledFits
<1>3. w * s <= mask * (v - lo) /\ mask * (v - lo) < w * s + w
  <2>1. mask * (v - lo) \in Int
    BY <1>1
  <2> QED BY <1>1, <2>1, Floor DEF Scaled
<1> HIDE DEF s
<1>4. x \in Int /\ x >= 0
  BY <1>1, <1>2
<1>5. mask * (v - 1) <= x /\ x <= mask * v
  <2>1. mask * (v - lo) = mask * v - lo * mask /\ mask * (v - 1) = mask * v - mask
    OBVIOUS
  <2>2. s * w = w * s /\ w * s \in Int /\ mask * v \in Int /\ lo * mask \in Int
    BY <1>1, <1>2
  <2> HIDE DEF w
  <2> QED BY <1>1, <1>3, <2>1, <2>2
<1> HIDE DEF w, x
<1>6. x \div mask \in (v - 1)..v
  BY <1>1, <1>4, <1>5, QuotientBetween
<1> QED BY <1>4, <1>6 DEF Unscaled, x, w, s

-----------------------------------------------------------------------------
(* Bits.                                                                   *)

\* The powers of two the codec meets.
LEMMA Powers0 ==
  /\ 2 ^ 0 \in Nat \ {0} /\ 2 ^ (0 + 1) = 2 * 2 ^ 0
  /\ 2 ^ 1 \in Nat \ {0} /\ 2 ^ (1 + 1) = 2 * 2 ^ 1
  /\ 2 ^ 2 \in Nat \ {0} /\ 2 ^ (2 + 1) = 2 * 2 ^ 2
  /\ 2 ^ 3 \in Nat \ {0} /\ 2 ^ (3 + 1) = 2 * 2 ^ 3
  /\ 2 ^ 4 \in Nat \ {0} /\ 2 ^ (4 + 1) = 2 * 2 ^ 4
  /\ 2 ^ 5 \in Nat \ {0} /\ 2 ^ (5 + 1) = 2 * 2 ^ 5
  /\ 2 ^ 6 \in Nat \ {0} /\ 2 ^ (6 + 1) = 2 * 2 ^ 6
  /\ 2 ^ 7 \in Nat \ {0} /\ 2 ^ (7 + 1) = 2 * 2 ^ 7
OBVIOUS

LEMMA Powers1 ==
  /\ 2 ^ 8 \in Nat \ {0} /\ 2 ^ (8 + 1) = 2 * 2 ^ 8
  /\ 2 ^ 9 \in Nat \ {0} /\ 2 ^ (9 + 1) = 2 * 2 ^ 9
  /\ 2 ^ 10 \in Nat \ {0} /\ 2 ^ (10 + 1) = 2 * 2 ^ 10
  /\ 2 ^ 11 \in Nat \ {0} /\ 2 ^ (11 + 1) = 2 * 2 ^ 11
  /\ 2 ^ 12 \in Nat \ {0} /\ 2 ^ (12 + 1) = 2 * 2 ^ 12
  /\ 2 ^ 13 \in Nat \ {0} /\ 2 ^ (13 + 1) = 2 * 2 ^ 13
  /\ 2 ^ 14 \in Nat \ {0} /\ 2 ^ (14 + 1) = 2 * 2 ^ 14
  /\ 2 ^ 15 \in Nat \ {0} /\ 2 ^ (15 + 1) = 2 * 2 ^ 15
OBVIOUS

LEMMA Powers2 ==
  /\ 2 ^ 16 \in Nat \ {0} /\ 2 ^ (16 + 1) = 2 * 2 ^ 16
  /\ 2 ^ 17 \in Nat \ {0} /\ 2 ^ (17 + 1) = 2 * 2 ^ 17
  /\ 2 ^ 18 \in Nat \ {0} /\ 2 ^ (18 + 1) = 2 * 2 ^ 18
  /\ 2 ^ 19 \in Nat \ {0} /\ 2 ^ (19 + 1) = 2 * 2 ^ 19
  /\ 2 ^ 20 \in Nat \ {0} /\ 2 ^ (20 + 1) = 2 * 2 ^ 20
  /\ 2 ^ 21 \in Nat \ {0} /\ 2 ^ (21 + 1) = 2 * 2 ^ 21
  /\ 2 ^ 22 \in Nat \ {0} /\ 2 ^ (22 + 1) = 2 * 2 ^ 22
  /\ 2 ^ 23 \in Nat \ {0} /\ 2 ^ (23 + 1) = 2 * 2 ^ 23
OBVIOUS

LEMMA Powers3 ==
  /\ 2 ^ 24 \in Nat \ {0} /\ 2 ^ (24 + 1) = 2 * 2 ^ 24
  /\ 2 ^ 25 \in Nat \ {0} /\ 2 ^ (25 + 1) = 2 * 2 ^ 25
  /\ 2 ^ 26 \in Nat \ {0} /\ 2 ^ (26 + 1) = 2 * 2 ^ 26
  /\ 2 ^ 27 \in Nat \ {0} /\ 2 ^ (27 + 1) = 2 * 2 ^ 27
  /\ 2 ^ 28 \in Nat \ {0} /\ 2 ^ (28 + 1) = 2 * 2 ^ 28
  /\ 2 ^ 29 \in Nat \ {0} /\ 2 ^ (29 + 1) = 2 * 2 ^ 29
  /\ 2 ^ 30 \in Nat \ {0} /\ 2 ^ (30 + 1) = 2 * 2 ^ 30
  /\ 2 ^ 31 \in Nat \ {0} /\ 2 ^ (31 + 1) = 2 * 2 ^ 31
OBVIOUS

\* The provers know the operator ^ only of numbers: they reason about a function.
Pow == [n \in 0..32 |-> 2 ^ n]

LEMMA Doubles ==
  ASSUME NEW n \in 0..31
  PROVE  Pow[n] \in Nat \ {0} /\ Pow[n + 1] = 2 * Pow[n]
<1>0. n \in 0..32 /\ n + 1 \in 0..32
  OBVIOUS
<1>1. CASE n \in 0..7
  <2>1. n = 0 \/ n = 1 \/ n = 2 \/ n = 3 \/ n = 4 \/ n = 5 \/ n = 6 \/ n = 7
    BY <1>1
  <2> QED BY <1>0, <2>1, Powers0 DEF Pow
<1>2. CASE n \in 8..15
  <2>1. n = 8 \/ n = 9 \/ n = 10 \/ n = 11 \/ n = 12 \/ n = 13 \/ n = 14 \/ n = 15
    BY <1>2
  <2> QED BY <1>0, <2>1, Powers1 DEF Pow
<1>3. CASE n \in 16..23
  <2>1. n = 16 \/ n = 17 \/ n = 18 \/ n = 19 \/ n = 20 \/ n = 21 \/ n = 22 \/ n = 23
    BY <1>3
  <2> QED BY <1>0, <2>1, Powers2 DEF Pow
<1>4. CASE n \in 24..31
  <2>1. n = 24 \/ n = 25 \/ n = 26 \/ n = 27 \/ n = 28 \/ n = 29 \/ n = 30 \/ n = 31
    BY <1>4
  <2> QED BY <1>0, <2>1, Powers3 DEF Pow
<1> QED BY <1>1, <1>2, <1>3, <1>4

LEMMA PowTyped == Pow \in [0..32 -> Nat \ {0}] /\ Pow[0] = 1 /\ Pow[8] = 256
<1>1. ASSUME NEW n \in 0..32 PROVE Pow[n] \in Nat \ {0}
  <2>1. CASE n = 32
    <3>1. Pow[31] \in Nat \ {0} /\ Pow[31 + 1] = 2 * Pow[31]
      BY Doubles
    <3> QED BY <2>1, <3>1
  <2>2. CASE n # 32
    <3>1. n \in 0..31
      BY <2>2
    <3> QED BY <3>1, Doubles
  <2> QED BY <2>1, <2>2
<1>2. Pow[0] = 2 ^ 0 /\ Pow[8] = 2 ^ 8
  BY DEF Pow
<1>3. 2 ^ 0 = 1 /\ 2 ^ 8 = 256
  OBVIOUS
<1>4. Pow = [n \in 0..32 |-> Pow[n]]
  BY DEF Pow
<1> QED BY <1>1, <1>2, <1>3, <1>4

LEMMA PowSum ==
  ASSUME NEW i \in 0..32, NEW d \in Nat, i + d <= 32
  PROVE  Pow[i + d] = Pow[i] * Pow[d]
<1> DEFINE T == {n \in Nat : i + n <= 32 => Pow[i + n] = Pow[i] * Pow[n]}
<1>1. 0 \in T
  BY PowTyped
<1>2. ASSUME NEW n \in Nat, n \in T PROVE n + 1 \in T
  <2> SUFFICES ASSUME i + (n + 1) <= 32 PROVE Pow[i + (n + 1)] = Pow[i] * Pow[n + 1]
    OBVIOUS
  <2>1. i + n \in 0..31 /\ n \in 0..31 /\ i + (n + 1) = (i + n) + 1
    OBVIOUS
  <2>2. Pow[(i + n) + 1] = 2 * Pow[i + n] /\ Pow[n + 1] = 2 * Pow[n]
    BY <2>1, Doubles
  <2>3. Pow[i + n] = Pow[i] * Pow[n]
    BY <1>2, <2>1
  <2>4. PICK a, b \in Nat : a = Pow[i] /\ b = Pow[n]
    BY <2>1, PowTyped
  <2>5. 2 * (a * b) = a * (2 * b)
    OBVIOUS
  <2> QED BY <2>1, <2>2, <2>3, <2>4, <2>5
<1> HIDE DEF T
<1>3. d \in T
  BY <1>1, <1>2, Induction
<1> QED BY <1>3 DEF T

LEMMA PowUp ==
  ASSUME NEW i \in 0..32, NEW m \in i..32
  PROVE  Pow[i] <= Pow[m]
<1>1. PICK d \in Nat : d \in 0..32 /\ i + d = m
  <2>1. m - i \in 0..32 /\ i + (m - i) = m
    OBVIOUS
  <2> QED BY <2>1
<1>2. Pow[m] = Pow[i] * Pow[d]
  BY SMTT(40), <1>1, PowSum
<1>3. PICK a, b \in Nat \ {0} : a = Pow[i] /\ b = Pow[d]
  BY <1>1, PowTyped
<1>4. a * 1 <= a * b
  BY Product
<1> QED BY <1>2, <1>3, <1>4

\* Bit i of a number that is a higher power of two greater.
LEMMA HighBit ==
  ASSUME NEW x \in Nat, NEW m \in 0..30, NEW i \in 0..30, i < m
  PROVE  ((x + Pow[m]) \div Pow[i]) % 2 = (x \div Pow[i]) % 2
<1>1. PICK d \in Nat : d \in 0..31 /\ i + (d + 1) = m
  <2>1. m - i - 1 \in 0..31 /\ i + ((m - i - 1) + 1) = m
    OBVIOUS
  <2> QED BY <2>1
<1>2. PICK p \in Nat \ {0}, k \in Nat : p = Pow[i] /\ k = Pow[d]
  BY <1>1, PowTyped
<1>3. Pow[m] = p * (2 * k)
  <2>1. d + 1 \in Nat /\ i + (d + 1) <= 32
    BY <1>1
  <2>2. Pow[i + (d + 1)] = Pow[i] * Pow[d + 1]
    BY <2>1, PowSum
  <2> QED BY <1>1, <1>2, <2>2, Doubles
<1>4. PICK q \in Int : q = x \div p /\ p * q <= x /\ x < p * q + p
  <2>1. x \in Int
    OBVIOUS
  <2> QED BY <1>2, <2>1, Floor
<1>5. (x + p * (2 * k)) \div p = q + 2 * k
  <2>1. p * (q + 2 * k) = p * q + p * (2 * k)
    BY <1>2, <1>4
  <2>2. p * q \in Int /\ p * (2 * k) \in Int
    BY <1>2, <1>4
  <2>3. p * (q + 2 * k) <= x + p * (2 * k) /\ x + p * (2 * k) < p * (q + 2 * k) + p
    BY <1>4, <2>1, <2>2
  <2>4. x + p * (2 * k) \in Int /\ q + 2 * k \in Int
    BY <1>2, <1>4
  <2> QED BY <1>2, <2>3, <2>4, FloorIs
<1>6. (q + 2 * k) % 2 = q % 2
  BY <1>2, <1>4
<1> QED BY <1>2, <1>3, <1>4, <1>5, <1>6

\* The quotient of a number by a power of two above it, and by one it contains once.
LEMMA TopBit ==
  ASSUME NEW m \in 0..31, NEW x \in Nat, x < Pow[m]
  PROVE  x \div Pow[m] = 0 /\ (x + Pow[m]) \div Pow[m] = 1
<1>1. PICK p \in Nat \ {0} : p = Pow[m]
  BY PowTyped
<1>2. p * 0 <= x /\ x < p * 0 + p /\ p * 1 <= x + p /\ x + p < p * 1 + p
  BY <1>1
<1>3. x \div p = 0
  BY <1>2, FloorIs
<1>4. (x + p) \div p = 1
  BY <1>2, FloorIs
<1> QED BY <1>1, <1>3, <1>4

LEMMA BitsAre ==
  ASSUME NEW v
  PROVE  BitsOf(v) = {i \in 0..30 : (v \div Pow[i]) % 2 = 1}
BY DEF BitsOf, Pow

\* The number with the given bits as the recursion of IntOf computes it.
BitSum(f, bits) ==
  f = [n \in -1..30 |->
         IF n = -1 THEN 0 ELSE f[n - 1] + (IF n \in bits THEN Pow[n] ELSE 0)]

LEMMA BitSumExists ==
  ASSUME NEW bits
  PROVE  \E f : BitSum(f, bits)
<1> DEFINE S(g, m) == g = [n \in -1..m |->
              IF n = -1 THEN 0 ELSE g[n - 1] + (IF n \in bits THEN Pow[n] ELSE 0)]
           T == {m \in Nat : \E g : S(g, m - 1)}
<1>1. 0 \in T
  <2> DEFINE h == [n \in -1..(0 - 1) |-> 0]
  <2>1. S(h, 0 - 1)
    OBVIOUS
  <2> HIDE DEF h
  <2>2. \E g : S(g, 0 - 1)
    BY <2>1
  <2> QED BY <2>2
<1>2. ASSUME NEW m \in Nat, m \in T PROVE m + 1 \in T
  <2>1. PICK g : S(g, m - 1)
    BY <1>2
  <2> DEFINE h == [n \in -1..m |->
                IF n < m THEN g[n] ELSE g[m - 1] + (IF m \in bits THEN Pow[m] ELSE 0)]
  <2>2. ASSUME NEW n \in -1..m
        PROVE  h[n] = IF n = -1 THEN 0 ELSE h[n - 1] + (IF n \in bits THEN Pow[n] ELSE 0)
    <3>1. CASE n = -1
      BY <2>1, <3>1
    <3>2. CASE n # -1 /\ n < m
      BY <2>1, <3>2
    <3>3. CASE n = m
      BY <2>1, <3>3
    <3> QED BY <3>1, <3>2, <3>3
  <2>3. S(h, m)
    BY <2>2
  <2> HIDE DEF h
  <2>4. m + 1 \in Nat /\ (m + 1) - 1 = m
    OBVIOUS
  <2>5. \E g2 : S(g2, (m + 1) - 1)
    BY <2>3, <2>4
  <2> QED BY <2>4, <2>5
<1> HIDE DEF T
<1>3. 31 \in T
  BY <1>1, <1>2, Induction
<1>4. PICK g : S(g, 31 - 1)
  BY <1>3 DEF T
<1> QED BY <1>4 DEF BitSum

LEMMA IntOfIs ==
  ASSUME NEW bits
  PROVE  \E f : BitSum(f, bits) /\ IntOf(bits) = IF bits = {} THEN 0 ELSE f[Max(bits)]
<1> DEFINE upto[n \in -1..30] ==
             IF n = -1 THEN 0 ELSE upto[n - 1] + (IF n \in bits THEN 2 ^ n ELSE 0)
<1>1. IntOf(bits) = IF bits = {} THEN 0 ELSE upto[Max(bits)]
  BY DEF IntOf
<1>2. \E f : f = [n \in -1..30 |->
                    IF n = -1 THEN 0 ELSE f[n - 1] + (IF n \in bits THEN 2 ^ n ELSE 0)]
  <2>1. PICK f : BitSum(f, bits)
    BY BitSumExists
  <2>2. f = [n \in -1..30 |->
               IF n = -1 THEN 0 ELSE f[n - 1] + (IF n \in bits THEN 2 ^ n ELSE 0)]
    BY SMTT(40), <2>1 DEF BitSum, Pow
  <2> QED BY <2>2
<1>3. upto = [n \in -1..30 |->
                IF n = -1 THEN 0 ELSE upto[n - 1] + (IF n \in bits THEN 2 ^ n ELSE 0)]
  BY <1>2
<1> HIDE DEF upto
<1>4. BitSum(upto, bits)
  BY <1>3 DEF BitSum, Pow
<1> QED BY <1>1, <1>4

LEMMA BitSumBits ==
  ASSUME NEW f, NEW bits, BitSum(f, bits), NEW n \in -1..30
  PROVE  /\ f[n] \in Nat /\ f[n] < Pow[n + 1]
         /\ \A i \in 0..n : (f[n] \div Pow[i]) % 2 = 1 <=> i \in bits
<1> DEFINE Q(m) == /\ f[m] \in Nat /\ f[m] < Pow[m + 1]
                   /\ \A i \in 0..m : (f[m] \div Pow[i]) % 2 = 1 <=> i \in bits
           T == {m \in Nat : m <= 31 => Q(m - 1)}
<1>1. 0 \in T
  <2>1. f[-1] = 0
    BY DEF BitSum
  <2>2. 0 - 1 = -1 /\ (0 - 1) + 1 = 0
    OBVIOUS
  <2> QED BY <2>1, <2>2, PowTyped
<1>2. ASSUME NEW m \in Nat, m \in T PROVE m + 1 \in T
  <2> SUFFICES ASSUME m <= 30 PROVE Q(m)
    OBVIOUS
  <2>1. PICK x \in Nat : /\ x = f[m - 1] /\ x < Pow[m]
                         /\ \A i \in 0..(m - 1) : (x \div Pow[i]) % 2 = 1 <=> i \in bits
    <3>1. Q(m - 1) /\ (m - 1) + 1 = m
      BY <1>2
    <3> QED BY <3>1
  <2>2. f[m] = x + (IF m \in bits THEN Pow[m] ELSE 0)
    BY <2>1 DEF BitSum
  <2>3. m \in 0..30 /\ Pow[m] \in Nat \ {0} /\ Pow[m + 1] = 2 * Pow[m]
    BY SMTT(40), Doubles
  <2>4. x \div Pow[m] = 0 /\ (x + Pow[m]) \div Pow[m] = 1
    BY SMTT(40), <2>1, <2>3, TopBit
  <2>5. \A i \in 0..(m - 1) : ((x + Pow[m]) \div Pow[i]) % 2 = (x \div Pow[i]) % 2
    <3> SUFFICES ASSUME NEW i \in 0..(m - 1)
                 PROVE  ((x + Pow[m]) \div Pow[i]) % 2 = (x \div Pow[i]) % 2
      OBVIOUS
    <3>1. i \in 0..30 /\ i < m
      BY <2>3
    <3> QED BY <2>3, <3>1, HighBit
  <2>6. CASE m \in bits
    <3>1. f[m] = x + Pow[m] /\ f[m] \in Nat /\ f[m] < Pow[m + 1]
      BY <2>1, <2>2, <2>3, <2>6
    <3>2. ASSUME NEW i \in 0..m PROVE (f[m] \div Pow[i]) % 2 = 1 <=> i \in bits
      <4>1. CASE i = m
        BY <2>4, <2>6, <3>1, <4>1
      <4>2. CASE i # m
        <5>1. i \in 0..(m - 1)
          BY <4>2
        <5> QED BY <2>1, <2>5, <3>1, <5>1
      <4> QED BY <4>1, <4>2
    <3> QED BY <3>1, <3>2
  <2>7. CASE m \notin bits
    <3>1. f[m] = x /\ f[m] \in Nat /\ f[m] < Pow[m + 1]
      BY <2>1, <2>2, <2>3, <2>7
    <3>2. ASSUME NEW i \in 0..m PROVE (f[m] \div Pow[i]) % 2 = 1 <=> i \in bits
      <4>1. CASE i = m
        BY <2>4, <2>7, <3>1, <4>1
      <4>2. CASE i # m
        <5>1. i \in 0..(m - 1)
          BY <4>2
        <5> QED BY <2>1, <3>1, <5>1
      <4> QED BY <4>1, <4>2
    <3> QED BY <3>1, <3>2
  <2> QED BY <2>6, <2>7
<1>3. n + 1 \in Nat /\ n + 1 <= 31 /\ (n + 1) - 1 = n
  OBVIOUS
<1> HIDE DEF T, Q
<1>4. n + 1 \in T
  BY <1>1, <1>2, <1>3, Induction
<1>5. Q(n)
  BY <1>3, <1>4 DEF T
<1> QED BY <1>5 DEF Q

\* The bits above the highest add nothing.
LEMMA BitSumTop ==
  ASSUME NEW f, NEW bits, BitSum(f, bits), NEW k \in -1..30, \A i \in bits : i <= k,
         NEW n \in k..30
  PROVE  f[n] = f[k]
<1> DEFINE T == {d \in Nat : k + d <= 30 => f[k + d] = f[k]}
<1>1. 0 \in T
  OBVIOUS
<1>2. ASSUME NEW d \in Nat, d \in T PROVE d + 1 \in T
  <2> SUFFICES ASSUME k + (d + 1) <= 30 PROVE f[k + (d + 1)] = f[k]
    OBVIOUS
  <2>1. f[k + d] = f[k]
    BY <1>2
  <2>2. k + (d + 1) \in 0..30 /\ (k + (d + 1)) - 1 = k + d
    OBVIOUS
  <2>3. k + (d + 1) \notin bits
    <3>1. ~(k + (d + 1) <= k)
      OBVIOUS
    <3> QED BY <3>1
  <2>4. f[k + (d + 1)] = f[(k + (d + 1)) - 1] + 0
    BY SMTT(40), <2>2, <2>3 DEF BitSum
  <2>5. f[k] \in Nat
    BY BitSumBits
  <2> QED BY <2>1, <2>2, <2>4, <2>5
<1>3. n - k \in Nat /\ k + (n - k) = n
  OBVIOUS
<1> HIDE DEF T
<1>4. n - k \in T
  BY <1>1, <1>2, <1>3, Induction
<1> QED BY <1>3, <1>4 DEF T

LEMMA IntOfSum ==
  ASSUME NEW bits \in SUBSET (0..30)
  PROVE  \E f : BitSum(f, bits) /\ IntOf(bits) = f[30]
<1>1. PICK f : BitSum(f, bits) /\ IntOf(bits) = IF bits = {} THEN 0 ELSE f[Max(bits)]
  BY IntOfIs
<1>2. CASE bits = {}
  <2>1. f[30] = f[-1]
    BY <1>1, <1>2, BitSumTop
  <2>2. f[-1] = 0
    BY <1>1 DEF BitSum
  <2> QED BY <1>1, <1>2, <2>1, <2>2
<1>3. CASE bits # {}
  <2>1. Max(bits) \in bits /\ \A k \in bits : k <= Max(bits)
    BY <1>3, MaxIs
  <2>2. PICK k \in 0..30 : k = Max(bits) /\ \A i \in bits : i <= k
    BY <2>1
  <2>3. k \in -1..30 /\ 30 \in k..30
    OBVIOUS
  <2>4. f[30] = f[k]
    BY <1>1, <2>2, <2>3, BitSumTop
  <2> QED BY <1>1, <1>3, <2>2, <2>4
<1> QED BY <1>2, <1>3

\* The bits of the number with given bits are those bits, and k bits make a number
\* below 2^k.
LEMMA BitsOfIntOf ==
  ASSUME NEW bits \in SUBSET (0..30)
  PROVE  IntOf(bits) \in Nat /\ BitsOf(IntOf(bits)) = bits
<1>1. PICK f : BitSum(f, bits) /\ IntOf(bits) = f[30]
  BY IntOfSum
<1>2. /\ f[30] \in Nat
      /\ \A i \in 0..30 : (f[30] \div Pow[i]) % 2 = 1 <=> i \in bits
  BY <1>1, BitSumBits
<1> QED BY <1>1, <1>2, BitsAre

LEMMA IntOfBound ==
  ASSUME NEW k \in 0..31, NEW bits \in SUBSET (0..(k - 1))
  PROVE  IntOf(bits) \in Nat /\ IntOf(bits) < Pow[k]
<1>1. PICK f : BitSum(f, bits) /\ IntOf(bits) = f[30]
  <2>1. bits \in SUBSET (0..30)
    OBVIOUS
  <2> QED BY <2>1, IntOfSum
<1>2. k - 1 \in -1..30 /\ (k - 1) + 1 = k /\ 30 \in (k - 1)..30
  OBVIOUS
<1>3. f[30] = f[k - 1]
  <2>1. \A i \in bits : i <= k - 1
    OBVIOUS
  <2> QED BY <1>1, <1>2, <2>1, BitSumTop
<1>4. f[k - 1] \in Nat /\ f[k - 1] < Pow[(k - 1) + 1]
  BY <1>1, <1>2, BitSumBits
<1> QED BY <1>1, <1>2, <1>3, <1>4

\* A number below 2^k has only the bits below k.
LEMMA BitsBelow ==
  ASSUME NEW k \in 0..31, NEW v \in Nat, v < Pow[k]
  PROVE  BitsOf(v) \in SUBSET (0..(k - 1))
<1> SUFFICES ASSUME NEW i \in 0..30, (v \div Pow[i]) % 2 = 1, i >= k PROVE FALSE
  BY BitsAre
<1>1. Pow[k] <= Pow[i]
  BY PowUp
<1>2. Pow[k] \in Nat /\ Pow[i] \in Nat
  BY PowTyped
<1>3. v < Pow[i] /\ i \in 0..31
  BY <1>1, <1>2
<1>4. v \div Pow[i] = 0
  BY <1>3, TopBit
<1> QED BY <1>4

\* The number with the bits of a number is that number.
LEMMA IntOfBitsOf ==
  ASSUME NEW v \in Nat, v < Pow[31]
  PROVE  IntOf(BitsOf(v)) = v
<1> DEFINE bits == BitsOf(v)
<1>1. bits = {i \in 0..30 : (v \div Pow[i]) % 2 = 1}
  BY BitsAre
<1> HIDE DEF bits
<1>2. PICK f : BitSum(f, bits) /\ IntOf(bits) = f[30]
  <2>1. bits \in SUBSET (0..30)
    BY <1>1
  <2> QED BY <2>1, IntOfSum
<1> DEFINE T == {n \in Nat : n <= 31 => v = Pow[n] * (v \div Pow[n]) + f[n - 1]}
<1>3. 0 \in T
  <2>1. f[0 - 1] = 0
    BY <1>2 DEF BitSum
  <2>2. v \div 1 = v
    OBVIOUS
  <2> QED BY <2>1, <2>2, PowTyped
<1>4. ASSUME NEW n \in Nat, n \in T PROVE n + 1 \in T
  <2> SUFFICES ASSUME n <= 30 PROVE v = Pow[n + 1] * (v \div Pow[n + 1]) + f[(n + 1) - 1]
    OBVIOUS
  <2>1. PICK p \in Nat \ {0} : p = Pow[n] /\ Pow[n + 1] = 2 * p
    BY SMTT(40), Doubles
  <2>2. PICK x \in Nat : x = f[n - 1] /\ x < p
    <3>1. n - 1 \in -1..30 /\ (n - 1) + 1 = n
      OBVIOUS
    <3>2. f[n - 1] \in Nat /\ f[n - 1] < Pow[(n - 1) + 1]
      BY <1>2, <3>1, BitSumBits
    <3> QED BY <2>1, <3>1, <3>2
  <2>3. PICK q \in Int : q = v \div p
    BY <2>1, Floor
  <2>4. v = p * q + x
    BY <1>4, <2>1, <2>2, <2>3
  <2>5. PICK r \in Int, b \in {0, 1} : q = 2 * r + b
    <3>1. q = 2 * (q \div 2) + (q % 2) /\ q % 2 \in {0, 1} /\ q \div 2 \in Int
      OBVIOUS
    <3> QED BY <3>1
  <2>6. q % 2 = b
    BY <2>5
  <2>7. f[n] = x + b * p
    <3>1. f[n] = x + (IF n \in bits THEN Pow[n] ELSE 0)
      BY <1>2, <2>2 DEF BitSum
    <3>2. n \in bits <=> b = 1
      BY <1>1, <2>1, <2>3, <2>6
    <3> QED BY <2>1, <2>2, <2>5, <3>1, <3>2
  <2>8. p * q = (2 * p) * r + b * p
    BY <2>1, <2>5
  <2>9. (2 * p) * r \in Int /\ b * p \in 0..p
    BY <2>1, <2>5
  <2>10. v \div (2 * p) = r
    <3>1. (2 * p) * r <= v /\ v < (2 * p) * r + 2 * p
      <4>1. PICK a \in Int, d \in 0..p : a = (2 * p) * r /\ d = b * p
        BY <2>9
      <4>2. v = a + d + x /\ d + x < 2 * p
        <5>1. b = 0 => d = 0
          BY <2>1, <4>1
        <5> QED BY <2>2, <2>4, <2>8, <4>1
      <4> QED BY <2>2, <4>1, <4>2
    <3>2. 2 * p \in Nat \ {0}
      BY <2>1
    <3> QED BY <2>5, <3>1, <3>2, FloorIs
  <2>11. (n + 1) - 1 = n
    OBVIOUS
  <2> QED BY <2>1, <2>2, <2>4, <2>7, <2>8, <2>9, <2>10, <2>11
<1> HIDE DEF T
<1>5. 31 \in T
  BY <1>3, <1>4, Induction
<1>6. v = Pow[31] * (v \div Pow[31]) + f[31 - 1]
  BY <1>5 DEF T
<1>7. v \div Pow[31] = 0 /\ Pow[31] \in Nat
  BY TopBit, PowTyped
<1>8. f[30] \in Nat
  BY <1>2, BitSumBits
<1> QED BY <1>2, <1>6, <1>7, <1>8 DEF bits

-----------------------------------------------------------------------------
(* Controls.                                                               *)

LEMMA ControlIs ==
  ASSUME NEW ty, NEW t, NEW n \in Nat, DOMAIN ty.controls = 1..n
  PROVE  \/ Control(ty, t) = None
         \/ \E i \in 1..n : Control(ty, t) = ty.controls[i] /\ ty.controls[i].type = t
<1> DEFINE those == {i \in DOMAIN ty.controls : ty.controls[i].type = t}
<1>1. CASE those = {}
  BY <1>1 DEF Control
<1>2. CASE those # {}
  <2>1. Min(those) \in those
    <3>1. those \in SUBSET Nat
      OBVIOUS
    <3> HIDE DEF those
    <3> QED BY <1>2, <3>1, MinIs
  <2>2. Control(ty, t) = ty.controls[Min(those)]
    BY <1>2 DEF Control
  <2> QED BY <2>1, <2>2
<1> QED BY <1>1, <1>2

\* A control keeps within its place what fits, and nothing else.
LEMMA PlacedFits ==
  ASSUME NEW c, c.offset \in Nat, c.length \in 0..31, NEW v \in Nat, v < Pow[c.length]
  PROVE  Placed(c, v) \subseteq Place(c)
<1>1. BitsOf(v) \in SUBSET (0..(c.length - 1))
  BY BitsBelow
<1> QED BY <1>1 DEF Placed, Place

LEMMA ExtractBound ==
  ASSUME NEW c, c.offset \in Nat, c.length \in 0..31, NEW bits
  PROVE  Extract(c, bits) \in Nat /\ Extract(c, bits) < Pow[c.length]
<1> DEFINE own == {i - c.offset : i \in bits \cap Place(c)}
<1>1. own \in SUBSET (0..(c.length - 1))
  BY DEF Place
<1> HIDE DEF own
<1>2. IntOf(own) \in Nat /\ IntOf(own) < Pow[c.length]
  BY <1>1, IntOfBound
<1> QED BY <1>2 DEF Extract, own

\* A code that was placed where no other bit is set is read back.
LEMMA PlacedExtract ==
  ASSUME NEW c, c.offset \in Nat, c.length \in 0..31, NEW v \in Nat, v < Pow[c.length],
         NEW bits, bits \cap Place(c) = Placed(c, v)
  PROVE  Extract(c, bits) = v
<1>1. BitsOf(v) \in SUBSET (0..(c.length - 1))
  BY BitsBelow
<1>2. {i - c.offset : i \in bits \cap Place(c)} = BitsOf(v)
  <2>1. \A b \in BitsOf(v) : (c.offset + b) - c.offset = b
    BY <1>1
  <2> QED BY <2>1 DEF Placed
<1>3. v < Pow[31]
  <2>1. Pow[c.length] <= Pow[31] /\ Pow[c.length] \in Nat /\ Pow[31] \in Nat
    BY PowUp, PowTyped
  <2> QED BY <2>1
<1> QED BY <1>2, <1>3, IntOfBitsOf DEF Extract

-----------------------------------------------------------------------------
(* Decoding.                                                               *)

\* The fold of setStateFromBytes over the first n controls.
Folds(f, ty, st, bits, n) ==
  f = [i \in 0..n |-> IF i = 0 THEN st ELSE ReadControl(ty, bits, f[i - 1], ty.controls[i])]

LEMMA FoldsExists ==
  ASSUME NEW ty, NEW st, NEW bits, NEW n \in Nat
  PROVE  \E f : Folds(f, ty, st, bits, n)
<1> DEFINE T == {m \in Nat : \E f : Folds(f, ty, st, bits, m)}
<1>1. 0 \in T
  <2>1. Folds([i \in 0..0 |-> st], ty, st, bits, 0)
    BY DEF Folds
  <2> QED BY <2>1
<1>2. ASSUME NEW m \in Nat, m \in T PROVE m + 1 \in T
  <2>1. PICK g : Folds(g, ty, st, bits, m)
    BY <1>2
  <2> DEFINE h == [i \in 0..(m + 1) |->
                IF i <= m THEN g[i] ELSE ReadControl(ty, bits, g[m], ty.controls[m + 1])]
  <2>2. ASSUME NEW i \in 0..(m + 1)
        PROVE  h[i] = IF i = 0 THEN st ELSE ReadControl(ty, bits, h[i - 1], ty.controls[i])
    <3>1. CASE i = 0
      BY <2>1, <3>1 DEF Folds
    <3>2. CASE i # 0 /\ i <= m
      BY <2>1, <3>2 DEF Folds
    <3>3. CASE i = m + 1
      BY <2>1, <3>3
    <3> QED BY <3>1, <3>2, <3>3
  <2>3. Folds(h, ty, st, bits, m + 1)
    BY <2>2 DEF Folds
  <2> HIDE DEF h
  <2> QED BY <2>3
<1> HIDE DEF T
<1>3. n \in T
  BY <1>1, <1>2, Induction
<1> QED BY <1>3 DEF T

\* The controls are read in their order, up to the first that a setter refuses.
Decodes(f, n, ty, st, bits) ==
  /\ Folds(f, ty, st, bits, n)
  /\ Decode(ty, st, bits).state = f[n]
  /\ Decode(ty, st, bits).ok = (\A i \in DOMAIN ty.controls : ~Refused(ty.controls[i], bits))
  /\ Decode(ty, st, bits).ok => n = Len(ty.controls)
  /\ \A i \in 1..n : ~Refused(ty.controls[i], bits)

LEMMA DecodeIs ==
  ASSUME NEW ty, NEW l \in Nat, DOMAIN ty.controls = 1..l, Len(ty.controls) = l,
         NEW st, NEW bits
  PROVE  \E n \in 0..l : \E f : Decodes(f, n, ty, st, bits)
<1> DEFINE bad == {i \in DOMAIN ty.controls : Refused(ty.controls[i], bits)}
           upto == IF bad = {} THEN Len(ty.controls) ELSE Min(bad) - 1
           after[i \in 0..upto] ==
             IF i = 0 THEN st
             ELSE LET before == after[i - 1] IN ReadControl(ty, bits, before, ty.controls[i])
<1>1. upto \in 0..l /\ (bad = {} => upto = l) /\ \A i \in 1..upto : i \notin bad
  <2>1. bad \in SUBSET Nat /\ bad \in SUBSET (1..l)
    OBVIOUS
  <2>2. bad # {} => Min(bad) \in bad /\ \A k \in bad : Min(bad) <= k
    <3> HIDE DEF bad
    <3> QED BY <2>1, MinIs
  <2> HIDE DEF bad
  <2>3. CASE bad = {}
    BY <2>3
  <2>4. CASE bad # {}
    <3>1. PICK m \in 1..l : m = Min(bad) /\ \A k \in bad : m <= k
      BY <2>1, <2>2, <2>4
    <3>2. upto = m - 1
      BY <2>4, <3>1
    <3>3. \A i \in 1..(m - 1) : i \notin bad
      BY <3>1
    <3> QED BY <2>4, <3>2, <3>3
  <2> QED BY <2>3, <2>4
<1>2. Decode(ty, st, bits) = [ok |-> bad = {}, state |-> after[upto]]
  BY DEF Decode
<1>3. bad = {} <=> \A i \in 1..l : ~Refused(ty.controls[i], bits)
  OBVIOUS
<1>4. \A i \in 1..upto : ~Refused(ty.controls[i], bits)
  BY <1>1
<1> HIDE DEF bad, upto
<1>5. Folds(after, ty, st, bits, upto)
  <2>1. \E f : f = [i \in 0..upto |->
          IF i = 0 THEN st ELSE ReadControl(ty, bits, f[i - 1], ty.controls[i])]
    <3>1. upto \in Nat
      BY <1>1
    <3>2. PICK f : Folds(f, ty, st, bits, upto)
      BY <3>1, FoldsExists
    <3> QED BY <3>2 DEF Folds
  <2> QED BY <2>1 DEF Folds
<1> HIDE DEF after
<1>6. /\ Decode(ty, st, bits).ok = (bad = {})
      /\ Decode(ty, st, bits).state = after[upto]
  BY <1>2
<1>7. /\ upto \in 0..l
      /\ Decode(ty, st, bits).ok = (\A i \in 1..l : ~Refused(ty.controls[i], bits))
      /\ Decode(ty, st, bits).ok => upto = l
  BY <1>1, <1>3, <1>6
<1> QED BY <1>4, <1>5, <1>6, <1>7 DEF Decodes
\* A state is a record, and its sensors a function.
Kept(st) ==
  /\ st = [k \in DOMAIN NoState |-> st[k]]
  /\ st.sensors = [t \in DOMAIN st.sensors |-> st.sensors[t]]

LEMMA NoStateKept == Kept(NoState)
<1>1. NoState = [k \in DOMAIN NoState |-> NoState[k]]
  BY DEF NoState
<1>2. NoState.sensors = <<>>
  BY DEF NoState
<1>3. <<>> = [t \in DOMAIN <<>> |-> <<>>[t]]
  OBVIOUS
<1> QED BY <1>1, <1>2, <1>3 DEF Kept

LEMMA FieldIs ==
  /\ DOMAIN Field = {"DIMMER", "VERTICAL", "WHITE", "TEMPERATURE", "SENSOR", "COLORSOURCE",
                     "RGB", "XY", "SLIDER", "ONOFF", "PRESENCE", "LUX", "SENSORGROUP"}
  /\ \A t \in DOMAIN Field : Field[t] # "sensors"
  /\ "sensors" \notin Range(Field)
  /\ DOMAIN NoState = Range(Field) \cup {"sensors"}
<1>1. DOMAIN Field = {"DIMMER", "VERTICAL", "WHITE", "TEMPERATURE", "SENSOR", "COLORSOURCE",
                      "RGB", "XY", "SLIDER", "ONOFF", "PRESENCE", "LUX", "SENSORGROUP"}
  BY DEF Field
<1>2. \A t \in DOMAIN Field : Field[t] # "sensors"
  BY <1>1 DEF Field
<1>3. DOMAIN NoState = Range(Field) \cup {"sensors"}
  BY DEF NoState
<1> QED BY <1>1, <1>2, <1>3 DEF Range

\* A step of decoding: the sensors get the fresh reading, or a field its value, or
\* nothing happens; which of them does not depend on the state.
LEMMA ReadControlIs ==
  ASSUME NEW ty, NEW bits, NEW st, NEW c
  PROVE  \/ /\ c.type = "SENSOR" /\ c.length = 0
            /\ ReadControl(ty, bits, st, c) =
                 [st EXCEPT !["sensors"] = Tagged(ty, c, bits, st["sensors"])]
         \/ /\ Reads(c) /\ ~(c.type = "SENSOR" /\ c.length = 0)
            /\ ReadControl(ty, bits, st, c) =
                 [st EXCEPT ![Field[c.type]] = Reading(c, Extract(c, bits))]
         \/ /\ ~Reads(c) /\ ~(c.type = "SENSOR" /\ c.length = 0)
            /\ ReadControl(ty, bits, st, c) = st
<1> DEFINE empty == c.type = "SENSOR" /\ c.length = 0
<1>1. CASE empty
  BY <1>1 DEF ReadControl
<1>2. CASE Reads(c) /\ ~empty
  BY <1>2 DEF ReadControl
<1>3. CASE ~Reads(c) /\ ~empty
  BY <1>3 DEF ReadControl
<1> QED BY <1>1, <1>2, <1>3

\* The tagged sensor whose reading is fresh.
IsFresh(ty, c, bits) ==
  /\ c.tag # None /\ ActiveTag(ty, bits) # None /\ c.tag = ActiveTag(ty, bits)
  /\ c.offset \in DOMAIN GroupRaw(ty, bits)

Updated(old, k, x) == [t \in DOMAIN old \cup {k} |-> IF t = k THEN x ELSE old[t]]

LEMMA TaggedIs ==
  ASSUME NEW ty, NEW c, NEW bits, NEW old
  PROVE  /\ IsFresh(ty, c, bits) =>
              Tagged(ty, c, bits, old) = Updated(old, c.name, GroupRaw(ty, bits)[c.offset])
         /\ ~IsFresh(ty, c, bits) => Tagged(ty, c, bits, old) = old
BY DEF Tagged, IsFresh, Updated

LEMMA ReadControlKept ==
  ASSUME NEW ty, NEW bits, NEW st, Kept(st), NEW c
  PROVE  Kept(ReadControl(ty, bits, st, c))
<1> DEFINE new == ReadControl(ty, bits, st, c)
<1>0. /\ DOMAIN st = DOMAIN NoState /\ "sensors" \in DOMAIN st
      /\ \A t \in DOMAIN Field : Field[t] \in DOMAIN st /\ Field[t] # "sensors"
  BY FieldIs DEF Kept, Range
<1>1. CASE /\ c.type = "SENSOR" /\ c.length = 0
           /\ new = [st EXCEPT !["sensors"] = Tagged(ty, c, bits, st["sensors"])]
  <2> DEFINE v == Tagged(ty, c, bits, st["sensors"])
  <2>1. v = [t \in DOMAIN v |-> v[t]]
    <3>1. PICK old : old = st["sensors"] /\ old = [t \in DOMAIN old |-> old[t]]
      BY DEF Kept
    <3>2. CASE IsFresh(ty, c, bits)
      <4> DEFINE x == GroupRaw(ty, bits)[c.offset]
      <4>1. v = Updated(old, c.name, x)
        BY <3>1, <3>2, TaggedIs
      <4> HIDE DEF v, x
      <4> QED BY <4>1 DEF Updated
    <3>3. CASE ~IsFresh(ty, c, bits)
      BY <3>1, <3>3, TaggedIs
    <3> QED BY <3>2, <3>3
  <2> HIDE DEF v, new
  <2>2. new = [st EXCEPT !["sensors"] = v]
    BY <1>1 DEF v
  <2>3. DOMAIN new = DOMAIN NoState /\ new = [k \in DOMAIN NoState |-> new[k]]
    BY <1>0, <2>2
  <2>4. new.sensors = v
    BY <1>0, <2>2
  <2> QED BY <2>1, <2>3, <2>4 DEF Kept, new
<1>2. CASE /\ Reads(c) /\ ~(c.type = "SENSOR" /\ c.length = 0)
           /\ new = [st EXCEPT ![Field[c.type]] = Reading(c, Extract(c, bits))]
  <2> DEFINE v == Reading(c, Extract(c, bits))
             k == Field[c.type]
  <2>1. k \in DOMAIN st /\ k # "sensors"
    BY <1>0, <1>2 DEF Reads
  <2>2. new = [st EXCEPT ![k] = v]
    BY <1>2
  <2> HIDE DEF v, k, new
  <2>3. new = [j \in DOMAIN NoState |-> new[j]]
    BY <1>0, <2>2
  <2>4. new.sensors = st.sensors
    BY <1>0, <2>1, <2>2
  <2> QED BY <2>3, <2>4 DEF Kept, new
<1>3. CASE new = st
  BY <1>3
<1> QED BY <1>1, <1>2, <1>3, ReadControlIs

LEMMA FoldsKept ==
  ASSUME NEW ty, NEW bits, NEW st, Kept(st), NEW n \in Nat, NEW f, Folds(f, ty, st, bits, n)
  PROVE  \A i \in 0..n : Kept(f[i])
<1> DEFINE T == {i \in Nat : i <= n => Kept(f[i])}
<1>1. 0 \in T
  BY DEF Folds
<1>2. ASSUME NEW i \in Nat, i \in T PROVE i + 1 \in T
  <2> SUFFICES ASSUME i + 1 <= n PROVE Kept(f[i + 1])
    OBVIOUS
  <2>1. i + 1 \in 0..n /\ i + 1 # 0 /\ (i + 1) - 1 = i /\ i <= n
    OBVIOUS
  <2>2. f[i + 1] = ReadControl(ty, bits, f[i], ty.controls[i + 1])
    BY <2>1 DEF Folds
  <2>3. Kept(f[i])
    BY <1>2, <2>1
  <2> QED BY <2>2, <2>3, ReadControlKept
<1> HIDE DEF T
<1>3. \A i \in Nat : i \in T
  BY <1>1, <1>2, Induction
<1> QED BY <1>3 DEF T

\* Two states decoding started from, and what became of them: a key has the same
\* value in both, or still the ones it had.
Alike(x, y, a, b, k) == x[k] = y[k] \/ (x[k] = a[k] /\ y[k] = b[k])

AlikeIn(x, y, a, b, t) ==
  \/ t \in DOMAIN x /\ t \in DOMAIN y /\ x[t] = y[t]
  \/ /\ t \in DOMAIN x <=> t \in DOMAIN a
     /\ t \in DOMAIN y <=> t \in DOMAIN b
     /\ t \in DOMAIN x => x[t] = a[t]
     /\ t \in DOMAIN y => y[t] = b[t]

AlikeAll(x, y, a, b) ==
  /\ \A k \in Range(Field) : Alike(x, y, a, b, k)
  /\ \A t : AlikeIn(x.sensors, y.sensors, a.sensors, b.sensors, t)

LEMMA AlikeStep ==
  ASSUME NEW ty, NEW bits, NEW c, NEW x, NEW y, NEW a, NEW b, Kept(x), Kept(y),
         AlikeAll(x, y, a, b)
  PROVE  AlikeAll(ReadControl(ty, bits, x, c), ReadControl(ty, bits, y, c), a, b)
<1> DEFINE x1 == ReadControl(ty, bits, x, c)
           y1 == ReadControl(ty, bits, y, c)
<1>0. /\ DOMAIN x = DOMAIN NoState /\ DOMAIN y = DOMAIN NoState
      /\ "sensors" \in DOMAIN NoState /\ \A k \in Range(Field) : k # "sensors" /\ k \in DOMAIN NoState
  BY FieldIs DEF Kept
<1>1. CASE c.type = "SENSOR" /\ c.length = 0
  <2> DEFINE p == x["sensors"]
             q == y["sensors"]
             v == Tagged(ty, c, bits, p)
             w == Tagged(ty, c, bits, q)
  <2>1. x1 = [x EXCEPT !["sensors"] = v] /\ y1 = [y EXCEPT !["sensors"] = w]
    BY <1>1, ReadControlIs
  <2>2. p = [t \in DOMAIN p |-> p[t]] /\ q = [t \in DOMAIN q |-> q[t]]
    BY DEF Kept
  <2>a. \A t : AlikeIn(p, q, a.sensors, b.sensors, t)
    BY DEF AlikeAll
  <2> HIDE DEF p, q
  <2>3. \/ /\ DOMAIN v = DOMAIN p \cup {c.name} /\ DOMAIN w = DOMAIN q \cup {c.name}
           /\ v[c.name] = w[c.name]
           /\ \A t \in DOMAIN p : t # c.name => v[t] = p[t]
           /\ \A t \in DOMAIN q : t # c.name => w[t] = q[t]
        \/ v = p /\ w = q
    <3>1. CASE IsFresh(ty, c, bits)
      <4> DEFINE g == GroupRaw(ty, bits)[c.offset]
      <4>1. v = Updated(p, c.name, g) /\ w = Updated(q, c.name, g)
        BY <3>1, TaggedIs
      <4> HIDE DEF v, w, g
      <4> QED BY <4>1 DEF Updated
    <3>2. CASE ~IsFresh(ty, c, bits)
      BY <3>2, TaggedIs
    <3> QED BY <3>1, <3>2
  <2> HIDE DEF v, w, x1, y1
  <2>4. \A t : AlikeIn(v, w, a.sensors, b.sensors, t)
    <3>1. CASE v = p /\ w = q
      BY <2>a, <3>1
    <3>2. CASE ~(v = p /\ w = q)
      <4> SUFFICES ASSUME NEW t PROVE AlikeIn(v, w, a.sensors, b.sensors, t)
        OBVIOUS
      <4>1. CASE t = c.name
        BY <2>3, <3>2, <4>1 DEF AlikeIn
      <4>2. CASE t # c.name
        <5>1. AlikeIn(p, q, a.sensors, b.sensors, t)
          BY <2>a
        <5>2. (t \in DOMAIN v <=> t \in DOMAIN p) /\ (t \in DOMAIN w <=> t \in DOMAIN q)
          BY <2>3, <3>2, <4>2
        <5>3. (t \in DOMAIN p => v[t] = p[t]) /\ (t \in DOMAIN q => w[t] = q[t])
          BY <2>3, <3>2, <4>2
        <5> QED BY <5>1, <5>2, <5>3 DEF AlikeIn
      <4> QED BY <4>1, <4>2
    <3> QED BY <3>1, <3>2
  <2>5. \A k \in Range(Field) : x1[k] = x[k] /\ y1[k] = y[k]
    BY <1>0, <2>1
  <2>6. x1["sensors"] = v /\ y1["sensors"] = w
    BY <1>0, <2>1
  <2> QED BY <2>4, <2>5, <2>6 DEF AlikeAll, Alike, x1, y1
<1>2. CASE Reads(c) /\ ~(c.type = "SENSOR" /\ c.length = 0)
  <2> DEFINE v == Reading(c, Extract(c, bits))
             k == Field[c.type]
  <2>1. x1 = [x EXCEPT ![k] = v] /\ y1 = [y EXCEPT ![k] = v]
    BY <1>2, ReadControlIs
  <2>2. k \in Range(Field)
    BY <1>2 DEF Reads, Range
  <2> HIDE DEF v, k, x1, y1
  <2>3. \A j \in Range(Field) : Alike(x1, y1, a, b, j)
    BY <1>0, <2>1, <2>2 DEF AlikeAll, Alike
  <2>4. x1["sensors"] = x["sensors"] /\ y1["sensors"] = y["sensors"]
    BY <1>0, <2>1, <2>2
  <2> QED BY <2>3, <2>4 DEF AlikeAll, x1, y1
<1>3. CASE ~Reads(c) /\ ~(c.type = "SENSOR" /\ c.length = 0)
  BY <1>3, ReadControlIs
<1> QED BY <1>1, <1>2, <1>3

\* A state that was decoded completely is a fixed point: the same bytes once more
\* change nothing (_unit.py:687-816), whatever was known before.
THEOREM DecodeAgain ==
  ASSUME NEW ty, NEW l \in Nat, DOMAIN ty.controls = 1..l, Len(ty.controls) = l,
         NEW st, Kept(st), NEW bits, Decode(ty, st, bits).ok
  PROVE  LET new == Decode(ty, st, bits).state
         IN  Kept(new) /\ Decode(ty, new, bits) = [ok |-> TRUE, state |-> new]
<1>1. PICK n \in 0..l : \E f : Decodes(f, n, ty, st, bits)
  BY DecodeIs
<1>2. PICK f : Decodes(f, n, ty, st, bits)
  BY <1>1
<1> DEFINE new == Decode(ty, st, bits).state
<1>3. n = l /\ Folds(f, ty, st, bits, l) /\ new = f[l]
  BY <1>2 DEF Decodes
<1>4. \A i \in 0..l : Kept(f[i])
  BY <1>3, FoldsKept
<1>5. Kept(new)
  BY <1>3, <1>4
<1>a. \A i \in DOMAIN ty.controls : ~Refused(ty.controls[i], bits)
  BY <1>2 DEF Decodes
<1> HIDE DEF new
<1>6. PICK m \in 0..l : \E g : Decodes(g, m, ty, new, bits)
  BY DecodeIs
<1>7. PICK g : Decodes(g, m, ty, new, bits)
  BY <1>6
<1>8. Decode(ty, new, bits).ok = TRUE
  BY <1>7, <1>a DEF Decodes
<1>9. m = l /\ Folds(g, ty, new, bits, l) /\ Decode(ty, new, bits).state = g[l]
  BY <1>7, <1>8 DEF Decodes
<1>10. \A i \in 0..l : Kept(g[i])
  BY <1>5, <1>9, FoldsKept
<1> DEFINE T == {i \in Nat : i <= l => AlikeAll(f[i], g[i], st, new)}
<1>11. 0 \in T
  <2>1. f[0] = st /\ g[0] = new
    BY <1>3, <1>9 DEF Folds
  <2>2. AlikeAll(st, new, st, new)
    BY DEF AlikeAll, Alike, AlikeIn
  <2> QED BY <2>1, <2>2
<1>12. ASSUME NEW i \in Nat, i \in T PROVE i + 1 \in T
  <2> SUFFICES ASSUME i + 1 <= l PROVE AlikeAll(f[i + 1], g[i + 1], st, new)
    OBVIOUS
  <2>1. i + 1 \in 0..l /\ i + 1 # 0 /\ (i + 1) - 1 = i /\ i <= l /\ i \in 0..l
    OBVIOUS
  <2>2. /\ f[i + 1] = ReadControl(ty, bits, f[i], ty.controls[i + 1])
        /\ g[i + 1] = ReadControl(ty, bits, g[i], ty.controls[i + 1])
    BY <1>3, <1>9, <2>1 DEF Folds
  <2>3. AlikeAll(f[i], g[i], st, new) /\ Kept(f[i]) /\ Kept(g[i])
    BY <1>4, <1>10, <1>12, <2>1
  <2> QED BY <2>2, <2>3, AlikeStep
<1> HIDE DEF T
<1>13. AlikeAll(new, g[l], st, new)
  <2>1. l \in T
    BY <1>11, <1>12, Induction
  <2> QED BY <1>3, <2>1 DEF T
<1>14. PICK y : y = g[l] /\ Kept(y)
  BY <1>10
<1>15. y = new
  <2>1. \A k \in Range(Field) : y[k] = new[k]
    BY <1>13, <1>14 DEF AlikeAll, Alike
  <2>2. y.sensors = new.sensors
    <3>a. PICK a : a = new.sensors /\ a = [t \in DOMAIN a |-> a[t]]
      BY <1>5 DEF Kept
    <3>b. PICK b : b = y.sensors /\ b = [t \in DOMAIN b |-> b[t]]
      BY <1>14 DEF Kept
    <3>1. /\ a = new.sensors /\ b = y.sensors
          /\ a = [t \in DOMAIN a |-> a[t]] /\ b = [t \in DOMAIN b |-> b[t]]
      BY <3>a, <3>b
    <3>2. ASSUME NEW t PROVE AlikeIn(a, b, st.sensors, a, t)
      BY <1>13, <1>14, <3>1 DEF AlikeAll
    <3>3. \A t : (t \in DOMAIN a <=> t \in DOMAIN b) /\ (t \in DOMAIN a => a[t] = b[t])
      BY <3>2 DEF AlikeIn
    <3>4. DOMAIN a = DOMAIN b
      BY <3>3
    <3> QED BY <3>1, <3>3, <3>4
  <2>3. \A k \in DOMAIN NoState : y[k] = new[k]
    BY <2>1, <2>2, FieldIs
  <2> QED BY <1>5, <1>14, <2>3 DEF Kept
<1>16. Decode(ty, new, bits) = [ok |-> Decode(ty, new, bits).ok,
                               state |-> Decode(ty, new, bits).state]
  BY DEF Decode
<1> QED BY <1>5, <1>8, <1>9, <1>14, <1>15, <1>16 DEF new

-----------------------------------------------------------------------------
(* What is written is read.                                                *)

\* A control keeps its code in the bytes of a state, and setStateFromBytes reads from
\* them what getStateAsBytes has written (_unit.py:521-607): no code spills into the
\* bits of another control, whatever the order of the controls.
THEOREM EncodedReadsBack ==
  ASSUME NEW ty, NEW st,
         \A c \in Range(ty.controls) : /\ c.offset \in Nat /\ c.length \in 0..31
                                       /\ Code(c, st) \in Nat /\ Code(c, st) < Pow[c.length],
         \A c, d \in Range(ty.controls) : c # d => Place(c) \cap Place(d) = {},
         NEW c \in Range(ty.controls)
  PROVE  /\ Encode(ty, st) \cap Place(c) = Placed(c, Code(c, st))
         /\ Extract(c, Encode(ty, st)) = Code(c, st)
<1>1. ASSUME NEW d \in Range(ty.controls) PROVE Placed(d, Code(d, st)) \subseteq Place(d)
  BY PlacedFits
<1>2. Encode(ty, st) \cap Place(c) = Placed(c, Code(c, st))
  BY <1>1 DEF Encode
<1> QED BY <1>2, PlacedExtract

LEMMA FieldsDiffer ==
  ASSUME NEW s \in DOMAIN Field, NEW t \in DOMAIN Field, Field[s] = Field[t]
  PROVE  s = t
BY FieldIs DEF Field

LEMMA ReadControlDomain ==
  ASSUME NEW ty, NEW bits, NEW st, NEW c
  PROVE  DOMAIN ReadControl(ty, bits, st, c) = DOMAIN st
BY ReadControlIs

\* After decoding, the field of a control that is the only one of its type holds the
\* reading of that control.
LEMMA DecodedField ==
  ASSUME NEW ty, NEW l \in Nat, DOMAIN ty.controls = 1..l, Len(ty.controls) = l,
         NEW st, DOMAIN st = DOMAIN NoState, NEW bits, Decode(ty, st, bits).ok,
         NEW k \in 1..l, NEW c, c = ty.controls[k],
         Reads(c), ~(c.type = "SENSOR" /\ c.length = 0),
         \A j \in 1..l : j # k => ty.controls[j].type # c.type
  PROVE  Decode(ty, st, bits).state[Field[c.type]] = Reading(c, Extract(c, bits))
<1>1. PICK n \in 0..l : \E f : Decodes(f, n, ty, st, bits)
  BY DecodeIs
<1>2. PICK f : Decodes(f, n, ty, st, bits)
  BY <1>1
<1>3. n = l /\ Folds(f, ty, st, bits, l) /\ Decode(ty, st, bits).state = f[l]
  BY <1>2 DEF Decodes
<1>4. c.type \in DOMAIN Field
  BY DEF Reads
<1> DEFINE key == Field[c.type]
           v   == Reading(c, Extract(c, bits))
<1>5. key \in DOMAIN NoState /\ key # "sensors"
  BY <1>4, FieldIs DEF Range
<1> HIDE DEF v
<1> DEFINE T == {i \in Nat : i <= l => /\ DOMAIN f[i] = DOMAIN NoState
                                       /\ i >= k => f[i][key] = v}
<1>6. 0 \in T
  BY <1>3 DEF Folds
<1>7. ASSUME NEW i \in Nat, i \in T PROVE i + 1 \in T
  <2> SUFFICES ASSUME i + 1 <= l
               PROVE  /\ DOMAIN f[i + 1] = DOMAIN NoState
                      /\ i + 1 >= k => f[i + 1][key] = v
    OBVIOUS
  <2>1. i + 1 \in 0..l /\ i + 1 \in 1..l /\ i + 1 # 0 /\ (i + 1) - 1 = i /\ i <= l
    OBVIOUS
  <2>2. PICK d : d = ty.controls[i + 1]
    OBVIOUS
  <2>3. f[i + 1] = ReadControl(ty, bits, f[i], d)
    BY <1>3, <2>1, <2>2 DEF Folds
  <2>4. DOMAIN f[i] = DOMAIN NoState /\ (i >= k => f[i][key] = v)
    BY <1>7, <2>1
  <2>5. DOMAIN f[i + 1] = DOMAIN NoState
    BY <2>3, <2>4, ReadControlDomain
  <2>6. CASE i + 1 = k
    <3>1. d = c
      BY <2>2, <2>6
    <3>2. f[i + 1] = [f[i] EXCEPT ![Field[c.type]] = Reading(c, Extract(c, bits))]
      BY <2>3, <3>1, ReadControlIs
    <3>3. f[i + 1] = [f[i] EXCEPT ![key] = v]
      BY <3>2 DEF v
    <3>4. f[i + 1][key] = v
      BY <1>5, <2>4, <3>3
    <3> QED BY <2>5, <3>4
  <2>7. CASE i + 1 # k
    <3>1. d.type # c.type
      BY <2>1, <2>2, <2>7
    <3>2. ASSUME Reads(d) PROVE Field[d.type] # key
      BY <1>4, <3>1, <3>2, FieldsDiffer DEF Reads
    <3>3. f[i + 1][key] = f[i][key]
      <4>1. CASE f[i + 1] = [f[i] EXCEPT !["sensors"] = Tagged(ty, d, bits, f[i]["sensors"])]
        BY <1>5, <2>4, <4>1
      <4>2. CASE /\ Reads(d)
                 /\ f[i + 1] = [f[i] EXCEPT ![Field[d.type]] = Reading(d, Extract(d, bits))]
        BY <1>5, <2>4, <3>2, <4>2
      <4>3. CASE f[i + 1] = f[i]
        BY <4>3
      <4> QED BY <2>3, <4>1, <4>2, <4>3, ReadControlIs
    <3>4. i + 1 >= k => i >= k
      BY <2>7
    <3> QED BY <2>4, <2>5, <3>3, <3>4
  <2> QED BY <2>6, <2>7
<1> HIDE DEF T
<1>8. l \in T
  BY <1>6, <1>7, Induction
<1>9. f[l][key] = v
  BY <1>8 DEF T
<1> QED BY <1>3, <1>9 DEF v

-----------------------------------------------------------------------------
(* Codes and readings of one control.                                      *)

LEMMA LeastOf ==
  ASSUME NEW a \in Int, NEW b \in Int
  PROVE  /\ Min({a, b}) \in {a, b} /\ Min({a, b}) <= a /\ Min({a, b}) <= b
         /\ Max({a, b}) \in {a, b} /\ Max({a, b}) >= a /\ Max({a, b}) >= b
<1>1. \E x \in {a, b} : \A y \in {a, b} : x <= y
  <2>1. CASE a <= b
    BY <2>1
  <2>2. CASE b <= a
    BY <2>2
  <2> QED BY <2>1, <2>2
<1>2. \E x \in {a, b} : \A y \in {a, b} : x >= y
  <2>1. CASE a <= b
    BY <2>1
  <2>2. CASE b <= a
    BY <2>2
  <2> QED BY <2>1, <2>2
<1> QED BY <1>1, <1>2 DEF Min, Max

LEMMA ClampIs ==
  ASSUME NEW lo \in Int, NEW hi \in Int, lo <= hi, NEW v \in Int
  PROVE  /\ Clamp(v, lo, hi) \in lo..hi
         /\ v \in lo..hi => Clamp(v, lo, hi) = v
<1>1. PICK m \in Int : m = Max({lo, v}) /\ m \in {lo, v} /\ m >= lo /\ m >= v
  <2>1. Max({lo, v}) \in {lo, v} /\ Max({lo, v}) >= lo /\ Max({lo, v}) >= v
    BY LeastOf
  <2> QED BY <2>1
<1>2. PICK r \in Int : r = Min({hi, m}) /\ r \in {hi, m} /\ r <= hi /\ r <= m
  <2>1. Min({hi, m}) \in {hi, m} /\ Min({hi, m}) <= hi /\ Min({hi, m}) <= m
    BY LeastOf
  <2> QED BY <2>1
<1>3. Clamp(v, lo, hi) = r
  BY <1>1, <1>2 DEF Clamp
<1> QED BY <1>1, <1>2, <1>3

LEMMA MaskIs ==
  ASSUME NEW c, c.length \in 0..31
  PROVE  Mask(c) = Pow[c.length] - 1 /\ Mask(c) \in Nat
<1>1. c.length \in 0..32
  OBVIOUS
<1>2. Pow[c.length] = 2 ^ c.length /\ Pow[c.length] \in Nat \ {0}
  BY <1>1, PowTyped DEF Pow
<1> QED BY <1>2 DEF Mask

\* A level of eight bits and its code of fewer.
LEMMA LevelCodes ==
  ASSUME NEW k \in 0..8
  PROVE  /\ \A v \in 0..255 : v \div Pow[8 - k] \in Nat /\ v \div Pow[8 - k] < Pow[k]
         /\ \A n \in Nat : n < Pow[k] => /\ n * Pow[8 - k] \in 0..255
                                         /\ (n * Pow[8 - k]) \div Pow[8 - k] = n
<1>0. 8 - k \in 0..32 /\ 8 - k \in Nat /\ k \in 0..32 /\ k + (8 - k) = 8 /\ k + (8 - k) <= 32
  OBVIOUS
<1>1. PICK p \in Nat \ {0}, q \in Nat \ {0} : p = Pow[8 - k] /\ q = Pow[k]
  BY <1>0, PowTyped
<1>2. q * p = 256
  <2>1. Pow[k + (8 - k)] = Pow[k] * Pow[8 - k]
    BY <1>0, PowSum
  <2> QED BY <1>0, <1>1, <2>1, PowTyped
<1>3. ASSUME NEW v \in 0..255 PROVE v \div p \in Nat /\ v \div p < q
  <2>1. p * 0 <= v /\ v <= p * (q - 1) + (p - 1)
    <3>1. p * (q - 1) + (p - 1) = q * p - 1
      OBVIOUS
    <3> QED BY <1>2, <3>1
  <2>2. PICK d \in Int : d = v \div p /\ p * d <= v /\ v < p * d + p
    BY Floor
  <2>3. d >= 0
    <3>1. ASSUME d <= -1 PROVE FALSE
      <4>1. p * d <= p * (-1)
        BY <3>1, Product
      <4> QED BY <2>2, <4>1
    <3> QED BY <3>1
  <2>4. d < q
    <3>1. ASSUME d >= q PROVE FALSE
      <4>1. p * q <= p * d
        BY <3>1, Product
      <4> QED BY <1>2, <2>2, <4>1
    <3> QED BY <3>1
  <2> QED BY <2>2, <2>3, <2>4
<1>4. ASSUME NEW n \in Nat, n < q PROVE n * p \in 0..255 /\ (n * p) \div p = n
  <2>1. p * n <= p * (q - 1)
    BY <1>4, Product
  <2>2. p * (q - 1) = q * p - p
    OBVIOUS
  <2>3. PICK x \in Nat : x = n * p /\ x = p * n
    OBVIOUS
  <2>4. x <= 255
    BY <1>2, <2>1, <2>2, <2>3
  <2>5. x \div p = n
    BY <2>3, FloorIs
  <2> QED BY <2>3, <2>4, <2>5
<1> QED BY <1>1, <1>3, <1>4

\* A position that is read and written back creeps down, by at most two codes if there
\* are at most two for every value (_unit.py:567-573, 763-771).
THEOREM ReadAndWritten ==
  ASSUME NEW lo \in Nat, NEW hi \in Nat, lo < hi,
         NEW mask \in Nat \ {0}, mask <= 2 * (hi - lo), NEW n \in 0..mask
  PROVE  Scaled(Unscaled(n, lo, hi, mask), lo, hi, mask) \in (n - 2)..n
<1> DEFINE w == hi - lo
           x == n * w + lo * mask
           v == Unscaled(n, lo, hi, mask)
<1>1. w \in Nat \ {0} /\ mask <= 2 * w
  OBVIOUS
<1>2. n * w \in Nat /\ lo * mask \in Nat /\ x \in Nat
  BY <1>1
<1>3. v \in Int /\ mask * v <= x /\ x < mask * v + mask
  <2>1. v = x \div mask
    BY <1>2 DEF Unscaled
  <2> HIDE DEF x, v
  <2> QED BY <1>2, <2>1, Floor
<1>4. mask * (v - lo) <= n * w /\ n * w < mask * (v - lo) + mask /\ mask * (v - lo) \in Int
  <2>1. PICK y \in Int : y = v
    BY <1>3
  <2>2. mask * (y - lo) = mask * y - lo * mask /\ mask * y \in Int
    OBVIOUS
  <2> HIDE DEF v
  <2> QED BY <1>2, <1>3, <2>1, <2>2
<1> HIDE DEF v, w, x
<1>5. PICK a \in Int : a = mask * (v - lo)
  BY <1>4
<1>6. PICK s \in Int : s = a \div w /\ w * s <= a /\ a < w * s + w
  BY <1>1, Floor
<1>7. Scaled(v, lo, hi, mask) = s
  BY <1>5, <1>6 DEF Scaled, w
<1>8. s <= n
  <2> SUFFICES ASSUME s >= n + 1 PROVE FALSE
    BY <1>6
  <2>1. w * (n + 1) <= w * s
    BY <1>1, <1>6, Product
  <2>2. w * (n + 1) = n * w + w
    BY <1>1
  <2> QED BY <1>1, <1>2, <1>4, <1>5, <1>6, <2>1, <2>2
<1>9. s >= n - 2
  <2> SUFFICES ASSUME s <= n - 3 PROVE FALSE
    BY <1>6
  <2>1. w * s <= w * (n - 3)
    BY <1>1, <1>6, Product
  <2>2. w * (n - 3) = n * w - 3 * w
    BY <1>1
  <2> QED BY <1>1, <1>2, <1>4, <1>5, <1>6, <2>1, <2>2
<1> QED BY <1>6, <1>7, <1>8, <1>9 DEF v

\* The first and the last code are read as the ends of the range.
LEMMA UnscaledEnds ==
  ASSUME NEW lo \in Nat, NEW hi \in Nat, lo < hi, NEW mask \in Nat \ {0}
  PROVE  Unscaled(0, lo, hi, mask) = lo /\ Unscaled(mask, lo, hi, mask) = hi
<1>1. PICK a \in Nat : a = lo * mask /\ a = mask * lo
  OBVIOUS
<1>2. PICK b \in Nat : b = hi * mask /\ b = mask * hi
  OBVIOUS
<1>3. 0 * (hi - lo) + lo * mask = a /\ mask * (hi - lo) + lo * mask = b
  BY <1>1, <1>2
<1>4. a \div mask = lo /\ b \div mask = hi
  BY <1>1, <1>2, FloorIs
<1> QED BY <1>1, <1>2, <1>3, <1>4 DEF Unscaled
=============================================================================
