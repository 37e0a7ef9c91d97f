--------------------------- MODULE ErrorCheckProofs -------------------------
(***************************************************************************)
(* Proofs about ErrorCheck: that the comparison in the shadow is the one   *)
(* the program made, for every predicate and all numbers; that the code    *)
(* judges each value and each subtraction as it should, in every format;   *)
(* and that counts and reports add up from there, over any number of       *)
(* operations and slices.                                                  *)
(***************************************************************************)
EXTENDS ErrorCheckInv, FiniteSetTheorems, TLAPS

LEMMA Bounds ==
  MaxOps \in Nat /\ MaxSlices \in Nat /\ \A o \in Operands \cup Results : o.val \in Int
BY LimitsAssumption, ValuesAssumption

-----------------------------------------------------------------------------
(* Powers of two, which count subsets, and products.                       *)
LEMMA PowerType == \A n \in Nat : 2 ^ n \in Nat \ {0} /\ Cardinality(SUBSET (1 .. n)) = 2 ^ n
<1> SUFFICES ASSUME NEW n \in Nat
             PROVE  2 ^ n \in Nat \ {0} /\ Cardinality(SUBSET (1 .. n)) = 2 ^ n
  OBVIOUS
<1>1. IsFiniteSet(1 .. n) /\ Cardinality(1 .. n) = n
  BY FS_Interval
<1>2. IsFiniteSet(SUBSET (1 .. n)) /\ Cardinality(SUBSET (1 .. n)) = 2 ^ n
  BY <1>1, FS_SUBSET, Zenon
<1>3. SUBSET (1 .. n) # {}
  OBVIOUS
<1> QED
  BY <1>2, <1>3, FS_CardinalityType, FS_EmptySet, Zenon

LEMMA PowerSum == \A a, b \in Nat : 2 ^ (a + b) = 2 ^ a * 2 ^ b
<1> SUFFICES ASSUME NEW a \in Nat, NEW b \in Nat
             PROVE  2 ^ (a + b) = 2 ^ a * 2 ^ b
  OBVIOUS
<1> DEFINE Low == 1 .. a
           High == 1 .. b
           All == 1 .. a + b
           Pairs == (SUBSET Low) \X (SUBSET High)
           f == [z \in Pairs |-> z[1] \cup {y \in All : y - a \in z[2]}]
<1>1. f \in [Pairs -> SUBSET All]
  OBVIOUS
<1>2. ASSUME NEW y \in Pairs, NEW z \in Pairs, f[y] = f[z] PROVE y = z
  <2>1. \A w \in Pairs : w[1] = f[w] \cap Low
    OBVIOUS
  <2>2. \A w \in Pairs : w[2] = {x \in High : x + a \in f[w]}
    <3> SUFFICES ASSUME NEW w \in Pairs PROVE w[2] = {x \in High : x + a \in f[w]}
      OBVIOUS
    <3>1. \A x \in High : x + a \in All /\ (x + a) - a = x /\ x + a \notin Low
      OBVIOUS
    <3>2. w[1] \subseteq Low /\ w[2] \subseteq High
      OBVIOUS
    <3>3. f[w] = w[1] \cup {v \in All : v - a \in w[2]}
      OBVIOUS
    <3> HIDE DEF Low, High, All, f
    <3> QED
      BY <3>1, <3>2, <3>3
  <2>3. y[1] = z[1] /\ y[2] = z[2]
    <3> HIDE DEF f, Pairs, Low, High
    <3> QED
      BY <1>2, <2>1, <2>2
  <2> QED
    BY <2>3
<1>3. ASSUME NEW C \in SUBSET All PROVE \E z \in Pairs : f[z] = C
  <2> DEFINE A == C \cap Low
             B == {x \in High : x + a \in C}
  <2>1. <<A, B>> \in Pairs
    OBVIOUS
  <2>2. f[<<A, B>>] = A \cup {y \in All : y - a \in B}
    BY <2>1
  <2>3. \A y \in All : y - a \in B <=> y \notin Low /\ y \in C
    OBVIOUS
  <2>4. f[<<A, B>>] = C
    <3> HIDE DEF B, f, Pairs
    <3> QED
      BY <2>2, <2>3
  <2> QED
    BY <2>1, <2>4
<1>4. ExistsBijection(Pairs, SUBSET All)
  <2> HIDE DEF f, Pairs, All
  <2> QED
    BY <1>1, <1>2, <1>3 DEF ExistsBijection, Bijection, Injection, Surjection, IsInjective
<1>5. IsFiniteSet(SUBSET Low) /\ IsFiniteSet(SUBSET High)
  <2>1. IsFiniteSet(Low) /\ IsFiniteSet(High)
    BY FS_Interval
  <2> QED
    BY <2>1, FS_SUBSET, Zenon
<1>6. Cardinality(SUBSET All) = Cardinality(SUBSET Low) * Cardinality(SUBSET High)
  <2>1. IsFiniteSet(Pairs) /\ Cardinality(Pairs) = Cardinality(SUBSET Low) * Cardinality(SUBSET High)
    BY <1>5, FS_Product, Zenon
  <2> HIDE DEF Pairs, All
  <2> QED
    BY <1>4, <2>1, FS_Bijection, Zenon
<1> QED
  BY <1>6, PowerType

LEMMA PowerGrows == \A a, b \in Nat : a < b => 2 * 2 ^ a <= 2 ^ b
<1> SUFFICES ASSUME NEW a \in Nat, NEW b \in Nat, a < b PROVE 2 * 2 ^ a <= 2 ^ b
  OBVIOUS
<1>1. PICK c \in Nat : b = (a + 1) + c
  <2>1. b - (a + 1) \in Nat /\ b = (a + 1) + (b - (a + 1))
    OBVIOUS
  <2> QED
    BY <2>1
<1>2. 2 ^ b = 2 ^ (a + 1) * 2 ^ c /\ 2 ^ (a + 1) = 2 ^ a * 2 ^ 1
  BY <1>1, PowerSum, a + 1 \in Nat, 1 \in Nat, Zenon
<1>3. 2 ^ 1 = 2
  OBVIOUS
<1>4. PICK x, y \in Nat \ {0} : x = 2 ^ a /\ y = 2 ^ c
  BY PowerType
<1>5. 2 * x <= (x * 2) * y
  OBVIOUS
<1> QED
  BY <1>2, <1>3, <1>4, <1>5

-----------------------------------------------------------------------------
(* The format, and the distance in ulps.                                   *)
LEMMA Format ==
  /\ Width \in Nat /\ ERRORTHRESHOLD \in Nat
  /\ SignBit \in Nat /\ 8 <= SignBit /\ 2 ^ Width = 2 * SignBit
  /\ InfMag \in Nat /\ 0 < InfMag /\ InfMag + 2 <= SignBit
  /\ 2 ^ ERRORTHRESHOLD \in 1 .. SignBit
<1> PICK M \in Nat : M = 2 ^ MantBits
  BY FormatAssumption, PowerType
<1> PICK E \in Nat : E = 2 ^ ExpBits
  BY FormatAssumption, PowerType
<1> PICK S \in Nat : S = SignBit
  <2>1. Width - 1 \in Nat
    BY FormatAssumption DEF Width
  <2> QED
    BY <2>1, PowerType DEF SignBit
<1>1. 2 <= M /\ 4 <= E
  <2>1. 2 ^ 0 = 1 /\ 2 ^ 1 = 2
    OBVIOUS
  <2>2. 0 < MantBits /\ 1 < ExpBits /\ MantBits \in Nat /\ ExpBits \in Nat
    BY FormatAssumption
  <2>3. 2 * 2 ^ 0 <= 2 ^ MantBits /\ 2 * 2 ^ 1 <= 2 ^ ExpBits
    BY <2>2, PowerGrows, 0 \in Nat, 1 \in Nat, Zenon
  <2> QED
    BY <2>1, <2>3
<1>2. S = E * M
  <2>1. Width - 1 = ExpBits + MantBits
    BY FormatAssumption DEF Width
  <2> QED
    BY <2>1, FormatAssumption, PowerSum DEF SignBit
<1>3. 2 ^ Width = 2 * S
  <2>1. Width = 1 + (Width - 1) /\ Width - 1 \in Nat
    BY FormatAssumption DEF Width
  <2>2. 2 ^ (1 + (Width - 1)) = 2 ^ 1 * 2 ^ (Width - 1)
    BY <2>1, PowerSum, 1 \in Nat, Zenon
  <2>3. 2 ^ Width = 2 ^ 1 * S
    BY <2>1, <2>2 DEF SignBit
  <2> QED
    BY <2>3
<1>4. InfMag = S - M
  <2>1. (E - 1) * M = E * M - M
    OBVIOUS
  <2> QED
    BY <1>2, <2>1 DEF InfMag
<1>5. 4 * M <= S
  <2>1. \A x, y \in Nat : 4 <= x => 4 * y <= x * y
    OBVIOUS
  <2> QED
    BY <1>1, <1>2, <2>1
<1>6. 2 ^ ERRORTHRESHOLD \in 1 .. S
  <2>1. ERRORTHRESHOLD \in Nat /\ Width \in Nat /\ ERRORTHRESHOLD < Width
    BY ThresholdAssumption, FormatAssumption DEF Width
  <2>2. 2 * 2 ^ ERRORTHRESHOLD <= 2 * S /\ 2 ^ ERRORTHRESHOLD \in Nat \ {0}
    BY <1>3, <2>1, PowerGrows, PowerType
  <2> QED
    BY <2>2
<1> QED
  BY <1>1, <1>3, <1>4, <1>5, <1>6, ThresholdAssumption, FormatAssumption DEF Width

LEMMA Magnitudes ==
  ASSUME NEW p \in Doubles
  PROVE  /\ Mag(p) \in 0 .. SignBit - 1
         /\ Mag(p) = IF p < SignBit THEN p ELSE p - SignBit
<1> PICK S \in Nat : S = SignBit /\ 8 <= S
  BY Format
<1>1. p \in 0 .. 2 * S - 1
  BY Format DEF Doubles
<1> QED
  BY <1>1 DEF Mag

(* The order of doubles: sign and magnitude.                               *)
LEMMA Orders ==
  ASSUME NEW p \in Doubles
  PROVE  Ordered(p) = IF p < SignBit THEN Mag(p) ELSE -Mag(p)
<1> PICK S \in Nat : S = SignBit /\ 8 <= S /\ 2 ^ Width = 2 * S
  BY Format
<1>1. p \in 0 .. 2 * S - 1
  BY Format DEF Doubles
<1> PICK m \in 0 .. S - 1 : m = Mag(p) /\ m = IF p < S THEN p ELSE p - S
  BY Magnitudes
<1>2. \A n \in Int : Signed(n) = IF n % (2 * S) >= S THEN (n % (2 * S)) - 2 * S ELSE n % (2 * S)
  BY DEF Signed
<1>3. Ordered(p) = LET xx == IF m = 0 THEN 0 ELSE Signed(p)
                   IN  IF xx < 0 THEN Signed(-S - xx) ELSE xx
  BY DEF Ordered
<1>4. CASE m = 0
  BY <1>3, <1>4
<1>5. CASE m # 0 /\ p < S
  <2>1. p % (2 * S) = p
    BY <1>1
  <2>2. Signed(p) = p
    BY <1>1, <1>2, <1>5, <2>1
  <2> QED
    BY <1>3, <1>5, <2>2
<1>6. CASE m # 0 /\ p >= S
  <2>1. p % (2 * S) = p
    BY <1>1
  <2>2. Signed(p) = m - S
    BY <1>1, <1>2, <1>6, <2>1
  <2>3. (-m) % (2 * S) = 2 * S - m
    BY <1>6
  <2>4. -m \in Int /\ -S - (m - S) = -m
    OBVIOUS
  <2>5. Signed(-m) = -m
    <3>1. Signed(-m) = IF 2 * S - m >= S THEN (2 * S - m) - 2 * S ELSE 2 * S - m
      BY <1>2, <2>3, <2>4
    <3> QED
      BY <1>6, <3>1
  <2> QED
    BY <1>3, <1>6, <2>2, <2>4, <2>5
<1> QED
  BY <1>4, <1>5, <1>6

LEMMA Distances ==
  ASSUME NEW x \in Doubles, NEW y \in Doubles, ~isnan(x), ~isnan(y)
  PROVE  /\ Ordered(x) \in -InfMag .. InfMag /\ Ordered(y) \in -InfMag .. InfMag
         /\ Distance(x, y) = AbsOf(Ordered(x) - Ordered(y))
         /\ Distance(x, y) + 1 < 2 * SignBit
<1> PICK S \in Nat, I \in Nat : S = SignBit /\ 8 <= S /\ 2 ^ Width = 2 * S /\ I = InfMag /\ I + 2 <= S
  BY Format
<1> PICK a, b : a = Ordered(x) /\ b = Ordered(y)
  OBVIOUS
<1>1. a \in -I .. I /\ b \in -I .. I
  <2>1. Mag(x) \in 0 .. I /\ Mag(y) \in 0 .. I
    BY Magnitudes DEF isnan
  <2> QED
    BY <2>1, Orders
<1>2. PICK d \in Nat : d = AbsOf(a - b)
  BY <1>1 DEF AbsOf
<1>3. d + 1 < 2 * S
  BY <1>1, <1>2 DEF AbsOf
<1>4. Distance(x, y) = Signed(d) % (2 * S)
  BY <1>1, <1>2 DEF Distance, AbsOf
<1>5. d % (2 * S) = d /\ (d - 2 * S) % (2 * S) = d
  BY <1>3
<1>6. Signed(d) \in {d, d - 2 * S}
  BY <1>5 DEF Signed
<1> QED
  BY <1>1, <1>2, <1>3, <1>4, <1>5, <1>6

LEMMA Division ==
  ASSUME NEW m \in Nat, NEW b \in Nat \ {0}
  PROVE  m \div b \in Nat /\ m % b \in 0 .. b - 1 /\ m = b * (m \div b) + (m % b)
OBVIOUS

LEMMA Multiples ==
  /\ \A x, y \in Nat : x * y \in Nat /\ x * y = y * x
  /\ \A x, y, z \in Nat : x <= y => x * z <= y * z /\ z * x <= z * y
  /\ \A x, y, z \in Nat : 0 < z /\ x < y => x * z < y * z /\ z * x < z * y
  /\ \A x, y, z \in Nat : (x * y) * z = x * (y * z)
  /\ \A x, y \in Nat : 0 < y => x <= x * y
<1>1. \A x, y \in Nat : x * y \in Nat /\ x * y = y * x
  OBVIOUS
<1>2. \A x, y, z \in Nat : x <= y => x * z <= y * z /\ z * x <= z * y
  OBVIOUS
<1>3. \A x, y, z \in Nat : 0 < z /\ x < y => x * z < y * z /\ z * x < z * y
  OBVIOUS
<1>4. \A x, y, z \in Nat : (x * y) * z = x * (y * z)
  OBVIOUS
<1>5. \A x, y \in Nat : 0 < y => x <= x * y
  OBVIOUS
<1> QED
  BY <1>1, <1>2, <1>3, <1>4, <1>5

LEMMA LargerExponent ==
  ASSUME NEW M \in Nat \ {0}, NEW s \in Nat \ {0}, NEW t \in Nat, 2 * s <= t,
         NEW f \in 0 .. M - 1, NEW g \in 0 .. M - 1
  PROVE  (M + f) * s < (M + g) * t
<1> PICK a \in Nat, b \in Nat, c \in Nat, r \in Nat : a = M + f /\ b = M + g /\ c = 2 * M /\ r = 2 * s
  OBVIOUS
<1>1. a < c /\ M <= b /\ 0 < s
  OBVIOUS
<1>2. a * s < c * s /\ M * r <= M * t /\ M * t <= b * t
  BY <1>1, Multiples, Zenon
<1>3. c * s = M * r
  <2>1. c = M * 2 /\ r = 2 * s
    OBVIOUS
  <2> QED
    BY <2>1, Multiples
<1>4. a * s \in Nat /\ c * s \in Nat /\ M * t \in Nat /\ b * t \in Nat
  BY Multiples
<1>5. a * s < b * t
  BY <1>2, <1>3, <1>4
<1> QED
  BY <1>5
LEMMA Quotients == ASSUME NEW M \in Nat \ {0}, NEW d \in Nat, NEW e \in Nat, 
         NEW f \in 0 .. M - 1, NEW g \in 0 .. M - 1,
         M * d + f < M * e + g
  PROVE d < e \/ (d = e /\ f < g)
<1>1. ASSUME e < d PROVE FALSE
  <2>1. M * (e + 1) <= M * d /\ M * (e + 1) = M * e + M
    BY <1>1
  <2>2. PICK x, y \in Nat : x = M * d /\ y = M * e
    BY Multiples
  <2> QED
    BY <2>1, <2>2
<1> QED
  BY <1>1

-----------------------------------------------------------------------------
(* The numbers that doubles stand for, and rounding.                       *)
LEMMA MagValueType == MagValue(0) = 0 /\ \A m \in Nat : MagValue(m) \in Nat
<1> PICK X, M \in Nat \ {0} : X = 2 ^ Extra /\ M = 2 ^ MantBits
  BY FormatAssumption, PowerType
<1>1. ASSUME NEW m \in Nat PROVE MagValue(m) \in Nat
  <2> PICK e \in Nat, f \in 0 .. M - 1 : e = m \div M /\ f = m % M
    BY Division
  <2>1. MagValue(m) = X * IF e = 0 THEN f ELSE (M + f) * 2 ^ (e - 1)
    BY DEF MagValue
  <2>2. e # 0 => 2 ^ (e - 1) \in Nat
    <3>1. e # 0 => e - 1 \in Nat
      OBVIOUS
    <3> QED
      BY <3>1, PowerType
  <2>3. \A x, y \in Nat : x * y \in Nat
    OBVIOUS
  <2>4. e # 0 => (M + f) * 2 ^ (e - 1) \in Nat
    <3>1. M + f \in Nat
      OBVIOUS
    <3> QED
      BY <2>2, <2>3, <3>1
  <2> QED
    BY <2>1, <2>3, <2>4
<1>2. MagValue(0) = 0
  <2>1. 0 \div M = 0 /\ 0 % M = 0
    OBVIOUS
  <2> QED
    BY <2>1 DEF MagValue
<1> QED
  BY <1>1, <1>2

(* A larger bit pattern is a larger number.                                *)
LEMMA MagValueGrows ==
  ASSUME NEW m \in Nat, NEW n \in Nat, m < n
  PROVE  MagValue(m) < MagValue(n)
<1> PICK X, M \in Nat \ {0} : X = 2 ^ Extra /\ M = 2 ^ MantBits
  BY FormatAssumption, PowerType
<1>1. PICK d, f : d = m \div M /\ f = m % M
  OBVIOUS
<1>2. PICK e, g : e = n \div M /\ g = n % M
  OBVIOUS
<1>3. d \in Nat /\ f \in 0 .. M - 1 /\ e \in Nat /\ g \in 0 .. M - 1
  BY <1>1, <1>2, Division
<1>4. d < e \/ (d = e /\ f < g)
  <2>1. m = M * d + f /\ n = M * e + g
    BY <1>1, <1>2, Division
  <2>2. M * d + f < M * e + g
    BY <2>1
  <2> QED
    BY <1>3, <2>2, Quotients, Zenon
<1>5. PICK x, y : /\ x = IF d = 0 THEN f ELSE (M + f) * 2 ^ (d - 1)
                  /\ y = IF e = 0 THEN g ELSE (M + g) * 2 ^ (e - 1)
  OBVIOUS
<1>6. MagValue(m) = X * x /\ MagValue(n) = X * y
  BY <1>1, <1>2, <1>5 DEF MagValue
<1>7. x \in Nat /\ y \in Nat /\ x < y
  <2>1. CASE e = 0
    BY <1>3, <1>4, <1>5, <2>1
  <2>2. CASE e # 0
    <3> PICK t \in Nat \ {0} : t = 2 ^ (e - 1)
      <4>1. e - 1 \in Nat
        BY <1>3, <2>2
      <4> QED
        BY <4>1, PowerType
    <3>1. y = (M + g) * t
      BY <1>5, <2>2
    <3>2. M + g \in Nat /\ M + f \in Nat /\ f \in Nat /\ f < M + g
      BY <1>3
    <3>3. y \in Nat /\ M + g <= y
      BY <3>1, <3>2, Multiples
    <3>4. CASE d = 0
      BY <1>5, <3>2, <3>3, <3>4
    <3>5. CASE d # 0
      <4> PICK s \in Nat \ {0} : s = 2 ^ (d - 1)
        <5>1. d - 1 \in Nat
          BY <1>3, <3>5
        <5> QED
          BY <5>1, PowerType
      <4>1. x = (M + f) * s /\ x \in Nat
        <5>1. x = (M + f) * s
          BY <1>5, <3>5
        <5> QED
          BY <3>2, <5>1, Multiples
      <4>2. CASE d = e
        <5>1. s = t /\ M + f < M + g
          BY <1>3, <1>4, <4>2
        <5>2. (M + f) * t < (M + g) * t
          BY <3>2, <5>1, Multiples
        <5> QED
          BY <3>1, <3>3, <4>1, <5>1, <5>2
      <4>3. CASE d < e
        <5>1. 2 * s <= t
          <6>1. d - 1 \in Nat /\ e - 1 \in Nat /\ d - 1 < e - 1
            BY <1>3, <3>5, <4>3
          <6> QED
            BY <6>1, PowerGrows
        <5> QED
          BY <1>3, <3>1, <3>3, <4>1, <5>1, LargerExponent
      <4> QED
        BY <1>4, <4>2, <4>3
    <3> QED
      BY <3>4, <3>5
  <2> QED
    BY <2>1, <2>2
<1>8. X * x < X * y
  <2>1. 0 < X /\ X \in Nat
    OBVIOUS
  <2> QED
    BY <1>7, <2>1, Multiples
<1> QED
  BY <1>6, <1>8

LEMMA Infinite == Infinity \in Nat /\ MagValue(InfMag) < Infinity /\ 0 < MagValue(InfMag)
<1>1. MagValue(0) < MagValue(InfMag) /\ MagValue(0) = 0 /\ MagValue(InfMag) \in Nat
  BY Format, MagValueType, MagValueGrows
<1> QED
  BY <1>1 DEF Infinity

LEMMA Rounded ==
  ASSUME NEW v \in Int
  PROVE  /\ m_get_double(v) \in Doubles
         /\ isnan(m_get_double(v)) <=> v = NaN
<1> PICK S \in Nat, I \in Nat : S = SignBit /\ 8 <= S /\ I = InfMag /\ I + 2 <= S /\ 2 ^ Width = 2 * S
  BY Format
<1> PICK m : m = IF IsNumber(v) THEN Nearest[AbsOf(v)] ELSE IF v = NaN THEN I + 1 ELSE I
  OBVIOUS
<1>1. m \in 0 .. I + 1 /\ (m = I + 1 <=> v = NaN)
  <2>1. CASE IsNumber(v)
    <3>1. AbsOf(v) \in 0 .. Infinity
      BY <2>1, Infinite DEF IsNumber, AbsOf
    <3> PICK R : R = {q \in 1 .. I : LET middle == MagValue(q - 1) + MagValue(q)
                                     IN  \/ middle < 2 * AbsOf(v)
                                         \/ middle = 2 * AbsOf(v) /\ q % 2 = 0}
      OBVIOUS
    <3>2. Nearest[AbsOf(v)] = Cardinality(R)
      BY <3>1 DEF Nearest
    <3>3. IsFiniteSet(1 .. I) /\ Cardinality(1 .. I) = I
      BY FS_Interval, Format
    <3>4. Cardinality(R) \in Nat /\ Cardinality(R) <= I
      <4>1. R \in SUBSET (1 .. I)
        OBVIOUS
      <4> QED
        BY <3>3, <4>1, FS_Subset, FS_CardinalityType
    <3> QED
      BY <2>1, <3>2, <3>4 DEF IsNumber
  <2>2. CASE ~IsNumber(v)
    BY <2>2
  <2> QED
    BY <2>1, <2>2
<1>2. m_get_double(v) = IF v < 0 THEN S + m ELSE m
  BY DEF m_get_double
<1>3. NaN \in Int /\ 0 < NaN
  BY Infinite DEF NaN
<1>4. m_get_double(v) \in Doubles
  BY <1>1, <1>2 DEF Doubles
<1>5. Mag(m_get_double(v)) = m
  BY <1>1, <1>2, <1>4, Magnitudes
<1> QED
  BY <1>1, <1>4, <1>5 DEF isnan

-----------------------------------------------------------------------------
(* Single values: the distance in ulps is the number of doubles between.   *)

(* The number at a place in the order of doubles.                          *)
Number(k) ==
  LET v == IF AbsOf(k) = InfMag THEN Infinity ELSE MagValue(AbsOf(k))
  IN  IF k < 0 THEN -v ELSE v

LEMMA Numbers ==
  /\ \A p \in Doubles : ~isnan(p) => Ordered(p) \in -InfMag .. InfMag /\ Exact(p) = Number(Ordered(p))
  /\ \A k \in -InfMag .. InfMag : \E p \in Doubles : ~isnan(p) /\ Ordered(p) = k
<1> PICK S \in Nat, I \in Nat : S = SignBit /\ 8 <= S /\ I = InfMag /\ 0 < I /\ I + 2 <= S /\ 2 ^ Width = 2 * S
  BY Format
<1>1. ASSUME NEW p \in Doubles, ~isnan(p)
      PROVE  Ordered(p) \in -I .. I /\ Exact(p) = Number(Ordered(p))
  <2>1. PICK m \in 0 .. I : m = Mag(p)
    BY <1>1, Magnitudes DEF isnan
  <2>2. Ordered(p) = IF p < S THEN m ELSE -m
    BY <2>1, Orders
  <2>3. PICK v \in Nat : v = IF m = I THEN Infinity ELSE MagValue(m)
    BY MagValueType, Infinite
  <2>4. Exact(p) = (IF p >= S THEN -1 ELSE 1) * v
    BY <1>1, <2>1, <2>3 DEF Exact, isinf
  <2>5. AbsOf(m) = m /\ AbsOf(-m) = m
    BY DEF AbsOf
  <2>6. m = 0 => v = 0
    BY <2>3, MagValueType
  <2>7. Number(m) = v /\ Number(-m) = IF m = 0 THEN v ELSE -v
    BY <2>3, <2>5 DEF Number
  <2>8. p \in Int
    BY DEF Doubles
  <2> QED
    BY <2>2, <2>4, <2>6, <2>7, <2>8
<1>2. ASSUME NEW k \in -I .. I PROVE \E p \in Doubles : ~isnan(p) /\ Ordered(p) = k
  <2>1. PICK p \in 0 .. 2 * S - 1 : p = IF k < 0 THEN S - k ELSE k
    OBVIOUS
  <2>2. p \in Doubles
    BY DEF Doubles
  <2>3. Mag(p) = IF k < 0 THEN -k ELSE k
    BY <2>1, <2>2, Magnitudes
  <2>4. Ordered(p) = k
    BY <2>1, <2>2, <2>3, Orders
  <2>5. ~isnan(p)
    BY <2>3 DEF isnan
  <2> QED
    BY <2>2, <2>4, <2>5
<1> QED
  BY <1>1, <1>2

LEMMA NumberGrows ==
  /\ \A k \in -InfMag .. InfMag : Number(k) \in Int
  /\ \A j, k \in -InfMag .. InfMag : j < k => Number(j) < Number(k)
<1> PICK I \in Nat : I = InfMag
  BY Format
<1> DEFINE v(m) == IF m = I THEN Infinity ELSE MagValue(m)
<1>1. \A m \in 0 .. I : v(m) \in Nat
  BY MagValueType, Infinite
<1>2. ASSUME NEW m \in 0 .. I, NEW n \in 0 .. I, m < n PROVE v(m) < v(n)
  <2>1. v(m) = MagValue(m) /\ MagValue(m) < MagValue(n)
    BY <1>2, MagValueGrows
  <2>2. MagValue(m) \in Nat /\ MagValue(n) \in Nat
    BY MagValueType
  <2> QED
    BY <2>1, <2>2, Infinite
<1>3. \A k \in -I .. I : Number(k) = (IF k < 0 THEN -v(-k) ELSE v(k)) /\ AbsOf(k) \in 0 .. I
  BY DEF Number, AbsOf
<1> HIDE DEF v
<1>4. ASSUME NEW j \in -I .. I, NEW k \in -I .. I, j < k PROVE Number(j) < Number(k)
  <2>1. CASE 0 <= j
    BY <1>1, <1>2, <1>3, <1>4, <2>1
  <2>2. CASE j < 0 /\ 0 <= k
    <3>1. -j \in 0 .. I /\ 0 \in 0 .. I /\ 0 < -j
      BY <2>2
    <3>2. v(-j) \in Nat /\ v(0) < v(-j) /\ v(0) \in Nat /\ v(k) \in Nat
      BY <1>1, <1>2, <2>2, <3>1
    <3> QED
      BY <1>3, <2>2, <3>2
  <2>3. CASE k < 0
    <3>1. -j \in 0 .. I /\ -k \in 0 .. I /\ -k < -j
      BY <1>4, <2>3
    <3>2. v(-j) \in Nat /\ v(-k) \in Nat /\ v(-k) < v(-j)
      BY <1>1, <1>2, <3>1
    <3> QED
      BY <1>3, <1>4, <2>3, <3>2
  <2> QED
    BY <2>1, <2>2, <2>3
<1>5. \A k \in -I .. I : Number(k) \in Int
  <2>1. \A k \in -I .. I : (k < 0 => -k \in 0 .. I) /\ (k >= 0 => k \in 0 .. I)
    OBVIOUS
  <2> QED
    BY <1>1, <1>3, <2>1
<1> QED
  BY <1>4, <1>5

LEMMA StepsBetween ==
  ASSUME NEW a \in -InfMag .. InfMag, NEW b \in -InfMag .. InfMag, a <= b
  PROVE  Cardinality({v \in DoubleValues : Number(a) < v /\ v <= Number(b)}) = b - a
<1> PICK I \in Nat : I = InfMag
  BY Format
<1> DEFINE J == a + 1 .. b
           T == {v \in DoubleValues : Number(a) < v /\ v <= Number(b)}
           f == [k \in J |-> Number(k)]
<1>1. DoubleValues = {Number(k) : k \in -I .. I}
  <2>1. DoubleValues \subseteq {Number(k) : k \in -I .. I}
    BY Numbers DEF DoubleValues
  <2>2. ASSUME NEW k \in -I .. I PROVE Number(k) \in DoubleValues
    BY Numbers DEF DoubleValues
  <2> QED
    BY <2>1, <2>2
<1>2. \A k \in J : k \in -I .. I /\ a < k /\ k <= b
  OBVIOUS
<1>3. \A j, k \in -I .. I : (j < k => Number(j) < Number(k)) /\ Number(j) \in Int
  BY NumberGrows
<1>4. f \in [J -> T]
  <2>1. ASSUME NEW k \in J PROVE Number(k) \in T
    <3>1. Number(a) < Number(k) /\ Number(k) <= Number(b)
      BY <1>2, <1>3
    <3> QED
      BY <1>1, <1>2, <3>1
  <2> QED
    BY <2>1
<1>5. ASSUME NEW j \in J, NEW k \in J, f[j] = f[k] PROVE j = k
  <2>1. Number(j) = Number(k) /\ j \in -I .. I /\ k \in -I .. I
    BY <1>2, <1>5
  <2>2. ~(j < k) /\ ~(k < j)
    BY <1>3, <2>1
  <2> QED
    BY <2>1, <2>2
<1>6. ASSUME NEW v \in T PROVE \E k \in J : f[k] = v
  <2>1. PICK k \in -I .. I : v = Number(k)
    BY <1>1
  <2>2. Number(a) < Number(k) /\ Number(k) <= Number(b)
    BY <2>1
  <2>3. a < k /\ k <= b
    BY <1>3, <2>2
  <2> QED
    BY <2>1, <2>3
<1>7. ExistsBijection(J, T)
  <2> HIDE DEF J, T, f
  <2> QED
    BY <1>4, <1>5, <1>6 DEF ExistsBijection, Bijection, Injection, Surjection, IsInjective
<1>8. IsFiniteSet(J) /\ Cardinality(J) = b - a
  <2>1. a \in Int /\ b \in Int
    BY Format
  <2>2. a + 1 \in Int
    BY <2>1
  <2>3. IsFiniteSet(J) /\ Cardinality(J) = IF a + 1 > b THEN 0 ELSE b - (a + 1) + 1
    BY <2>1, <2>2, FS_Interval, Zenon
  <2> QED
    BY <2>1, <2>3
<1> HIDE DEF J
<1> QED
  BY <1>7, <1>8, FS_Bijection

LEMMA StepsRight ==
  ASSUME NEW x \in Doubles, NEW y \in Doubles, ~isnan(x), ~isnan(y)
  PROVE  Steps(Exact(x), Exact(y)) = Distance(x, y)
<1> PICK I \in Nat : I = InfMag
  BY Format
<1>1. PICK a, b \in -I .. I : /\ a = Ordered(x) /\ b = Ordered(y)
                              /\ Exact(x) = Number(a) /\ Exact(y) = Number(b)
  BY Numbers
<1>2. Distance(x, y) = AbsOf(a - b)
  BY <1>1, Distances
<1>3. CASE a <= b
  <2>1. Number(a) <= Number(b) /\ Number(a) \in Int /\ Number(b) \in Int
    BY <1>3, NumberGrows
  <2>2. SmallerOf(Exact(x), Exact(y)) = Number(a) /\ LargerOf(Exact(x), Exact(y)) = Number(b)
    BY <1>1, <2>1 DEF SmallerOf, LargerOf
  <2> QED
    BY <1>2, <1>3, <2>2, StepsBetween DEF Steps, AbsOf
<1>4. CASE b < a
  <2>1. Number(b) < Number(a) /\ Number(a) \in Int /\ Number(b) \in Int
    BY <1>4, NumberGrows
  <2>2. SmallerOf(Exact(x), Exact(y)) = Number(b) /\ LargerOf(Exact(x), Exact(y)) = Number(a)
    BY <1>1, <2>1 DEF SmallerOf, LargerOf
  <2> QED
    BY <1>2, <1>4, <2>2, StepsBetween DEF Steps, AbsOf
<1> QED
  BY <1>3, <1>4

LEMMA ErrorRight ==
  ASSUME NEW v \in Int, NEW p \in Doubles
  PROVE  IsError(v, p) = TooFar(v, p)
<1> PICK S \in Nat, t \in Nat : /\ S = SignBit /\ 8 <= S /\ 2 ^ Width = 2 * S
                                /\ t = 2 ^ ERRORTHRESHOLD /\ t <= S
  BY Format
<1> PICK x \in Doubles : x = m_get_double(v)
  BY Rounded
<1>1. isnan(x) <=> v = NaN
  BY Rounded
<1>2. IsError(v, p) = ((m_ulpd(x, p) + 1) % (2 * S) > t)
  BY DEF IsError, UlpsPlus1
<1>3. TooFar(v, p) = (v = NaN \/ isnan(p) \/ Steps(Exact(x), Exact(p)) + 1 > t)
  BY DEF TooFar
<1>4. CASE isnan(x) \/ isnan(p)
  <2>1. m_ulpd(x, p) = 2 * S - 2
    BY <1>4 DEF m_ulpd
  <2>2. (2 * S - 2 + 1) % (2 * S) = 2 * S - 1
    OBVIOUS
  <2> QED
    BY <1>1, <1>2, <1>3, <1>4, <2>1, <2>2
<1>5. CASE ~isnan(x) /\ ~isnan(p)
  <2>1. PICK d \in Nat : d = Distance(x, p) /\ d + 1 < 2 * S
    BY <1>5, Distances DEF AbsOf
  <2>2. m_ulpd(x, p) = d /\ Steps(Exact(x), Exact(p)) = d
    BY <1>5, <2>1, StepsRight DEF m_ulpd
  <2>3. (d + 1) % (2 * S) = d + 1
    BY <2>1
  <2> QED
    BY <1>1, <1>2, <1>3, <1>5, <2>2, <2>3
<1> QED
  BY <1>4, <1>5

-----------------------------------------------------------------------------
(* Exponents.                                                              *)
LEMMA MaxBitsType == MaxBits \in Nat
<1>1. 2 ^ ExpBits \in Nat
  BY FormatAssumption, PowerType
<1> QED
  BY <1>1, FormatAssumption DEF MaxBits

LEMMA BitsFinite == \A n : IsFiniteSet({k \in 0 .. MaxBits : 2 ^ k <= n})
<1>1. IsFiniteSet(0 .. MaxBits)
  BY MaxBitsType, FS_Interval
<1>2. \A n : {k \in 0 .. MaxBits : 2 ^ k <= n} \in SUBSET (0 .. MaxBits)
  OBVIOUS
<1> QED
  BY <1>1, <1>2, FS_Subset, Zenon

LEMMA ExponentType ==
  ASSUME NEW v \in Int
  PROVE  /\ mpfr_get_exp(v) \in Int
         /\ IF regular_p(v) THEN 0 < mpfr_get_exp(v) ELSE mpfr_get_exp(v) < 0
<1>1. CASE regular_p(v)
  <2> DEFINE B == {k \in 0 .. MaxBits : 2 ^ k <= AbsOf(v)}
  <2>1. IsFiniteSet(B)
    BY BitsFinite
  <2>2. 0 \in B
    <3>1. 2 ^ 0 = 1 /\ 1 <= AbsOf(v)
      BY <1>1 DEF regular_p, AbsOf
    <3> QED
      BY <3>1, MaxBitsType
  <2>3. mpfr_get_exp(v) = Cardinality(B)
    BY <1>1 DEF mpfr_get_exp
  <2> HIDE DEF B
  <2>4. Cardinality(B) \in Nat /\ Cardinality(B) # 0
    BY <2>1, <2>2, FS_CardinalityType, FS_EmptySet
  <2> QED
    BY <1>1, <2>3, <2>4
<1>2. CASE ~regular_p(v)
  BY <1>2 DEF mpfr_get_exp
<1> QED
  BY <1>1, <1>2

LEMMA ExponentGrows ==
  ASSUME NEW v \in Int, NEW w \in Int, regular_p(v), regular_p(w), AbsOf(v) <= AbsOf(w)
  PROVE  mpfr_get_exp(v) <= mpfr_get_exp(w)
<1> DEFINE B == {k \in 0 .. MaxBits : 2 ^ k <= AbsOf(v)}
           C == {k \in 0 .. MaxBits : 2 ^ k <= AbsOf(w)}
<1>1. B \in SUBSET C
  <2>1. \A k \in 0 .. MaxBits : 2 ^ k \in Nat
    <3>1. \A k \in 0 .. MaxBits : k \in Nat
      OBVIOUS
    <3> QED
      BY <3>1, PowerType
  <2>2. AbsOf(v) \in Nat /\ AbsOf(w) \in Nat
    BY DEF AbsOf
  <2> QED
    BY <2>1, <2>2
<1>2. IsFiniteSet(C)
  BY BitsFinite
<1>3. mpfr_get_exp(v) = Cardinality(B) /\ mpfr_get_exp(w) = Cardinality(C)
  BY DEF mpfr_get_exp
<1> HIDE DEF B, C
<1> QED
  BY <1>1, <1>2, <1>3, FS_Subset

(* Twice as large is one more bit at most.                                 *)
LEMMA ExponentDoubles ==
  ASSUME NEW v \in Int, NEW w \in Int, regular_p(v), regular_p(w), AbsOf(v) <= 2 * AbsOf(w)
  PROVE  mpfr_get_exp(v) <= mpfr_get_exp(w) + 1
<1> DEFINE B == {k \in 0 .. MaxBits : 2 ^ k <= AbsOf(v)}
           C == {k \in 0 .. MaxBits : 2 ^ k <= AbsOf(w)}
           A == B \ {0}
           f == [k \in A |-> k - 1]
<1>1. IsFiniteSet(B) /\ IsFiniteSet(C)
  BY BitsFinite
<1>2. f \in [A -> C]
  <2>1. ASSUME NEW k \in A PROVE k - 1 \in C
    <3>1. k \in Nat /\ k - 1 \in Nat /\ k - 1 < k /\ k - 1 \in 0 .. MaxBits
      BY MaxBitsType
    <3>2. 2 * 2 ^ (k - 1) <= 2 ^ k /\ 2 ^ (k - 1) \in Nat /\ 2 ^ k \in Nat
      BY <3>1, PowerGrows, PowerType
    <3>3. 2 ^ k <= AbsOf(v)
      OBVIOUS
    <3>4. AbsOf(v) \in Nat /\ AbsOf(w) \in Nat
      BY DEF AbsOf
    <3>5. 2 ^ (k - 1) <= AbsOf(w)
      BY <3>2, <3>3, <3>4
    <3> QED
      BY <3>1, <3>5
  <2> QED
    BY <2>1
<1>3. \A j, k \in A : f[j] = f[k] => j = k
  <2>1. \A k \in A : k \in Int
    OBVIOUS
  <2> QED
    BY <2>1
<1>4. f \in Injection(A, C)
  <2> HIDE DEF f, A, C
  <2> QED
    BY <1>2, <1>3 DEF Injection, IsInjective
<1>5. mpfr_get_exp(v) = Cardinality(B) /\ mpfr_get_exp(w) = Cardinality(C)
  BY DEF mpfr_get_exp
<1> HIDE DEF B, C, f
<1>6. Cardinality(A) <= Cardinality(C)
  BY <1>1, <1>4, FS_Injection
<1>7. Cardinality(B) <= Cardinality(A) + 1 /\ Cardinality(A) \in Nat
  <2>1. Cardinality(A) = IF 0 \in B THEN Cardinality(B) - 1 ELSE Cardinality(B)
    BY <1>1, FS_RemoveElement, Zenon
  <2>2. Cardinality(B) \in Nat
    BY <1>1, FS_CardinalityType
  <2>3. IsFiniteSet(A)
    BY <1>1, FS_RemoveElement
  <2> QED
    BY <2>1, <2>2, <2>3, FS_CardinalityType
<1>8. Cardinality(C) \in Nat /\ Cardinality(B) \in Nat
  BY <1>1, FS_CardinalityType
<1> HIDE DEF A
<1> QED
  BY <1>5, <1>6, <1>7, <1>8

-----------------------------------------------------------------------------
(* Single subtractions.                                                    *)
LEMMA ShadowTypes ==
  /\ Infinity \in Nat /\ 0 < Infinity /\ NaN = Infinity + 1
  /\ \A p \in Doubles : /\ Exact(p) \in Int
                        /\ Exact(p) = NaN <=> isnan(p)
  /\ \A a, b \in Int : Plus(a, b) \in Int /\ Minus(a, b) \in Int
<1>1. Infinity \in Nat /\ 0 < Infinity /\ NaN = Infinity + 1
  BY Infinite, MagValueType, Format DEF NaN
<1>2. ASSUME NEW p \in Doubles PROVE Exact(p) \in Int /\ (Exact(p) = NaN <=> isnan(p))
  <2>1. CASE isnan(p)
    BY <1>1, <2>1 DEF Exact
  <2>2. CASE ~isnan(p)
    <3>1. PICK m \in Nat : m = Mag(p) /\ m <= InfMag
      BY <2>2, Magnitudes, Format DEF isnan
    <3>2. PICK v \in 0 .. Infinity : v = IF isinf(p) THEN Infinity ELSE MagValue(m)
      <4>1. ASSUME ~isinf(p) PROVE MagValue(m) \in 0 .. Infinity
        <5>1. m < InfMag
          BY <3>1, <4>1, Format DEF isinf
        <5>2. MagValue(m) < MagValue(InfMag) /\ MagValue(m) \in Nat /\ MagValue(InfMag) \in Nat
          BY <5>1, Format, MagValueType, MagValueGrows
        <5> QED
          BY <1>1, <5>2, Infinite
      <4> QED
        BY <1>1, <4>1
    <3>3. Exact(p) = v \/ Exact(p) = -v
      BY <2>2, <3>1, <3>2 DEF Exact
    <3> QED
      BY <1>1, <2>2, <3>2, <3>3
  <2> QED
    BY <2>1, <2>2
<1>3. ASSUME NEW a \in Int, NEW b \in Int PROVE Plus(a, b) \in Int
  BY <1>1 DEF Plus
<1>4. ASSUME NEW a \in Int, NEW b \in Int PROVE Minus(a, b) \in Int
  <2>1. (IF b = NaN THEN NaN ELSE -b) \in Int
    BY <1>1
  <2> QED
    BY <1>3, <2>1 DEF Minus
<1> QED
  BY <1>1, <1>2, <1>3, <1>4

(* The error of numbers.                                                   *)
LEMMA ErrorIs ==
  ASSUME NEW v \in Int, NEW c \in Int, IsNumber(v), IsNumber(c)
  PROVE  Minus(v, c) = v - c
<1>1. v # NaN /\ c # NaN /\ -Infinity < v /\ v < Infinity /\ -Infinity < c /\ c < Infinity
  BY ShadowTypes DEF IsNumber
<1>2. /\ v # NaN /\ v # Infinity /\ v # -Infinity
      /\ -c # NaN /\ -c # Infinity /\ -c # -Infinity
  BY <1>1, ShadowTypes
<1>3. {v, -c} # {Infinity, -Infinity} /\ Infinity \notin {v, -c} /\ -Infinity \notin {v, -c}
  BY <1>2
<1>4. v + -c = v - c
  OBVIOUS
<1> QED
  BY <1>1, <1>2, <1>3, <1>4 DEF Minus, Plus

LEMMA ResultType ==
  ASSUME NEW op, NEW o1 \in Operands, NEW o2 \in Operands
  PROVE  /\ Result(op, o1, o2).val \in Int
         /\ Result(op, o1, o2).computed \in Doubles
BY ValuesAssumption, ShadowTypes, Rounded DEF Result, Sum

LEMMA CancelledBits ==
  ASSUME NEW p \in Doubles, NEW q \in Doubles, NEW r \in Doubles
  PROVE  /\ m_get_cancelled_bits(p, q, r) \in Nat
         /\ regular_p(Exact(p)) /\ regular_p(Exact(q)) /\ regular_p(Exact(r)) =>
              \A x \in {p, q} :
                mpfr_get_exp(Exact(x)) - mpfr_get_exp(Exact(r)) <= m_get_cancelled_bits(p, q, r)
<1>1. PICK x, y, z \in Int : /\ x = mpfr_get_exp(Exact(p)) /\ y = mpfr_get_exp(Exact(q))
                             /\ z = mpfr_get_exp(Exact(r))
  BY ShadowTypes, ExponentType
<1> QED
  BY <1>1 DEF m_get_cancelled_bits, LargerOf

LEMMA ExactBits ==
  ASSUME NEW o, o.val \in Int, o.computed \in Doubles
  PROVE  m_get_exact_bits(o) \in Nat
<1>1. PICK x, y \in Int : /\ x = mpfr_get_exp(o.val)
                          /\ y = mpfr_get_exp(Minus(o.val, Exact(o.computed)))
  BY ShadowTypes, ExponentType
<1>2. AbsOf(x - y) \in Nat
  BY <1>1 DEF AbsOf
<1> QED
  BY <1>1, <1>2, FormatAssumption DEF m_get_exact_bits, SmallerOf

(* Of an operand in whose error the difference is drowned, no more bits    *)
(* are exact than have cancelled.                                          *)
LEMMA DrownedBits ==
  ASSUME NEW o, o.val \in Int, o.computed \in Doubles,
         regular_p(o.val), regular_p(Exact(o.computed)),
         NEW r, r.computed \in Doubles, regular_p(Exact(r.computed)), Drowned(o, r),
         NEW bits \in Nat,
         mpfr_get_exp(Exact(o.computed)) - mpfr_get_exp(Exact(r.computed)) <= bits
  PROVE  m_get_exact_bits(o) <= bits
<1>1. PICK v, c \in Int : v = o.val /\ c = Exact(o.computed)
  BY ShadowTypes
<1>2. PICK d \in Int : d = v - c
  BY <1>1
<1>3. Minus(o.val, Exact(o.computed)) = d
  BY <1>1, <1>2, ErrorIs DEF regular_p
<1>4. PICK e, f, g, h \in Int : /\ e = mpfr_get_exp(v) /\ f = mpfr_get_exp(c)
                                /\ g = mpfr_get_exp(Exact(r.computed)) /\ h = mpfr_get_exp(d)
  BY <1>1, <1>2, ShadowTypes, ExponentType
<1>5. d # 0 /\ g <= h /\ 0 < g
  BY <1>1, <1>3, <1>4, ShadowTypes, ExponentType DEF Drowned, Inexact, ErrorOf
<1>6. regular_p(d)
  BY <1>2, <1>4, <1>5, ExponentType
<1>7. v # c /\ v # NaN /\ c # NaN
  BY <1>1, <1>2, <1>5 DEF regular_p, IsNumber
<1>8. m_get_exact_bits(o) = IF e # f THEN 0 ELSE SmallerOf(MantBits, AbsOf(e - h))
  <2>1. mpfr_cmp(c, v) # 0 /\ mpfr_cmp(d, 0) # 0
    <3>1. d # NaN /\ 0 # NaN
      BY <1>6, ShadowTypes DEF regular_p, IsNumber
    <3> QED
      BY <1>2, <1>5, <1>7, <3>1 DEF mpfr_cmp
  <2> QED
    BY <1>1, <1>3, <1>4, <2>1 DEF m_get_exact_bits
<1>9. CASE e # f
  BY <1>8, <1>9
<1>10. CASE e = f /\ (v < 0 <=> c < 0)
  <2>1. h <= e
    <3>1. v # 0 /\ c # 0
      BY <1>1 DEF regular_p
    <3>2. AbsOf(d) <= AbsOf(v) \/ AbsOf(d) <= AbsOf(c)
      BY <1>2, <1>10, <3>1 DEF AbsOf
    <3> QED
      BY <1>1, <1>4, <1>6, <1>10, <3>2, ExponentGrows
  <2>2. AbsOf(e - h) = e - h
    BY <2>1 DEF AbsOf
  <2> QED
    BY <1>1, <1>4, <1>5, <1>8, <1>10, <2>1, <2>2, FormatAssumption DEF SmallerOf
<1>11. CASE e = f /\ ~(v < 0 <=> c < 0)
  <2>1. v # 0 /\ c # 0
    BY <1>1 DEF regular_p
  <2>2. g < f
    BY <1>1, <1>4, <1>11, <2>1 DEF Drowned, Crossed
  <2>3. e <= h
    <3>1. AbsOf(v) <= AbsOf(d)
      BY <1>2, <1>11, <2>1 DEF AbsOf
    <3> QED
      BY <1>1, <1>4, <1>6, <3>1, ExponentGrows
  <2>4. h <= e + 1
    <3>1. AbsOf(d) <= 2 * AbsOf(v) \/ AbsOf(d) <= 2 * AbsOf(c)
      BY <1>2, <1>11, <2>1 DEF AbsOf
    <3> QED
      BY <1>1, <1>4, <1>6, <1>11, <3>1, ExponentDoubles
  <2>5. AbsOf(e - h) <= 1 /\ AbsOf(e - h) \in Nat
    BY <2>3, <2>4 DEF AbsOf
  <2> QED
    BY <1>1, <1>4, <1>8, <1>11, <2>2, <2>5, FormatAssumption DEF SmallerOf
<1> QED
  BY <1>9, <1>10, <1>11

(* A value that rounds to something else than zero has an error of a bit   *)
(* next to zero, and the value computed for it has none.                   *)
LEMMA BitsOfError ==
  ASSUME NEW v \in Int, NEW p \in Doubles, Mag(p) = 0
  PROVE  BitsError(v, p) # 0 <=> Mag(m_get_double(v)) # 0
<1> PICK S \in Nat : S = SignBit /\ 8 <= S /\ 2 ^ Width = 2 * S
  BY Format
<1> PICK x \in Doubles : x = m_get_double(v)
  BY Rounded
<1>1. PICK U : U = (m_ulpd(x, p) + 1) % (2 * S)
  OBVIOUS
<1>2. ~isnan(p)
  BY Format DEF isnan
<1>3. IF Mag(x) = 0 THEN U = 1 ELSE U \in Nat /\ 2 <= U
  <2>1. CASE isnan(x)
    <3>1. Mag(x) # 0
      BY <2>1, Format DEF isnan
    <3>2. m_ulpd(x, p) = 2 * S - 2
      BY <2>1 DEF m_ulpd
    <3>3. (2 * S - 2 + 1) % (2 * S) = 2 * S - 1
      OBVIOUS
    <3> QED
      BY <1>1, <3>1, <3>2, <3>3
  <2>2. CASE ~isnan(x)
    <3>1. PICK m \in 0 .. S - 1 : m = Mag(x)
      BY Magnitudes
    <3>2. Ordered(p) = 0 /\ (Ordered(x) = m \/ Ordered(x) = -m)
      BY <3>1, Orders
    <3>3. Distance(x, p) = m /\ m + 1 < 2 * S
      BY <1>2, <2>2, <3>2, Distances DEF AbsOf
    <3>4. m_ulpd(x, p) = m
      BY <1>2, <2>2, <3>3 DEF m_ulpd
    <3>5. (m + 1) % (2 * S) = m + 1
      BY <3>3
    <3> QED
      BY <1>1, <3>1, <3>4, <3>5
  <2> QED
    BY <2>1, <2>2
<1> DEFINE B == {b \in 1 .. Width : 2 ^ b <= U}
<1>4. BitsError(v, p) = Cardinality(B)
  BY <1>1 DEF BitsError, UlpsPlus1
<1>5. IsFiniteSet(B)
  <2>1. IsFiniteSet(1 .. Width)
    BY Format, FS_Interval
  <2>2. B \in SUBSET (1 .. Width)
    OBVIOUS
  <2> QED
    BY <2>1, <2>2, FS_Subset, Zenon
<1>6. B = {} <=> Mag(x) = 0
  <2>1. 1 \in 1 .. Width /\ 2 ^ 1 = 2
    BY FormatAssumption DEF Width
  <2>2. ASSUME NEW b \in 1 .. Width PROVE 2 <= 2 ^ b /\ 2 ^ b \in Nat
    <3>1. 0 \in Nat /\ b \in Nat /\ 0 < b
      OBVIOUS
    <3>2. 2 * 2 ^ 0 <= 2 ^ b /\ 2 ^ b \in Nat
      BY <3>1, PowerGrows, PowerType, Zenon
    <3>3. 2 ^ 0 = 1
      OBVIOUS
    <3> QED
      BY <3>2, <3>3
  <2>3. CASE Mag(x) = 0
    BY <1>3, <2>2, <2>3
  <2>4. CASE Mag(x) # 0
    BY <1>3, <2>1, <2>4
  <2> QED
    BY <2>3, <2>4
<1> HIDE DEF B
<1> QED
  BY <1>4, <1>5, <1>6, FS_EmptySet

LEMMA FindsCancels ==
  ASSUME NEW o1 \in Operands, NEW o2 \in Operands,
         NEW r, r.val \in Int, r.computed \in Doubles, MustCancel(o1, o2, r)
  PROVE  m_check_cc(o1, o2, r)
<1>1. \A o \in {o1, o2} : /\ o.val \in Int /\ o.computed \in Doubles
                          /\ regular_p(o.val) /\ regular_p(Exact(o.computed))
                          /\ ~isnan(o.computed)
  <2>1. \A o \in {o1, o2} : regular_p(o.val) /\ regular_p(Exact(o.computed))
    BY DEF MustCancel
  <2>2. \A o \in {o1, o2} : o.val \in Int /\ o.computed \in Doubles
    BY ValuesAssumption
  <2>3. \A o \in {o1, o2} : Exact(o.computed) # NaN
    BY <2>1 DEF regular_p, IsNumber
  <2> QED
    BY <2>1, <2>2, <2>3, ShadowTypes
<1>2. CASE Mag(r.computed) = 0
  <2>1. Mag(m_get_double(r.val)) # 0
    BY <1>2 DEF MustCancel
  <2>2. BitsError(r.val, r.computed) # 0
    BY <1>2, <2>1, BitsOfError
  <2> QED
    BY <1>1, <1>2, <2>2 DEF m_check_cc
<1>3. CASE Mag(r.computed) # 0
  <2>1. regular_p(Exact(r.computed))
    BY <1>3 DEF MustCancel
  <2>2. PICK o \in {o1, o2} : Drowned(o, r)
    BY <1>3 DEF MustCancel
  <2>3. PICK c \in Nat : c = m_get_cancelled_bits(o1.computed, o2.computed, r.computed)
    BY <1>1, CancelledBits
  <2>4. mpfr_get_exp(Exact(o.computed)) - mpfr_get_exp(Exact(r.computed)) <= c
    <3>1. \A x \in {o1.computed, o2.computed} :
            mpfr_get_exp(Exact(x)) - mpfr_get_exp(Exact(r.computed)) <= c
      BY <1>1, <2>1, <2>3, CancelledBits
    <3> QED
      BY <3>1
  <2>5. m_get_exact_bits(o) <= c
    BY <1>1, <2>1, <2>2, <2>4, DrownedBits
  <2>6. PICK x, y \in Nat : x = m_get_exact_bits(o1) /\ y = m_get_exact_bits(o2)
    BY <1>1, ExactBits
  <2>7. SmallerOf(x, y) <= c /\ SmallerOf(x, y) \in Nat
    BY <2>5, <2>6 DEF SmallerOf
  <2>8. m_get_cbad(c, x, y) > 0
    BY <2>7 DEF m_get_cbad, LargerOf
  <2> QED
    BY <1>1, <2>3, <2>6, <2>8 DEF m_check_cc
<1> QED
  BY <1>2, <1>3

LEMMA ExactOperand ==
  ASSUME NEW o, o.val \in Int, o.computed \in Doubles, ~isnan(o.computed), ~Inexact(o)
  PROVE  o.val = Exact(o.computed) /\ m_get_exact_bits(o) = MantBits
<1>1. PICK v, c \in Int : v = o.val /\ c = Exact(o.computed) /\ c # NaN
  BY ShadowTypes
<1>2. v = c
  <2>1. CASE Minus(v, c) = 0
    <3>1. Plus(v, -c) = 0
      BY <1>1, <2>1 DEF Minus
    <3>2. NaN # 0 /\ Infinity # 0 /\ -Infinity # 0
      <4>1. Infinity \in Nat /\ 0 < Infinity /\ NaN = Infinity + 1
        BY ShadowTypes
      <4> QED
        BY <4>1
    <3>3. v + -c = 0
      <4>1. Plus(v, -c) \in {NaN, Infinity, -Infinity, v + -c}
        <5>1. PICK b : b = -c
          OBVIOUS
        <5>2. Plus(v, b) \in {NaN, Infinity, -Infinity, v + b}
          BY Zenon DEF Plus
        <5> QED
          BY <5>1, <5>2
      <4> QED
        BY <3>1, <3>2, <4>1
    <3> QED
      BY <1>1, <3>3
  <2>2. CASE Minus(v, c) # 0
    BY <1>1, <2>2 DEF Inexact, ErrorOf
  <2> QED
    BY <2>1, <2>2
<1>3. mpfr_cmp(c, v) = 0
  BY <1>2 DEF mpfr_cmp
<1> QED
  BY <1>1, <1>2, <1>3 DEF m_get_exact_bits

LEMMA InventsNone ==
  ASSUME NEW op, NEW o1 \in Operands, NEW o2 \in Operands,
         m_check_cc(o1, o2, Result(op, o1, o2))
  PROVE  MayCancel(o1, o2, Result(op, o1, o2))
<1> SUFFICES ASSUME ~Inexact(o1), ~Inexact(o2)
             PROVE  m_get_cancelled_bits(o1.computed, o2.computed, Result(op, o1, o2).computed) >= MantBits
  BY DEF MayCancel
<1>1. PICK r : r = Result(op, o1, o2)
  OBVIOUS
<1>2. r.val \in Int /\ r.computed \in Doubles
  BY <1>1, ResultType
<1>3. \A o \in {o1, o2} : o.val \in Int /\ o.computed \in Doubles /\ ~isnan(o.computed)
  BY ValuesAssumption DEF m_check_cc
<1>4. \A o \in {o1, o2} : o.val = Exact(o.computed) /\ m_get_exact_bits(o) = MantBits
  BY <1>3, ExactOperand
<1>5. r.computed = m_get_double(r.val)
  BY <1>1, <1>4 DEF Result
<1>6. ~(Mag(r.computed) = 0 /\ BitsError(r.val, r.computed) # 0)
  BY <1>2, <1>5, BitsOfError
<1>7. PICK c \in Nat : c = m_get_cancelled_bits(o1.computed, o2.computed, r.computed)
  BY <1>2, <1>3, CancelledBits
<1>8. m_get_cbad(c, MantBits, MantBits) > 0
  BY <1>1, <1>4, <1>6, <1>7 DEF m_check_cc
<1>9. c >= MantBits
  BY <1>8, FormatAssumption DEF m_get_cbad, LargerOf, SmallerOf
<1> QED
  BY <1>1, <1>7, <1>9

-----------------------------------------------------------------------------
(* Comparisons.                                                            *)
LEMMA NaNHolds ==
  ASSUME NEW a, NEW b, a = NaN \/ b = NaN, NEW flag \in 0 .. 15
  PROVE  Holds(flag, a, b) <=> flag >= 8
<1>1. Holds(flag, a, b) <=> (flag \div 8) % 2 = 1
  BY DEF Holds, Relates
<1> QED
  BY <1>1

LEMMA NumbersHold ==
  ASSUME NEW a \in Int, NEW b \in Int, a # NaN, b # NaN, NEW flag \in 0 .. 15
  PROVE  Holds(flag, a, b) <=>
           \/ a < b /\ flag \in {4, 5, 6, 7, 12, 13, 14, 15}
           \/ a > b /\ flag \in {2, 3, 6, 7, 10, 11, 14, 15}
           \/ a = b /\ flag \in {1, 3, 5, 7, 9, 11, 13, 15}
<1>1. CASE a < b
  <2>1. Holds(flag, a, b) <=> (flag \div 4) % 2 = 1
    BY <1>1 DEF Holds, Relates
  <2> QED
    BY <1>1, <2>1
<1>2. CASE a > b
  <2>1. Holds(flag, a, b) <=> (flag \div 2) % 2 = 1
    BY <1>2 DEF Holds, Relates
  <2> QED
    BY <1>2, <2>1
<1>3. CASE a = b
  <2>1. Holds(flag, a, b) <=> (flag \div 1) % 2 = 1
    BY <1>3 DEF Holds, Relates
  <2> QED
    BY <1>3, <2>1
<1> QED
  BY <1>1, <1>2, <1>3

(* The comparison that m_check_branch makes is the one that the number of  *)
(* the predicate stands for, but for "uno" on one NaN.                     *)
LEMMA BranchHolds ==
  ASSUME NEW a \in Int, NEW b \in Int, NEW flag \in 0 .. 15,
         ~(flag = 8 /\ (a = NaN) # (b = NaN))
  PROVE  m_check_branch(a, b, flag) = Holds(flag, a, b)
<1>1. m_check_branch(a, b, flag) \in BOOLEAN /\ Holds(flag, a, b) \in BOOLEAN
  BY DEF m_check_branch, Holds
<1>2. CASE a = NaN \/ b = NaN
  <2>1. m_check_branch(a, b, flag) <=> flag >= 8
    BY <1>2 DEF m_check_branch
  <2> QED
    BY <1>1, <1>2, <2>1, NaNHolds
<1>3. CASE a # NaN /\ b # NaN
  <2>1. mpfr_cmp(a, b) = IF a = b THEN 0 ELSE IF a < b THEN -1 ELSE 1
    BY <1>3 DEF mpfr_cmp
  <2>2. m_check_branch(a, b, flag) <=>
          \/ flag \in 1 .. 7 /\ Relation(flag, mpfr_cmp(a, b))
          \/ flag \in 9 .. 14 /\ Relation(flag - 8, mpfr_cmp(a, b))
          \/ flag = 15
    BY <1>3 DEF m_check_branch
  <2>3. CASE a = b
    BY <1>1, <1>3, <2>1, <2>2, <2>3, NumbersHold DEF Relation
  <2>4. CASE a < b
    BY <1>1, <1>3, <2>1, <2>2, <2>4, NumbersHold DEF Relation
  <2>5. CASE a > b
    BY <1>1, <1>3, <2>1, <2>2, <2>5, NumbersHold DEF Relation
  <2> QED
    BY <2>3, <2>4, <2>5
<1> QED
  BY <1>2, <1>3

-----------------------------------------------------------------------------
(* Counters.                                                               *)
LEMMA OneType == \A b : One(b) \in 0 .. 1
BY DEF One

LEMMA Products ==
  /\ \A s \in Nat : MaxOps * (s + 1) = MaxOps * s + MaxOps
  /\ \A s, t \in Nat : s <= t => MaxOps * s <= MaxOps * t
  /\ \A s \in Nat : MaxOps * s \in Nat
  /\ MaxOps * 0 = 0
BY Bounds

LEMMA OneMore ==
  ASSUME NEW x \in Nat, NEW d \in 0 .. 1, NEW k \in Nat, x <= k
  PROVE  x + d \in Nat /\ x + d <= k + 1
OBVIOUS

LEMMA NoneAdded ==
  ASSUME NEW x \in Nat, NEW d \in 0 .. 1, x + d = 0
  PROVE  x = 0 /\ d = 0
OBVIOUS

LEMMA MoreAdded ==
  ASSUME NEW x \in Nat, NEW y \in Nat, x <= y, NEW d \in 0 .. 1, NEW k \in 0 .. 1, d <= k
  PROVE  x + d <= y + k
OBVIOUS

LEMMA InRange ==
  ASSUME NEW x \in Nat, NEW k \in 0 .. MaxOps, x <= k
  PROVE  x \in 0 .. MaxOps
BY Bounds

LEMMA Regroup == \A x, y, z \in Nat : (x + y) + z = x + (y + z)
OBVIOUS

LEMMA RoomLeft ==
  ASSUME NEW x \in Nat, NEW y \in 0 .. MaxOps, NEW k \in Nat, NEW top \in Nat,
         x <= k, k + MaxOps <= top
  PROVE  x + y \in 0 .. top
BY Bounds

(* The findings of one operation: what is counted, and what there was.     *)
Counts(e, n, i, f, c) ==
  /\ errorCount' = errorCount + e /\ nanCount' = nanCount + n /\ infCount' = infCount + i
  /\ flipsCount' = flipsCount + f /\ ccCount' = ccCount + c
Meets(e, n, i, f, u, must, may) ==
  did' = [errors |-> did.errors + e, nans |-> did.nans + n, infs |-> did.infs + i,
          flips |-> did.flips + f, uno |-> did.uno + u,
          mustCancel |-> did.mustCancel + must, mayCancel |-> did.mayCancel + may]

LEMMA MeetsEach ==
  ASSUME NEW e, NEW n, NEW i, NEW f, NEW u, NEW must, NEW may,
         Meets(e, n, i, f, u, must, may)
  PROVE  /\ did'.errors = did.errors + e /\ did'.nans = did.nans + n
         /\ did'.infs = did.infs + i /\ did'.flips = did.flips + f
         /\ did'.uno = did.uno + u /\ did'.mustCancel = did.mustCancel + must
         /\ did'.mayCancel = did.mayCancel + may
BY DEF Meets

LEMMA CountersType ==
  ASSUME IInv
  PROVE  /\ ops \in Nat /\ slices \in Nat
         /\ errorCount \in Nat /\ nanCount \in Nat /\ infCount \in Nat
         /\ flipsCount \in Nat /\ ccCount \in Nat
         /\ did.errors \in Nat /\ did.nans \in Nat /\ did.infs \in Nat /\ did.flips \in Nat
         /\ did.uno \in Nat /\ did.mustCancel \in Nat /\ did.mayCancel \in Nat
BY Bounds, Products DEF IInv, TypeOK

LEMMA DidFields ==
  ASSUME IInv
  PROVE  did = [errors |-> did.errors, nans |-> did.nans, infs |-> did.infs,
                flips |-> did.flips, uno |-> did.uno,
                mustCancel |-> did.mustCancel, mayCancel |-> did.mayCancel]
BY DEF IInv, TypeOK

LEMMA OperationKeeps ==
  ASSUME IInv, running, ops < MaxOps, ops' = ops + 1, args' = << >>,
         running' = running, slices' = slices, shown' = shown, infsBefore' = infsBefore,
         NEW e \in 0 .. 1, NEW n \in 0 .. 1, NEW i \in 0 .. 1, NEW f \in 0 .. 1,
         NEW c \in 0 .. 1, NEW te \in 0 .. 1, NEW tf \in 0 .. 1, NEW u \in 0 .. 1,
         NEW must \in 0 .. 1, NEW may \in 0 .. 1,
         Counts(e, n, i, f, c), Meets(te, n, i, tf, u, must, may),
         u = 0 => f = tf,
         e = te, must <= c, c <= may
  PROVE  IInv'
<1>1. TypeOK /\ Counting /\ Infinities /\ Counted
  BY DEF IInv
<1>2. MaxOps \in Nat /\ ops \in Nat /\ ops' \in 0 .. MaxOps /\ slices \in 1 .. MaxSlices
  <2>1. ops \in 0 .. MaxOps /\ slices \in 0 .. MaxSlices
    BY <1>1 DEF TypeOK
  <2>2. slices > 0
    BY <1>1 DEF Counting
  <2> QED
    BY <2>1, <2>2, Bounds
<1>3. /\ errorCount' \in Nat /\ errorCount' <= ops'
      /\ nanCount' \in Nat /\ nanCount' <= ops'
      /\ flipsCount' \in Nat /\ flipsCount' <= ops'
      /\ ccCount' \in Nat /\ ccCount' <= ops'
  <2>1. errorCount <= ops /\ nanCount <= ops /\ flipsCount <= ops /\ ccCount <= ops
    BY <1>1 DEF Counting
  <2>2. errorCount' \in Nat /\ errorCount' <= ops'
    BY <2>1, CountersType, OneMore DEF Counts
  <2>3. nanCount' \in Nat /\ nanCount' <= ops'
    BY <2>1, CountersType, OneMore DEF Counts
  <2>4. flipsCount' \in Nat /\ flipsCount' <= ops'
    BY <2>1, CountersType, OneMore DEF Counts
  <2>5. ccCount' \in Nat /\ ccCount' <= ops'
    BY <2>1, CountersType, OneMore DEF Counts
  <2> QED
    BY <2>2, <2>3, <2>4, <2>5
<1>4. /\ did'.errors = did.errors + te /\ did'.nans = did.nans + n
      /\ did'.infs = did.infs + i /\ did'.flips = did.flips + tf
      /\ did'.uno = did.uno + u /\ did'.mustCancel = did.mustCancel + must
      /\ did'.mayCancel = did.mayCancel + may
  BY MeetsEach
<1>5. /\ did'.errors \in Nat /\ did'.errors <= ops'
      /\ did'.nans \in Nat /\ did'.nans <= ops'
      /\ did'.infs \in Nat /\ did'.infs <= ops'
      /\ did'.flips \in Nat /\ did'.flips <= ops'
      /\ did'.uno \in Nat /\ did'.uno <= ops'
      /\ did'.mustCancel \in Nat /\ did'.mustCancel <= ops'
      /\ did'.mayCancel \in Nat /\ did'.mayCancel <= ops'
  <2>1. /\ did.errors <= ops /\ did.nans <= ops /\ did.infs <= ops /\ did.flips <= ops
        /\ did.uno <= ops /\ did.mustCancel <= ops /\ did.mayCancel <= ops
    BY <1>1 DEF Counting
  <2>2. did'.errors \in Nat /\ did'.errors <= ops'
    <3>1. did.errors \in Nat /\ did.errors <= ops /\ ops \in Nat
      BY <2>1, CountersType
    <3>2. did.errors + te \in Nat /\ did.errors + te <= ops + 1
      BY <3>1, OneMore
    <3> QED
      BY <1>4, <3>2
  <2>3. did'.nans \in Nat /\ did'.nans <= ops'
    <3>1. did.nans \in Nat /\ did.nans <= ops /\ ops \in Nat
      BY <2>1, CountersType
    <3>2. did.nans + n \in Nat /\ did.nans + n <= ops + 1
      BY <3>1, OneMore
    <3> QED
      BY <1>4, <3>2
  <2>4. did'.infs \in Nat /\ did'.infs <= ops'
    <3>1. did.infs \in Nat /\ did.infs <= ops /\ ops \in Nat
      BY <2>1, CountersType
    <3>2. did.infs + i \in Nat /\ did.infs + i <= ops + 1
      BY <3>1, OneMore
    <3> QED
      BY <1>4, <3>2
  <2>5. did'.flips \in Nat /\ did'.flips <= ops'
    <3>1. did.flips \in Nat /\ did.flips <= ops /\ ops \in Nat
      BY <2>1, CountersType
    <3>2. did.flips + tf \in Nat /\ did.flips + tf <= ops + 1
      BY <3>1, OneMore
    <3> QED
      BY <1>4, <3>2
  <2>6. did'.uno \in Nat /\ did'.uno <= ops'
    <3>1. did.uno \in Nat /\ did.uno <= ops /\ ops \in Nat
      BY <2>1, CountersType
    <3>2. did.uno + u \in Nat /\ did.uno + u <= ops + 1
      BY <3>1, OneMore
    <3> QED
      BY <1>4, <3>2
  <2>7. did'.mustCancel \in Nat /\ did'.mustCancel <= ops'
    <3>1. did.mustCancel \in Nat /\ did.mustCancel <= ops /\ ops \in Nat
      BY <2>1, CountersType
    <3>2. did.mustCancel + must \in Nat /\ did.mustCancel + must <= ops + 1
      BY <3>1, OneMore
    <3> QED
      BY <1>4, <3>2
  <2>8. did'.mayCancel \in Nat /\ did'.mayCancel <= ops'
    <3>1. did.mayCancel \in Nat /\ did.mayCancel <= ops /\ ops \in Nat
      BY <2>1, CountersType
    <3>2. did.mayCancel + may \in Nat /\ did.mayCancel + may <= ops + 1
      BY <3>1, OneMore
    <3> QED
      BY <1>4, <3>2
  <2> QED
    BY <2>2, <2>3, <2>4, <2>5, <2>6, <2>7, <2>8
<1>6. Counting'
  BY <1>2, <1>3, <1>5 DEF Counting
<1>7. Infinities'
  <2>1. infsBefore \in Nat /\ infCount = infsBefore + did.infs
    BY <1>1 DEF Infinities
  <2>2. infsBefore <= MaxOps * (slices - 1)
    BY <1>1, <1>2 DEF Infinities
  <2>3. infCount' = infsBefore + did'.infs
    <3>1. infCount' = (infsBefore + did.infs) + i /\ did'.infs = did.infs + i
      BY <1>4, <2>1 DEF Counts
    <3>2. (infsBefore + did.infs) + i = infsBefore + (did.infs + i)
      <4>1. infsBefore \in Nat /\ did.infs \in Nat /\ i \in Nat
        BY <2>1, CountersType
      <4> QED
        BY <4>1, Regroup, Zenon
    <3> QED
      BY <3>1, <3>2
  <2> QED
    BY <1>2, <2>1, <2>2, <2>3 DEF Infinities
<1>8. TypeOK'
  <2>1. infCount' \in 0 .. MaxOps * MaxSlices
    <3>1. PICK s : s = slices - 1
      OBVIOUS
    <3>2. s \in Nat /\ s + 1 <= MaxSlices /\ MaxSlices \in Nat
      BY <1>2, <3>1, Bounds
    <3>3. MaxOps * s \in Nat /\ MaxOps * MaxSlices \in Nat
      BY <3>2, Products
    <3>4. MaxOps * s + MaxOps <= MaxOps * MaxSlices
      <4>1. MaxOps * (s + 1) <= MaxOps * MaxSlices
        BY <3>2, Products
      <4> QED
        BY <3>2, <4>1, Products
    <3>5. infsBefore \in Nat /\ infsBefore <= MaxOps * s
      BY <1>1, <1>2, <3>1 DEF Infinities
    <3>6. infCount' = infsBefore + did'.infs
      BY <1>2, <1>7 DEF Infinities
    <3> QED
      <4>1. did'.infs \in 0 .. MaxOps
        BY <1>2, <1>5, InRange
      <4>2. infsBefore + did'.infs \in 0 .. MaxOps * MaxSlices
        BY <3>3, <3>4, <3>5, <4>1, RoomLeft
      <4> QED
        BY <3>6, <4>2
  <2>2. /\ errorCount' \in 0 .. MaxOps /\ nanCount' \in 0 .. MaxOps
        /\ flipsCount' \in 0 .. MaxOps /\ ccCount' \in 0 .. MaxOps
    BY <1>2, <1>3
  <2>3. did' \in [errors : 0 .. MaxOps, nans : 0 .. MaxOps, infs : 0 .. MaxOps,
                  flips : 0 .. MaxOps, uno : 0 .. MaxOps,
                  mustCancel : 0 .. MaxOps, mayCancel : 0 .. MaxOps]
    <3>1. /\ did'.errors \in 0 .. MaxOps /\ did'.nans \in 0 .. MaxOps
          /\ did'.infs \in 0 .. MaxOps /\ did'.flips \in 0 .. MaxOps
          /\ did'.uno \in 0 .. MaxOps /\ did'.mustCancel \in 0 .. MaxOps
          /\ did'.mayCancel \in 0 .. MaxOps
      BY <1>2, <1>5, InRange
    <3> QED
      BY <1>4, <3>1 DEF Meets
  <2> QED
    BY <1>1, <1>2, <2>1, <2>2, <2>3 DEF TypeOK
<1>9. Counted'
  <2>1. nanCount = did.nans /\ (did.uno = 0 => flipsCount = did.flips)
    BY <1>1 DEF Counted
  <2>2. nanCount' = did'.nans
    BY <1>4, <2>1 DEF Counts
  <2>3. did'.uno = 0 => flipsCount' = did'.flips
    <3> SUFFICES ASSUME did'.uno = 0 PROVE flipsCount' = did'.flips
      OBVIOUS
    <3>1. did.uno + u = 0 /\ did.uno \in Nat
      BY <1>4, CountersType
    <3>2. did.uno = 0 /\ u = 0
      BY <3>1, NoneAdded
    <3> QED
      BY <1>4, <2>1, <3>2 DEF Counts
  <2>4. errorCount' = did'.errors
    BY <1>1, <1>4 DEF Counted, Counts
  <2>5. did'.mustCancel <= ccCount' /\ ccCount' <= did'.mayCancel
    <3>1. did.mustCancel <= ccCount /\ ccCount <= did.mayCancel
      BY <1>1 DEF Counted
    <3>2. did.mustCancel \in Nat /\ ccCount \in Nat /\ did.mayCancel \in Nat
      BY CountersType
    <3>3. did.mustCancel + must <= ccCount + c /\ ccCount + c <= did.mayCancel + may
      BY <3>1, <3>2, MoreAdded
    <3> QED
      BY <1>4, <3>3 DEF Counts
  <2> QED
    BY <2>2, <2>3, <2>4, <2>5 DEF Counted
<1> QED
  BY <1>6, <1>7, <1>8, <1>9 DEF IInv, Reported

-----------------------------------------------------------------------------
(* One operation after the other.                                          *)
LEMMA SomeArgs == ASSUME TypeOK, args # << >> PROVE args[1] \in Operands /\ args[2] \in Operands
BY DEF TypeOK

LEMMA AddSubKeeps ==
  ASSUME IInv, NEW op \in Ops, AddSub(op)
  PROVE  IInv'
<1> PICK o1, o2, r, sub :
      /\ o1 = args[1] /\ o2 = args[2] /\ r = Result(op, o1, o2)
      /\ sub = Subtracts(op, o1, o2)
  OBVIOUS
<1> DEFINE e == One(IsError(r.val, r.computed))
           n == One(isnan(r.computed))
           c == One(sub /\ m_check_cc(o1, o2, r))
           te == One(TooFar(r.val, r.computed))
           must == One(sub /\ MustCancel(o1, o2, r))
           may == One(sub /\ MayCancel(o1, o2, r))
<1>1. o1 \in Operands /\ o2 \in Operands
  BY SomeArgs DEF IInv, AddSub, OnArgs
<1>2. /\ e \in 0 .. 1 /\ n \in 0 .. 1 /\ c \in 0 .. 1
      /\ te \in 0 .. 1 /\ must \in 0 .. 1 /\ may \in 0 .. 1
  BY OneType
<1>3. Counts(e, n, 0, 0, c)
  BY CountersType DEF AddSub, Counts, CountNaN, UpdateError
<1>4. Meets(te, n, 0, 0, 0, must, may)
  <2>1. did.infs + 0 = did.infs /\ did.flips + 0 = did.flips /\ did.uno + 0 = did.uno
    BY CountersType
  <2>2. did' = [did EXCEPT !.errors = @ + te, !.nans = @ + n,
                           !.mustCancel = @ + must, !.mayCancel = @ + may]
    BY DEF AddSub
  <2> QED
    BY <2>1, <2>2, DidFields DEF Meets
<1>5. e = te
  BY <1>1, ResultType, ErrorRight
<1>6. must <= c /\ c <= may
  <2>1. MustCancel(o1, o2, r) => m_check_cc(o1, o2, r)
    BY <1>1, ResultType, FindsCancels
  <2>2. m_check_cc(o1, o2, r) => MayCancel(o1, o2, r)
    BY <1>1, InventsNone
  <2> QED
    BY <2>1, <2>2 DEF One
<1>7. /\ running /\ ops < MaxOps /\ ops' = ops + 1 /\ args' = << >>
      /\ running' = running /\ slices' = slices /\ shown' = shown /\ infsBefore' = infsBefore
  BY DEF IInv, Counting, AddSub, OnArgs
<1> HIDE DEF e, n, c, te, must, may
<1> QED
  BY <1>2, <1>3, <1>4, <1>5, <1>6, <1>7, OperationKeeps

LEMMA MulKeeps ==
  ASSUME IInv, NEW r \in Results, Mul(r)
  PROVE  IInv'
<1> DEFINE e == One(IsError(r.val, r.computed))
           te == One(TooFar(r.val, r.computed))
           n == One(isnan(r.computed))
<1>1. e \in 0 .. 1 /\ te \in 0 .. 1 /\ n \in 0 .. 1
  BY OneType
<1>2. Counts(e, n, 0, 0, 0)
  BY CountersType DEF Mul, Counts, UpdateError, CountNaN
<1>3. Meets(te, n, 0, 0, 0, 0, 0)
  <2>1. /\ did.infs + 0 = did.infs /\ did.flips + 0 = did.flips /\ did.uno + 0 = did.uno
        /\ did.mustCancel + 0 = did.mustCancel /\ did.mayCancel + 0 = did.mayCancel
    BY CountersType
  <2>2. did' = [did EXCEPT !.errors = @ + te, !.nans = @ + n]
    BY DEF Mul
  <2> QED
    BY <2>1, <2>2, DidFields DEF Meets
<1>4. e = te
  BY ValuesAssumption, ErrorRight
<1>5. /\ running /\ ops < MaxOps /\ ops' = ops + 1 /\ args' = << >>
      /\ running' = running /\ slices' = slices /\ shown' = shown /\ infsBefore' = infsBefore
  BY DEF Mul, OnResult
<1> HIDE DEF e, te, n
<1> QED
  BY <1>1, <1>2, <1>3, <1>4, <1>5, OperationKeeps

LEMMA UnboundedKeeps ==
  ASSUME IInv, NEW r \in Results, Unbounded(r)
  PROVE  IInv'
<1> DEFINE e == One(IsError(r.val, r.computed))
           te == One(TooFar(r.val, r.computed))
           n == One(isnan(r.computed))
           i == One(isinf(r.computed))
<1>1. e \in 0 .. 1 /\ te \in 0 .. 1 /\ n \in 0 .. 1 /\ i \in 0 .. 1
  BY OneType
<1>2. Counts(e, n, i, 0, 0)
  BY CountersType DEF Unbounded, Counts, UpdateError, CountNaN, CountInf
<1>3. Meets(te, n, i, 0, 0, 0, 0)
  <2>1. /\ did.flips + 0 = did.flips /\ did.uno + 0 = did.uno /\ did.mustCancel + 0 = did.mustCancel
        /\ did.mayCancel + 0 = did.mayCancel
    BY CountersType
  <2>2. did' = [did EXCEPT !.errors = @ + te, !.nans = @ + n, !.infs = @ + i]
    BY DEF Unbounded
  <2> QED
    BY <2>1, <2>2, DidFields DEF Meets
<1>4. e = te
  BY ValuesAssumption, ErrorRight
<1>5. /\ running /\ ops < MaxOps /\ ops' = ops + 1 /\ args' = << >>
      /\ running' = running /\ slices' = slices /\ shown' = shown /\ infsBefore' = infsBefore
  BY DEF Unbounded, OnResult
<1> HIDE DEF e, te, n, i
<1> QED
  BY <1>1, <1>2, <1>3, <1>4, <1>5, OperationKeeps

LEMMA ErrorOnlyKeeps ==
  ASSUME IInv, NEW r \in Results, ErrorOnly(r)
  PROVE  IInv'
<1> DEFINE e == One(IsError(r.val, r.computed))
           te == One(TooFar(r.val, r.computed))
<1>1. e \in 0 .. 1 /\ te \in 0 .. 1
  BY OneType
<1>2. Counts(e, 0, 0, 0, 0)
  BY CountersType DEF ErrorOnly, Counts, UpdateError
<1>3. Meets(te, 0, 0, 0, 0, 0, 0)
  <2>1. /\ did.nans + 0 = did.nans /\ did.infs + 0 = did.infs /\ did.flips + 0 = did.flips
        /\ did.uno + 0 = did.uno /\ did.mustCancel + 0 = did.mustCancel /\ did.mayCancel + 0 = did.mayCancel
    BY CountersType
  <2>2. did' = [did EXCEPT !.errors = @ + te]
    BY DEF ErrorOnly
  <2> QED
    BY <2>1, <2>2, DidFields DEF Meets
<1>4. e = te
  BY ValuesAssumption, ErrorRight
<1>5. /\ running /\ ops < MaxOps /\ ops' = ops + 1 /\ args' = << >>
      /\ running' = running /\ slices' = slices /\ shown' = shown /\ infsBefore' = infsBefore
  BY DEF ErrorOnly, OnResult
<1> HIDE DEF e, te
<1> QED
  BY <1>1, <1>2, <1>3, <1>4, <1>5, OperationKeeps

LEMMA CheckBranchKeeps ==
  ASSUME IInv, NEW flag \in 0 .. 15, CheckBranch(flag)
  PROVE  IInv'
<1> PICK o1, o2 : o1 = args[1] /\ o2 = args[2]
  OBVIOUS
<1> PICK res : res = Holds(flag, Exact(o1.computed), Exact(o2.computed))
  OBVIOUS
<1> DEFINE f == One(m_check_branch(o1.val, o2.val, flag) # res)
           tf == One(Holds(flag, o1.val, o2.val) # res)
           u == One(flag = 8 /\ (o1.val = NaN) # (o2.val = NaN))
<1>1. f \in 0 .. 1 /\ tf \in 0 .. 1 /\ u \in 0 .. 1
  BY OneType
<1>2. Counts(0, 0, 0, f, 0)
  BY CountersType DEF CheckBranch, Counts
<1>3. Meets(0, 0, 0, tf, u, 0, 0)
  <2>1. /\ did.errors + 0 = did.errors /\ did.nans + 0 = did.nans /\ did.infs + 0 = did.infs
        /\ did.mustCancel + 0 = did.mustCancel /\ did.mayCancel + 0 = did.mayCancel
    BY CountersType
  <2>2. did' = [did EXCEPT !.flips = @ + tf, !.uno = @ + u]
    BY DEF CheckBranch
  <2> QED
    BY <2>1, <2>2, DidFields DEF Meets
<1>4. u = 0 => f = tf
  <2>1. o1.val \in Int /\ o2.val \in Int
    BY SomeArgs, Bounds DEF IInv, CheckBranch, OnArgs
  <2>2. u = 0 => ~(flag = 8 /\ (o1.val = NaN) # (o2.val = NaN))
    BY DEF One
  <2> QED
    BY <2>1, <2>2, BranchHolds
<1>5. /\ running /\ ops < MaxOps /\ ops' = ops + 1 /\ args' = << >>
      /\ running' = running /\ slices' = slices /\ shown' = shown /\ infsBefore' = infsBefore
  BY DEF IInv, Counting, CheckBranch, OnArgs
<1> HIDE DEF f, tf, u
<1> QED
  BY <1>1, <1>2, <1>3, <1>4, <1>5, OperationKeeps

(* Slices begin and end.                                                   *)
LEMMA FetchKeeps ==
  ASSUME IInv, Fetch
  PROVE  IInv'
BY DEF IInv, Fetch, TypeOK, Counting, Infinities, Counted, Reported, counters

LEMMA SliceEndKeeps ==
  ASSUME IInv, ShadowSliceEnd
  PROVE  IInv'
<1>1. TypeOK /\ Counting /\ Infinities /\ Counted
  BY DEF IInv
<1>2. /\ MaxOps \in Nat /\ 0 \in 0 .. MaxOps
  BY Bounds
<1>3. TypeOK'
  BY <1>1, <1>2 DEF ShadowSliceEnd, Reset, TypeOK
<1>4. Counting'
  BY <1>1, CountersType DEF ShadowSliceEnd, Reset, Counting
<1>5. Infinities'
  BY <1>1 DEF ShadowSliceEnd, Infinities
<1>6. Counted' /\ Reported'
  BY <1>1 DEF ShadowSliceEnd, Counted, Reported, Infinities
<1> QED
  BY <1>3, <1>4, <1>5, <1>6 DEF IInv

LEMMA SliceStartKeeps ==
  ASSUME IInv, ShadowSliceStart
  PROVE  IInv'
<1>1. TypeOK /\ Counting /\ Infinities
  BY DEF IInv
<1>2. /\ MaxOps \in Nat /\ 0 \in 0 .. MaxOps /\ slices \in Nat /\ slices' \in 1 .. MaxSlices
  BY <1>1, Bounds DEF ShadowSliceStart, TypeOK
<1>3. did' = NothingMet /\ shown' = NothingShown /\ ops' = 0 /\ infCount' = infCount
  BY DEF ShadowSliceStart, counters
<1>4. errorCount = 0 /\ nanCount = 0 /\ flipsCount = 0 /\ ccCount = 0
  BY <1>1 DEF Counting, ShadowSliceStart
<1>5. TypeOK'
  BY <1>1, <1>2, <1>3, <1>4, Bounds, Products
     DEF ShadowSliceStart, counters, TypeOK, NothingMet, NothingShown
<1>6. Counting'
  BY <1>1, <1>2, <1>3, <1>4 DEF ShadowSliceStart, counters, Counting, NothingMet
<1>7. Infinities'
  <2>1. infsBefore \in Nat /\ did.infs \in Nat /\ infCount = infsBefore + did.infs
    BY <1>1, CountersType DEF Infinities
  <2>2. infsBefore' = infsBefore + did.infs /\ slices' = slices + 1
    BY DEF ShadowSliceStart
  <2>3. infsBefore' \in Nat /\ infCount' = infsBefore' + did'.infs
    BY <1>3, <2>1, <2>2 DEF NothingMet
  <2>4. infsBefore' <= MaxOps * (slices' - 1)
    <3>1. CASE slices = 0
      <4>1. infsBefore' = 0
        BY <1>1, <2>2, <3>1 DEF Infinities, NothingMet
      <4> QED
        BY <2>2, <3>1, <4>1, Products
    <3>2. CASE slices # 0
      <4>1. PICK s : s = slices - 1
        OBVIOUS
      <4>2. s \in Nat /\ slices' - 1 = s + 1
        BY <1>2, <2>2, <3>2, <4>1
      <4>3. infsBefore <= MaxOps * s /\ MaxOps * s \in Nat
        BY <1>1, <3>2, <4>1, <4>2, Products DEF Infinities
      <4>4. did.infs \in 0 .. MaxOps
        BY <1>1 DEF TypeOK
      <4>5. infsBefore + did.infs <= MaxOps * s + MaxOps
        BY <1>2, <2>1, <4>3, <4>4
      <4> QED
        BY <2>2, <4>2, <4>5, Products
    <3> QED
      BY <3>1, <3>2
  <2>5. slices' # 0
    BY <1>2
  <2> QED
    BY <2>3, <2>4, <2>5 DEF Infinities
<1>8. Counted' /\ Reported'
  BY <1>3, <1>4 DEF ShadowSliceStart, counters, Counted, Reported, NothingMet
<1> QED
  BY <1>5, <1>6, <1>7, <1>8 DEF IInv

-----------------------------------------------------------------------------
LEMMA InitHolds ==
  ASSUME Init
  PROVE  IInv
<1>1. MaxOps \in Nat /\ MaxSlices \in Nat /\ MaxOps * MaxSlices \in Nat
  BY Bounds, Products
<1>2. 0 \in 0 .. MaxOps /\ 0 \in 0 .. MaxSlices /\ 0 \in 0 .. MaxOps * MaxSlices
  BY <1>1
<1>3. TypeOK
  BY <1>2 DEF Init, TypeOK, NothingShown, NothingMet
<1>4. Counting /\ Infinities
  BY DEF Init, Counting, Infinities, NothingMet
<1> QED
  BY <1>3, <1>4 DEF Init, IInv, Counted, Reported

LEMMA StepKeeps ==
  ASSUME IInv, [Next]_vars
  PROVE  IInv'
<1>1. CASE ShadowSliceStart
  BY <1>1, SliceStartKeeps
<1>2. CASE ShadowSliceEnd
  BY <1>2, SliceEndKeeps
<1>3. CASE Fetch
  BY <1>3, FetchKeeps
<1>4. ASSUME NEW op \in Ops, AddSub(op) PROVE IInv'
  BY <1>4, AddSubKeeps
<1>5. ASSUME NEW r \in Results,
             Mul(r) \/ Div(r) \/ MathFunction(r) \/ MathFunction2(r) \/ Recheck(r)
      PROVE  IInv'
  BY <1>5, MulKeeps, UnboundedKeeps, ErrorOnlyKeeps
     DEF Div, MathFunction, MathFunction2, Recheck
<1>6. ASSUME NEW flag \in 0 .. 15, CheckBranch(flag) PROVE IInv'
  BY <1>6, CheckBranchKeeps
<1>7. CASE UNCHANGED vars
  BY <1>7 DEF vars, counters, IInv, TypeOK, Counting, Infinities, Counted, Reported
<1> QED
  BY <1>1, <1>2, <1>3, <1>4, <1>5, <1>6, <1>7 DEF Next, Ops

(* Over any number of operations and slices, for every format, threshold   *)
(* and set of values: the counters of a slice are zero when it begins, no  *)
(* operation counts twice, NaNs and flips are counted as they are met, the *)
(* infinities add up over slices, and a report is what its slice counted.  *)
THEOREM ErrorsInductive == Spec => []IInv
<1>1. Init => IInv
  BY InitHolds
<1>2. IInv /\ [Next]_vars => IInv'
  BY StepKeeps
<1> QED
  BY <1>1, <1>2, PTL DEF Spec

(* The type invariant, for every format and every bound.                   *)
THEOREM ErrorTypes == Spec => []TypeOK
<1>1. IInv => TypeOK
  BY DEF IInv
<1> QED
  BY <1>1, ErrorsInductive, PTL

(* m_check_branch and the counter of flips: for every predicate, all       *)
(* numbers, infinities and NaNs of every format, a flip is counted exactly *)
(* if the shadow decides the comparison differently, but for "fcmp uno" on *)
(* one NaN.                                                                *)
THEOREM FlipsRight == Spec => []FlipsCounted
<1>1. IInv => FlipsCounted
  BY DEF IInv, Counted, FlipsCounted
<1> QED
  BY <1>1, ErrorsInductive, PTL

(* m_update_error: the count of errors is right over every sequence of     *)
(* operations, in every format and with every threshold below its width.   *)
THEOREM ErrorsAddUp == Spec => []ErrorsCounted
<1>1. IInv => ErrorsCounted
  BY DEF IInv, Counted, ErrorsCounted
<1> QED
  BY <1>1, ErrorsInductive, PTL

(* m_check_cc: in every format and for all operands, those with a shadow   *)
(* of the other sign among them, no slice misses a difference that is gone *)
(* or smaller than the error of an operand, but for the one bit of crossed *)
(* operands,                                                               *)
THEOREM CancellationsFound == Spec => []CancellationDetected
<1>1. IInv => CancellationDetected
  <2>1. IInv => ccCount \in Nat /\ did.mustCancel \in Nat
    BY CountersType
  <2> QED
    BY <2>1 DEF IInv, Counted, CancellationDetected
<1> QED
  BY <1>1, ErrorsInductive, PTL

(* and none reports a subtraction of exact operands unless all stored bits *)
(* of a mantissa cancel.                                                   *)
THEOREM NoneInvented == Spec => []NoFalseCancellation
<1>1. IInv => NoFalseCancellation
  BY DEF IInv, Counted, NoFalseCancellation
<1> QED
  BY <1>1, ErrorsInductive, PTL

(* What a slice reports is what it met itself, whatever earlier slices met *)
(* on the same shadow state.                                               *)
THEOREM ReportsOwn == Spec => []ReportIsOwn
<1>1. IInv => ReportIsOwn
  <2>1. IInv => did.infs \in Nat
    BY CountersType
  <2> QED
    BY <2>1 DEF IInv, Reported, ReportIsOwn
<1> QED
  BY <1>1, ErrorsInductive, PTL
=============================================================================
