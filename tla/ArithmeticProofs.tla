--------------------------- MODULE ArithmeticProofs ---------------------------
(***************************************************************************)
(* What the arithmetic of words returns, and that the flags decide         *)
(* comparisons and sums, at every width.  The powers of two are the sizes  *)
(* of sets of subsets: the provers know no other arithmetic of them.       *)
(***************************************************************************)
EXTENDS Word, Nzcv, FiniteSetTheorems, FunctionTheorems, NaturalsInduction, TLAPS

-----------------------------------------------------------------------------
(* Powers of two. *)

LEMMA LeastNatural ==
  ASSUME NEW S \in SUBSET Nat, S # {}
  PROVE  \E m \in S : \A k \in S : m <= k
<1>1. PICK x \in S : \A y \in S : ~ (<<y, x>> \in OpToRel(<, Nat))
  <2>1. IsWellFoundedOn(OpToRel(<, Nat), Nat)
    BY NatLessThanWellFounded
  <2> QED  BY <2>1, WFMin
<1>2. ASSUME NEW y \in S PROVE x <= y
  <2>1. x \in Nat /\ y \in Nat
    OBVIOUS
  <2>2. ~ (y < x)
    BY <1>1, <2>1, Zenon DEF OpToRel
  <2> QED  BY <2>1, <2>2
<1> QED  BY <1>2

LEMMA PowerIsCardinality ==
  ASSUME NEW n \in Nat
  PROVE  /\ IsFiniteSet(SUBSET (1 .. n))
         /\ Cardinality(SUBSET (1 .. n)) = 2^n
<1>1. IsFiniteSet(1 .. n) /\ Cardinality(1 .. n) = n
  BY FS_Interval
<1> QED  BY <1>1, FS_SUBSET

LEMMA PowerNat ==
  ASSUME NEW n \in Nat
  PROVE  2^n \in Nat
BY PowerIsCardinality, FS_CardinalityType

LEMMA PowerDoubles ==
  ASSUME NEW n \in Nat
  PROVE  2^(n + 1) = 2 * 2^n
<1> DEFINE A == SUBSET (1 .. n)
           B == {s \cup {n + 1} : s \in A}
           f == [s \in A |-> s \cup {n + 1}]
<1>1. SUBSET (1 .. n + 1) = A \cup B
  <2>1. 1 .. n + 1 = (1 .. n) \cup {n + 1}
    OBVIOUS
  <2>2. ASSUME NEW t, t \in SUBSET (1 .. n + 1) PROVE t \in A \cup B
    <3>1. CASE n + 1 \in t
      <4>1. t \ {n + 1} \in A /\ t = (t \ {n + 1}) \cup {n + 1}
        BY <2>1, <2>2, <3>1
      <4> QED  BY <4>1
    <3>2. CASE n + 1 \notin t
      BY <2>1, <2>2, <3>2
    <3> QED  BY <3>1, <3>2
  <2>3. ASSUME NEW t, t \in A \cup B PROVE t \in SUBSET (1 .. n + 1)
    BY <2>1, <2>3
  <2> HIDE DEF A, B
  <2> QED  BY <2>2, <2>3, Zenon
<1>2. A \cap B = {}
  OBVIOUS
<1>3. ExistsBijection(A, B)
  <2>1. f \in Bijection(A, B)
    <3>1. f \in [A -> B]
      OBVIOUS
    <3>2. ASSUME NEW s \in A, NEW t \in A, f[s] = f[t] PROVE s = t
      <4>1. n + 1 \notin s /\ n + 1 \notin t
        OBVIOUS
      <4>2. s \cup {n + 1} = t \cup {n + 1}
        BY <3>2
      <4> QED  BY <4>1, <4>2
    <3>3. \A t \in B : \E s \in A : f[s] = t
      OBVIOUS
    <3> HIDE DEF f, A, B
    <3> QED  BY <3>1, <3>2, <3>3, Zenon DEF Bijection, Injection, IsInjective, Surjection
  <2> QED  BY <2>1 DEF ExistsBijection
<1>4. IsFiniteSet(A) /\ Cardinality(A) = 2^n
  BY PowerIsCardinality
<1>5. IsFiniteSet(B) /\ Cardinality(B) = 2^n
  BY <1>3, <1>4, FS_Bijection
<1> HIDE DEF A, B
<1>6. Cardinality(A \cup B) = 2^n + 2^n
  BY <1>2, <1>4, <1>5, FS_Union, FS_EmptySet, PowerNat
<1>7. Cardinality(SUBSET (1 .. n + 1)) = 2^(n + 1)
  BY PowerIsCardinality
<1>8. 2^(n + 1) = 2^n + 2^n
  BY <1>1, <1>6, <1>7
<1> QED  BY <1>8, PowerNat

LEMMA PowerOfSum ==
  ASSUME NEW m \in Nat, NEW n \in Nat
  PROVE  2^(m + n) = 2^m * 2^n
<1> DEFINE Bad == {k \in Nat : 2^(m + k) # 2^m * 2^k}
<1>1. SUFFICES ASSUME Bad # {} PROVE FALSE
  OBVIOUS
<1>2. PICK k \in Bad : \A j \in Bad : k <= j
  <2>1. Bad \in SUBSET Nat
    OBVIOUS
  <2> HIDE DEF Bad
  <2> QED  BY <1>1, <2>1, LeastNatural
<1>3. k # 0
  <2>1. 2^0 = 1 /\ m + 0 = m
    OBVIOUS
  <2>2. 2^(m + 0) = 2^m * 2^0
    BY <2>1, PowerNat
  <2> QED  BY <2>2
<1>4. k - 1 \in Nat /\ k - 1 \notin Bad
  BY <1>2, <1>3
<1>5. 2^(m + (k - 1)) = 2^m * 2^(k - 1)
  BY <1>4
<1>6. 2^k = 2 * 2^(k - 1) /\ 2^(m + k) = 2 * 2^(m + (k - 1))
  <2>1. (k - 1) + 1 = k /\ (m + (k - 1)) + 1 = m + k
    BY <1>4
  <2> QED  BY <1>4, <2>1, PowerDoubles
<1>7. 2^m \in Nat /\ 2^(k - 1) \in Nat
  BY <1>4, PowerNat
<1> QED
  <2>1. 2 * (2^m * 2^(k - 1)) = 2^m * (2 * 2^(k - 1))
    BY <1>7
  <2> QED  BY <1>5, <1>6, <2>1

LEMMA PowerPositive ==
  ASSUME NEW n \in Nat
  PROVE  2^n \in Nat \ {0}
<1>1. 2^n * 2^0 = 2^n /\ 2^n \in Nat
  BY PowerNat
<1>2. {} \in SUBSET (1 .. n)
  OBVIOUS
<1> QED  BY <1>1, <1>2, PowerIsCardinality, FS_EmptySet

LEMMA InductiveSet ==
  ASSUME NEW S \in SUBSET Nat, 0 \in S, \A k \in S : k + 1 \in S
  PROVE  S = Nat
<1> SUFFICES ASSUME Nat \ S # {} PROVE FALSE
  OBVIOUS
<1>1. PICK m \in Nat \ S : \A k \in Nat \ S : m <= k
  BY LeastNatural
<1>2. m - 1 \in Nat /\ m - 1 \in S
  BY <1>1
<1>3. (m - 1) + 1 = m
  BY <1>2
<1> QED  BY <1>2, <1>3

LEMMA PowerMonotone ==
  ASSUME NEW n \in Nat, NEW m \in 0 .. n
  PROVE  2^m <= 2^n
<1> DEFINE p == 2^m
           q == 2^(n - m)
<1>1. p \in Nat /\ q \in Nat \ {0}
  BY PowerPositive
<1>2. 2^n = p * q
  <2>1. m + (n - m) = n
    OBVIOUS
  <2> QED  BY <2>1, PowerOfSum
<1> HIDE DEF p, q
<1>3. p <= p * q
  BY <1>1
<1> QED  BY <1>2, <1>3 DEF p

LEMMA PowerAbove ==
  ASSUME NEW n \in Nat
  PROVE  n < 2^n
<1> DEFINE S == {k \in Nat : k < 2^k}
<1>1. 0 \in S
  BY PowerPositive
<1>2. ASSUME NEW k \in S PROVE k + 1 \in S
  BY PowerNat, PowerDoubles
<1> HIDE DEF S
<1>3. S = Nat
  <2>1. S \in SUBSET Nat
    BY DEF S
  <2> QED  BY <1>1, <1>2, <2>1, InductiveSet
<1> QED  BY <1>3 DEF S

-----------------------------------------------------------------------------
(* Casts and shifts. *)

LEMMA LowRange ==
  ASSUME NEW v \in Int, NEW n \in Nat
  PROVE  Low(v, n) \in 0 .. 2^n - 1
<1> DEFINE p == 2^n
<1>1. p \in Nat \ {0}
  BY PowerPositive
<1> HIDE DEF p
<1>2. v % p \in 0 .. p - 1
  BY <1>1
<1> QED  BY <1>2 DEF Low, p

LEMMA LowNat ==
  ASSUME NEW v \in Int, NEW n \in Nat
  PROVE  Low(v, n) \in Nat
BY LowRange, PowerNat

LEMMA LowFits ==
  ASSUME NEW v \in Int, NEW n \in Nat, NEW m \in 0 .. n
  PROVE  Low(v, m) \in 0 .. 2^n - 1
<1>1. Low(v, m) \in 0 .. 2^m - 1 /\ 2^m <= 2^n
  BY LowRange, PowerMonotone
<1> QED  BY <1>1, PowerNat

LEMMA LowOfSmall ==
  ASSUME NEW n \in Nat, NEW v \in 0 .. 2^n - 1
  PROVE  Low(v, n) = v
<1> DEFINE p == 2^n
<1>1. p \in Nat \ {0} /\ v \in 0 .. p - 1
  BY PowerPositive
<1> HIDE DEF p
<1>2. v % p = v
  BY <1>1
<1> QED  BY <1>2 DEF Low, p

LEMMA LowAtMost ==
  ASSUME NEW v \in Nat, NEW n \in Nat
  PROVE  Low(v, n) <= v
<1> DEFINE p == 2^n
<1>1. p \in Nat \ {0}
  BY PowerPositive
<1> HIDE DEF p
<1>2. v % p <= v
  BY <1>1
<1> QED  BY <1>2 DEF Low, p

LEMMA SignedRange ==
  ASSUME NEW v \in Int, NEW n \in Nat \ {0}
  PROVE  Signed(v, n) \in -(2^(n - 1)) .. 2^(n - 1) - 1
<1>1. n - 1 \in Nat /\ (n - 1) + 1 = n
  OBVIOUS
<1>2. 2^n = 2 * 2^(n - 1) /\ 2^(n - 1) \in Nat
  BY <1>1, PowerDoubles, PowerNat
<1>3. Low(v, n) \in 0 .. 2^n - 1
  BY LowRange
<1> QED  BY <1>2, <1>3 DEF Signed

(* The product of a number below p and q lies in the q-th part below p * q. *)
LEMMA Scaled ==
  ASSUME NEW p \in Nat, NEW q \in Nat, NEW x \in 0 .. p - 1
  PROVE  x * q \in 0 .. p * q - q
<1>1. x * q \in Nat /\ x * q <= (p - 1) * q
  OBVIOUS
<1>2. (p - 1) * q = p * q - q
  OBVIOUS
<1> QED  BY <1>1, <1>2

LEMMA ShlRange ==
  ASSUME NEW v \in Int, NEW n \in Nat, NEW a \in 0 .. n
  PROVE  Shl(v, a, n) \in 0 .. 2^n - 2^a
<1> DEFINE p == 2^(n - a)
           q == 2^a
           x == Low(v, n - a)
<1>1. p \in Nat /\ q \in Nat /\ x \in 0 .. p - 1
  BY PowerNat, LowRange
<1>2. 2^n = p * q
  <2>1. (n - a) + a = n
    OBVIOUS
  <2> QED  BY <2>1, PowerOfSum
<1> HIDE DEF p, q, x
<1>3. x * q \in 0 .. p * q - q
  BY <1>1, Scaled
<1> QED  BY <1>2, <1>3 DEF Shl, x, q

LEMMA ShlWord ==
  ASSUME NEW v \in Int, NEW n \in Nat, NEW a \in 0 .. n
  PROVE  Shl(v, a, n) \in 0 .. 2^n - 1
<1>1. Shl(v, a, n) \in 0 .. 2^n - 2^a /\ 2^a \in Nat \ {0} /\ 2^n \in Nat
  BY ShlRange, PowerPositive
<1> QED  BY <1>1

LEMMA ShrNat ==
  ASSUME NEW v \in Nat, NEW a \in Nat
  PROVE  Shr(v, a) \in 0 .. v
<1> DEFINE p == 2^a
<1>1. p \in Nat \ {0}
  BY PowerPositive
<1> HIDE DEF p
<1>2. v \div p \in 0 .. v
  BY <1>1
<1> QED  BY <1>2 DEF Shr, p

LEMMA ShrRange ==
  ASSUME NEW n \in Nat, NEW a \in 0 .. n, NEW v \in 0 .. 2^n - 1
  PROVE  Shr(v, a) \in 0 .. 2^(n - a) - 1
<1> DEFINE p == 2^(n - a)
           q == 2^a
<1>1. p \in Nat /\ q \in Nat \ {0}
  BY PowerPositive
<1>2. 2^n = p * q
  <2>1. (n - a) + a = n
    OBVIOUS
  <2> QED  BY <2>1, PowerOfSum
<1> HIDE DEF p, q
<1>3. v \in Nat /\ v < p * q
  BY <1>1, <1>2
<1>4. v \div q \in Nat /\ q * (v \div q) <= v
  BY <1>1, <1>3
<1>5. v \div q < p
  BY <1>1, <1>3, <1>4
<1> QED  BY <1>1, <1>4, <1>5 DEF Shr, p, q

LEMMA AsrRange ==
  ASSUME NEW v \in Int, NEW n \in Nat \ {0}, NEW a \in Nat
  PROVE  Asr(v, a, n) \in 0 .. 2^n - 1
<1> DEFINE p == 2^a
<1>1. p \in Nat \ {0} /\ Signed(v, n) \in Int
  BY PowerPositive, SignedRange, PowerNat
<1> HIDE DEF p
<1>2. Signed(v, n) \div p \in Int
  BY <1>1
<1> QED  BY <1>2, LowRange DEF Asr, p

LEMMA RorRange ==
  ASSUME NEW n \in Nat, NEW a \in 0 .. n, NEW v \in 0 .. 2^n - 1
  PROVE  Ror(v, a, n) \in 0 .. 2^n - 1
<1>1. Shr(v, a) \in 0 .. 2^(n - a) - 1
  BY ShrRange
<1>2. Shl(v, n - a, n) \in 0 .. 2^n - 2^(n - a)
  BY ShlRange, PowerNat
<1> QED  BY <1>1, <1>2, PowerNat DEF Ror

LEMMA BitRange ==
  ASSUME NEW v \in Nat, NEW k \in Nat
  PROVE  Bit(v, k) \in {0, 1}
<1>1. Shr(v, k) \in Nat
  BY ShrNat
<1> QED  BY <1>1 DEF Bit

LEMMA BitSplits ==
  ASSUME NEW v \in Nat, NEW k \in Nat
  PROVE  Shr(v, k) = Bit(v, k) + 2 * Shr(v, k + 1)
<1> DEFINE p == 2^k
           s == v \div p
<1>1. p \in Nat \ {0} /\ 2^(k + 1) = 2 * p
  BY PowerPositive, PowerDoubles
<1>2. s \in Nat /\ p * s <= v /\ v < p * s + p
  <2> HIDE DEF p
  <2> QED  BY <1>1
<1>3. v \div (2 * p) = s \div 2
  <2> DEFINE t == s \div 2
  <2>1. t \in Nat /\ 2 * t <= s /\ s <= 2 * t + 1
    BY <1>2
  <2> HIDE DEF t, s
  <2>2. p * (2 * t) <= p * s /\ p * s <= p * (2 * t + 1)
    BY <1>1, <1>2, <2>1
  <2>3. (2 * p) * t <= v /\ v < (2 * p) * t + 2 * p
    BY <1>1, <1>2, <2>1, <2>2
  <2> HIDE DEF p
  <2>4. v \div (2 * p) = t
    BY <1>1, <2>1, <2>3
  <2> QED  BY <2>4 DEF t
<1>4. s = (s % 2) + 2 * (s \div 2)
  <2> HIDE DEF s
  <2> QED  BY <1>2
<1> QED  BY <1>1, <1>3, <1>4 DEF Bit, Shr

-----------------------------------------------------------------------------
(* Digits. *)

IsHorner(f, d, w, n, m) == f = [k \in m .. n |-> IF k = n THEN 0 ELSE d[k] + 2^w * f[k + 1]]

LEMMA HornerFrom ==
  ASSUME NEW d, NEW w \in Nat, NEW n \in Nat, NEW m \in 0 .. n
  PROVE  \E g : IsHorner(g, d, w, n, m)
<1> DEFINE Rec(g, j1) == g = [k \in n - j1 .. n |-> IF k = n THEN 0 ELSE d[k] + 2^w * g[k + 1]]
           S == {j1 \in Nat : j1 <= n => \E g : Rec(g, j1)}
<1>1. 0 \in S
  <2> DEFINE g == [k \in n .. n |-> 0]
  <2>1. g = [k \in n - 0 .. n |-> IF k = n THEN 0 ELSE d[k] + 2^w * g[k + 1]]
    BY n - 0 = n, \A k \in n .. n : k = n
  <2> HIDE DEF g
  <2> QED  BY <2>1
<1>2. ASSUME NEW i \in S PROVE i + 1 \in S
  <2>1. SUFFICES ASSUME i + 1 <= n PROVE \E h : Rec(h, i + 1)
    OBVIOUS
  <2>2. PICK g : Rec(g, i)
    BY <2>1
  <2> DEFINE b == n - (i + 1)
             h == [k \in b .. n |-> IF k = b THEN d[k] + 2^w * g[k + 1] ELSE g[k]]
  <2>3. b \in Nat /\ b < n /\ b + 1 = n - i
    BY <2>1
  <2>4. ASSUME NEW k \in b .. n
        PROVE  h[k] = IF k = n THEN 0 ELSE d[k] + 2^w * h[k + 1]
    <3>1. CASE k = b
      <4>1. h[k] = d[k] + 2^w * g[k + 1] /\ k # n /\ k + 1 \in b .. n /\ k + 1 # b
        BY <2>3, <3>1
      <4>2. h[k + 1] = g[k + 1]
        BY <4>1
      <4> QED  BY <4>1, <4>2
    <3>2. CASE k # b
      <4>1. k \in n - i .. n /\ h[k] = g[k]
        BY <2>3, <3>2
      <4>2. g[k] = IF k = n THEN 0 ELSE d[k] + 2^w * g[k + 1]
        BY <2>2, <4>1
      <4>3. k # n => h[k + 1] = g[k + 1]
        BY <2>3, <3>2
      <4> QED  BY <4>1, <4>2, <4>3
    <3> QED  BY <3>1, <3>2
  <2>5. h = [k \in b .. n |-> h[k]]
    OBVIOUS
  <2> HIDE DEF h
  <2>6. Rec(h, i + 1)
    BY <2>4, <2>5, Zenon
  <2> QED  BY <2>6
<1>3. S = Nat
  <2>1. S \in SUBSET Nat
    OBVIOUS
  <2> HIDE DEF S
  <2> QED  BY <1>1, <1>2, <2>1, InductiveSet
<1>4. n - m \in S /\ n - m <= n /\ n - (n - m) = m
  <2> HIDE DEF S
  <2> QED  BY <1>3
<1> QED  BY <1>4 DEF IsHorner

(* The recursion of OfDigits has a solution, which gives its value.        *)
LEMMA HornerValue ==
  ASSUME NEW d, NEW w \in Nat, NEW n \in Nat
  PROVE  \E f : IsHorner(f, d, w, n, 0) /\ OfDigits(d, w, n) = f[0]
<1> DEFINE h == CHOOSE g : g = [k \in 0 .. n |-> IF k = n THEN 0 ELSE d[k] + 2^w * g[k + 1]]
<1>1. \E g : g = [k \in 0 .. n |-> IF k = n THEN 0 ELSE d[k] + 2^w * g[k + 1]]
  <2>1. 0 \in 0 .. n
    OBVIOUS
  <2> HIDE DEF h
  <2>2. \E g : IsHorner(g, d, w, n, 0)
    BY <2>1, HornerFrom
  <2> QED  BY <2>2 DEF IsHorner
<1>2. h = [k \in 0 .. n |-> IF k = n THEN 0 ELSE d[k] + 2^w * h[k + 1]]
  BY <1>1, Zenon
<1>3. OfDigits(d, w, n) = h[0]
  BY DEF OfDigits
<1> HIDE DEF h
<1> QED  BY <1>2, <1>3, Zenon DEF IsHorner

LEMMA OfDigitsInt ==
  ASSUME NEW w \in Nat, NEW n \in Nat, NEW d, \A k \in 0 .. n - 1 : d[k] \in Int
  PROVE  OfDigits(d, w, n) \in Int
<1>1. PICK f : IsHorner(f, d, w, n, 0) /\ OfDigits(d, w, n) = f[0]
  BY HornerValue
<1> DEFINE S == {j \in Nat : j <= n => f[n - j] \in Int}
<1>2. 0 \in S
  <2>1. f[n] = 0
    BY <1>1 DEF IsHorner
  <2> QED  BY <2>1
<1>3. ASSUME NEW j \in S PROVE j + 1 \in S
  <2>1. SUFFICES ASSUME j + 1 <= n PROVE f[n - (j + 1)] \in Int
    OBVIOUS
  <2> DEFINE m == n - (j + 1)
  <2>2. m \in 0 .. n - 1 /\ m + 1 = n - j /\ m \in 0 .. n /\ m # n
    BY <2>1
  <2>3. f[m] = d[m] + 2^w * f[m + 1]
    BY <1>1, <2>2 DEF IsHorner
  <2>4. f[m + 1] \in Int /\ d[m] \in Int /\ 2^w \in Int
    BY <2>1, <2>2, PowerNat
  <2> QED  BY <2>3, <2>4
<1>4. S = Nat
  <2>1. S \in SUBSET Nat
    OBVIOUS
  <2> HIDE DEF S
  <2> QED  BY <1>2, <1>3, <2>1, InductiveSet
<1>5. n \in S /\ n - n = 0
  BY <1>4
<1>6. f[0] \in Int
  BY <1>5
<1> QED  BY <1>1, <1>6

LEMMA OfDigitsRange ==
  ASSUME NEW w \in Nat, NEW n \in Nat, NEW d, \A k \in 0 .. n - 1 : d[k] \in 0 .. 2^w - 1
  PROVE  OfDigits(d, w, n) \in 0 .. 2^(w * n) - 1
<1>1. PICK f : IsHorner(f, d, w, n, 0) /\ OfDigits(d, w, n) = f[0]
  BY HornerValue
<1> DEFINE S == {j \in Nat : j <= n => f[n - j] \in 0 .. 2^(w * j) - 1}
<1>2. 0 \in S
  <2>1. f[n] = 0 /\ n - 0 = n /\ w * 0 = 0
    BY <1>1 DEF IsHorner
  <2> QED  BY <2>1, PowerPositive
<1>3. ASSUME NEW j \in S PROVE j + 1 \in S
  <2>1. SUFFICES ASSUME j + 1 <= n PROVE f[n - (j + 1)] \in 0 .. 2^(w * (j + 1)) - 1
    OBVIOUS
  <2> DEFINE m == n - (j + 1)
             p == 2^(w * j)
             q == 2^w
             x == f[m + 1]
  <2>2. m \in 0 .. n - 1 /\ m + 1 = n - j /\ m \in 0 .. n /\ m # n
    BY <2>1
  <2>3. f[m] = d[m] + q * x
    BY <1>1, <2>2 DEF IsHorner
  <2>4. w * j \in Nat
    OBVIOUS
  <2>5. p \in Nat /\ q \in Nat
    BY <2>4, PowerNat
  <2>6. x \in 0 .. p - 1 /\ d[m] \in 0 .. q - 1
    BY <2>1, <2>2
  <2>7. 2^(w * (j + 1)) = p * q
    <3>1. w * (j + 1) = w * j + w
      OBVIOUS
    <3> QED  BY <2>4, <3>1, PowerOfSum
  <2> HIDE DEF p, q, x, m
  <2>8. x * q \in 0 .. p * q - q
    BY <2>5, <2>6, Scaled
  <2>9. f[m] \in 0 .. p * q - 1
    BY <2>3, <2>5, <2>6, <2>8
  <2> QED  BY <2>7, <2>9 DEF m
<1>4. S = Nat
  <2>1. S \in SUBSET Nat
    OBVIOUS
  <2> HIDE DEF S
  <2> QED  BY <1>2, <1>3, <2>1, InductiveSet
<1>5. n \in S /\ n - n = 0
  BY <1>4
<1>6. f[0] \in 0 .. 2^(w * n) - 1
  BY <1>5
<1> QED  BY <1>1, <1>6

LEMMA Downward ==
  ASSUME NEW n \in Nat, NEW S \in SUBSET (0 .. n), n \in S,
         \A k \in 0 .. n - 1 : k + 1 \in S => k \in S
  PROVE  0 \in S
<1> DEFINE T == {j \in Nat : j <= n => n - j \in S}
<1>1. 0 \in T
  BY n - 0 = n
<1>2. ASSUME NEW j \in T PROVE j + 1 \in T
  <2>1. SUFFICES ASSUME j + 1 <= n PROVE n - (j + 1) \in S
    OBVIOUS
  <2>2. n - (j + 1) \in 0 .. n - 1 /\ (n - (j + 1)) + 1 = n - j /\ n - j \in S
    BY <2>1
  <2>3. (n - (j + 1)) + 1 \in S
    BY <2>2
  <2> QED  BY <2>2, <2>3
<1>3. T = Nat
  <2>1. T \in SUBSET Nat
    OBVIOUS
  <2> HIDE DEF T
  <2> QED  BY <1>1, <1>2, <2>1, InductiveSet
<1>4. n \in T /\ n - n = 0
  BY <1>3
<1> QED  BY <1>4

LEMMA Widths ==
  /\ ByteBits \in Nat \ {0}
  /\ HBits \in Nat \ {0} /\ HBits = 2 * ByteBits
  /\ WBits \in Nat \ {0} /\ WBits = 4 * ByteBits
  /\ XBits \in Nat \ {0} /\ XBits = 8 * ByteBits
BY ByteBitsAssumption DEF HBits, WBits, XBits

LEMMA WordNat ==
  ASSUME NEW v \in XWord
  PROVE  v \in Nat /\ v <= 2^XBits - 1
BY Widths, PowerPositive DEF XWord

(* The bits two words share are at most each of them, and no more than a   *)
(* word together with those only one of them has.                          *)
LEMMA AndBounds ==
  ASSUME NEW a \in XWord, NEW b \in XWord
  PROVE  /\ And(a, b) \in Nat
         /\ And(a, b) <= a /\ And(a, b) <= b
         /\ a + b - And(a, b) <= 2^XBits - 1
<1> DEFINE n == XBits
           d == [k \in 0 .. n - 1 |-> Bit(a, k) * Bit(b, k)]
<1>1. n \in Nat /\ a \in Nat /\ b \in Nat /\ a \in 0 .. 2^n - 1 /\ b \in 0 .. 2^n - 1
  BY Widths, WordNat DEF XWord
<1>2. PICK f : IsHorner(f, d, 1, n, 0) /\ And(a, b) = f[0]
  <2>1. And(a, b) = OfDigits(d, 1, n)
    BY DEF And
  <2>2. \E f : IsHorner(f, d, 1, n, 0) /\ OfDigits(d, 1, n) = f[0]
    <3> HIDE DEF d, n
    <3> QED  BY <1>1, HornerValue
  <2> HIDE DEF d, n
  <2> QED  BY <2>1, <2>2
<1> DEFINE Good(k) == /\ f[k] \in Nat /\ f[k] <= Shr(a, k) /\ f[k] <= Shr(b, k)
                      /\ Shr(a, k) + Shr(b, k) - f[k] <= 2^(n - k) - 1
           S == {k \in 0 .. n : Good(k)}
<1>3. n \in S
  <2>1. f[n] = 0
    <3> HIDE DEF d, n
    <3> QED  BY <1>1, <1>2 DEF IsHorner
  <2>2. \A v \in 0 .. 2^n - 1 : Shr(v, n) = 0
    <3> HIDE DEF n
    <3>1. \A v \in 0 .. 2^n - 1 : Shr(v, n) \in 0 .. 2^(n - n) - 1
      <4>1. n \in 0 .. n
        BY <1>1
      <4> QED  BY <1>1, <4>1, ShrRange, Zenon
    <3>2. n - n = 0 /\ 2^0 = 1
      BY <1>1
    <3>3. 2^(n - n) = 1
      BY <3>2
    <3> QED  BY <3>1, <3>3
  <2>3. 2^(n - n) \in Nat \ {0} /\ n \in 0 .. n
    <3> HIDE DEF n
    <3>1. n - n \in Nat
      BY <1>1
    <3> QED  BY <1>1, <3>1, PowerPositive
  <2> HIDE DEF d, n
  <2>4. Shr(a, n) = 0 /\ Shr(b, n) = 0
    BY <1>1, <2>2
  <2>5. Good(n)
    BY <2>1, <2>3, <2>4
  <2> QED  BY <2>3, <2>5
<1>4. ASSUME NEW k \in 0 .. n - 1, k + 1 \in S PROVE k \in S
  <2>1. k \in Nat /\ k \in 0 .. n /\ k # n /\ k + 1 \in 0 .. n
    BY <1>1
  <2>2. f[k] = Bit(a, k) * Bit(b, k) + 2 * f[k + 1]
    <3>1. d[k] = Bit(a, k) * Bit(b, k)
      BY <1>4
    <3>2. f[k] = d[k] + 2^1 * f[k + 1]
      <4> HIDE DEF d, n
      <4> QED  BY <1>2, <2>1 DEF IsHorner
    <3>3. 2^1 = 2
      OBVIOUS
    <3> QED  BY <3>1, <3>2, <3>3
  <2>3. /\ Bit(a, k) \in {0, 1} /\ Shr(a, k) = Bit(a, k) + 2 * Shr(a, k + 1)
        /\ Bit(b, k) \in {0, 1} /\ Shr(b, k) = Bit(b, k) + 2 * Shr(b, k + 1)
    BY <1>1, <2>1, BitRange, BitSplits
  <2>4. Shr(a, k + 1) \in Nat /\ Shr(b, k + 1) \in Nat
    <3>1. k + 1 \in Nat
      BY <2>1
    <3>2. Shr(a, k + 1) \in 0 .. a /\ Shr(b, k + 1) \in 0 .. b
      <4> HIDE DEF n
      <4> QED  BY <1>1, <3>1, ShrNat
    <3> QED  BY <3>2
  <2>5. 2^(n - k) = 2 * 2^(n - (k + 1)) /\ 2^(n - (k + 1)) \in Nat
    <3> HIDE DEF n
    <3>1. n - (k + 1) \in Nat /\ (n - (k + 1)) + 1 = n - k
      BY <1>1, <1>4
    <3> QED  BY <3>1, PowerDoubles, PowerNat
  <2>6. Good(k + 1)
    BY <1>4
  <2> DEFINE p == 2^(n - (k + 1))
             A == Shr(a, k + 1)
             B == Shr(b, k + 1)
             x == Bit(a, k)
             y == Bit(b, k)
             g == f[k + 1]
  <2>7. /\ p \in Nat /\ A \in Nat /\ B \in Nat /\ g \in Nat /\ x \in {0, 1} /\ y \in {0, 1}
        /\ g <= A /\ g <= B /\ A + B - g <= p - 1
        /\ 2^(n - k) = 2 * p
        /\ Shr(a, k) = x + 2 * A /\ Shr(b, k) = y + 2 * B /\ f[k] = x * y + 2 * g
    BY <2>2, <2>3, <2>4, <2>5, <2>6
  <2> HIDE DEF p, A, B, x, y, g
  <2>8. x * y \in {0, 1} /\ x * y <= x /\ x * y <= y /\ x + y - x * y <= 1
    BY <2>7
  <2>9. Good(k)
    <3> HIDE DEF n, d
    <3> DEFINE z == x * y
    <3>1. z \in {0, 1} /\ z <= x /\ z <= y /\ x + y - z <= 1 /\ f[k] = z + 2 * g
      BY <2>7, <2>8
    <3> HIDE DEF z
    <3> QED  BY <2>7, <3>1
  <2> QED  BY <2>1, <2>9
<1>5. 0 \in S
  <2>1. S \in SUBSET (0 .. n)
    OBVIOUS
  <2> HIDE DEF S, n
  <2> QED  BY <1>1, <1>3, <1>4, <2>1, Downward
<1>6. Shr(a, 0) = a /\ Shr(b, 0) = b
  BY <1>1 DEF Shr
<1>7. n - 0 = n
  BY <1>1
<1>8. Good(0)
  BY <1>5
<1> QED  BY <1>2, <1>6, <1>7, <1>8

LEMMA LogicWords ==
  ASSUME NEW a \in XWord, NEW b \in XWord
  PROVE  And(a, b) \in XWord /\ Or(a, b) \in XWord /\ Xor(a, b) \in XWord /\ Not(a) \in XWord
<1> DEFINE p == 2^XBits
           c == And(a, b)
<1>1. p \in Nat
  BY Widths, PowerNat
<1>2. a \in 0 .. p - 1 /\ b \in 0 .. p - 1
  BY DEF XWord
<1>3. c \in Nat /\ c <= a /\ c <= b /\ a + b - c <= p - 1
  BY AndBounds
<1> HIDE DEF p, c
<1>4. c \in 0 .. p - 1 /\ a + b - c \in 0 .. p - 1 /\ a + b - 2 * c \in 0 .. p - 1 /\ p - 1 - a \in 0 .. p - 1
  BY <1>1, <1>2, <1>3
<1> QED  BY <1>4 DEF Or, Xor, Not, XWord, p, c

Byte == 0 .. 2^ByteBits - 1

LEMMA LowWord ==
  ASSUME NEW v \in Int, NEW n \in 0 .. XBits
  PROVE  Low(v, n) \in XWord
BY Widths, LowFits DEF XWord

LEMMA WrapWord ==
  ASSUME NEW v \in Int
  PROVE  Wrap(v) \in XWord
BY Widths, LowRange DEF XWord, Wrap

LEMMA SignedInt ==
  ASSUME NEW v \in Int, NEW n \in Nat
  PROVE  Signed(v, n) \in Int
<1>1. Low(v, n) \in Int /\ 2^n \in Int
  BY LowRange, PowerNat
<1> QED  BY <1>1 DEF Signed

LEMMA SignExtendWord ==
  ASSUME NEW v \in Int, NEW n \in Nat
  PROVE  SignExtend(v, n) \in XWord
BY SignedInt, WrapWord DEF SignExtend

LEMMA DivInt ==
  ASSUME NEW v \in Int, NEW n \in Nat
  PROVE  v \div 2^n \in Int
<1> DEFINE p == 2^n
<1>1. p \in Nat \ {0}
  BY PowerPositive
<1> HIDE DEF p
<1>2. v \div p \in Int
  BY <1>1
<1> QED  BY <1>2 DEF p

LEMMA QuotientInt ==
  ASSUME NEW a \in Int, NEW b \in Int \ {0}
  PROVE  Quotient(a, b) \in Int
<1> DEFINE x == AbsOf(a)
           y == AbsOf(b)
<1>1. x \in Nat /\ y \in Nat \ {0}
  BY DEF AbsOf
<1> HIDE DEF x, y
<1>2. x \div y \in Int /\ -(x \div y) \in Int
  BY <1>1
<1> QED  BY <1>2 DEF Quotient, x, y

LEMMA ByteWord ==
  Byte \subseteq XWord
<1>1. 2^ByteBits <= 2^XBits /\ 2^ByteBits \in Nat /\ 2^XBits \in Nat
  BY Widths, PowerMonotone, PowerNat
<1> QED  BY <1>1 DEF Byte, XWord

LEMMA ToBytesType ==
  ASSUME NEW v \in Nat, NEW k \in Nat
  PROVE  ToBytes(v, k) \in [0 .. k - 1 -> Byte]
<1>1. ASSUME NEW j \in 0 .. k - 1
      PROVE  Low(Shr(v, ByteBits * j), ByteBits) \in Byte
  <2>1. ByteBits * j \in Nat /\ ByteBits \in Nat
    BY Widths
  <2>2. Shr(v, ByteBits * j) \in 0 .. v
    BY <2>1, ShrNat
  <2>3. Shr(v, ByteBits * j) \in Int
    BY <2>2
  <2> QED  BY <2>1, <2>3, LowRange DEF Byte
<1> QED  BY <1>1 DEF ToBytes

LEMMA FromBytesRange ==
  ASSUME NEW k \in Nat, NEW b \in [0 .. k - 1 -> Byte]
  PROVE  FromBytes(b) \in 0 .. 2^(ByteBits * k) - 1
<1>1. Cardinality(DOMAIN b) = k
  <2>1. CASE k = 0
    <3>1. DOMAIN b = {}
      BY <2>1
    <3> QED  BY <2>1, <3>1, FS_EmptySet
  <2>2. CASE k # 0
    <3>1. DOMAIN b = 0 .. k - 1 /\ 0 \in Int /\ k - 1 \in Int
      OBVIOUS
    <3>2. Cardinality(0 .. k - 1) = IF 0 > k - 1 THEN 0 ELSE (k - 1) - 0 + 1
      BY <3>1, FS_Interval
    <3> QED  BY <2>2, <3>1, <3>2
  <2> QED  BY <2>1, <2>2
<1>2. \A j \in 0 .. k - 1 : b[j] \in 0 .. 2^ByteBits - 1
  BY DEF Byte
<1> QED  BY <1>1, <1>2, Widths, OfDigitsRange DEF FromBytes

LEMMA FromBytesWord ==
  ASSUME NEW k \in 0 .. 8, NEW b \in [0 .. k - 1 -> Byte]
  PROVE  FromBytes(b) \in XWord
<1>1. FromBytes(b) \in 0 .. 2^(ByteBits * k) - 1
  BY FromBytesRange
<1>2. ByteBits * k \in 0 .. XBits
  BY Widths
<1>3. 2^(ByteBits * k) <= 2^XBits /\ 2^(ByteBits * k) \in Nat /\ 2^XBits \in Nat
  BY <1>2, Widths, PowerMonotone, PowerNat
<1> QED  BY <1>1, <1>3 DEF XWord

(* The low k bits of a word exchanged for those of another. *)
LEMMA FieldReplaced ==
  ASSUME NEW n \in Nat, NEW k \in 0 .. n, NEW v \in 0 .. 2^n - 1, NEW u \in Int
  PROVE  v - Low(v, k) + Low(u, k) \in 0 .. 2^n - 1
<1> DEFINE p == 2^k
           q == 2^(n - k)
           s == v \div p
           y == Low(u, k)
           z == Low(v, k)
<1>1. p \in Nat \ {0} /\ q \in Nat \ {0} /\ y \in 0 .. p - 1 /\ z \in 0 .. p - 1
  BY PowerPositive, LowRange
<1>2. 2^n = q * p
  <2>1. (n - k) + k = n
    OBVIOUS
  <2> QED  BY <2>1, PowerOfSum
<1>3. s \in 0 .. q - 1
  BY ShrRange DEF Shr
<1>4. v = p * s + z
  <2> HIDE DEF p
  <2> QED  BY <1>1, <1>2, <1>3 DEF Low, p
<1> HIDE DEF p, q, s, y, z
<1>5. s * p \in 0 .. q * p - p
  BY <1>1, <1>3, Scaled
<1>6. p * s = s * p
  BY <1>1, <1>3
<1>7. v - z + y \in 0 .. q * p - 1
  BY <1>1, <1>2, <1>4, <1>5, <1>6
<1> QED  BY <1>2, <1>7 DEF y, z

(* MOVK: h bits of a word, from bit s on, exchanged for those of another. *)
LEMMA FieldInserted ==
  ASSUME NEW v \in XWord, NEW u \in Int, NEW s \in Nat, NEW h \in Nat, s + h <= XBits
  PROVE  v - Shl(Low(Shr(v, s), h), s, XBits) + Shl(Low(u, h), s, XBits) \in XWord
<1> DEFINE n == XBits
           p == 2^s
           q == 2^(n - s)
           S == Shr(v, s)
           r == Low(v, s)
           y == S - Low(S, h) + Low(u, h)
<1>1. n \in Nat /\ s \in 0 .. n /\ n - s \in Nat /\ h \in 0 .. n - s
  BY Widths
<1>2. p \in Nat \ {0} /\ q \in Nat \ {0}
  BY <1>1, PowerPositive
<1>3. S \in 0 .. q - 1 /\ v \in 0 .. 2^n - 1
  <2>1. v \in 0 .. 2^n - 1
    BY DEF XWord
  <2> HIDE DEF n
  <2> QED  BY <1>1, <2>1, ShrRange
<1>4. y \in 0 .. q - 1
  <2> HIDE DEF S, n
  <2> QED  BY <1>1, <1>3, FieldReplaced
<1>5. 2^n = q * p
  <2>1. (n - s) + s = n
    BY <1>1
  <2> HIDE DEF n
  <2> QED  BY <1>1, <2>1, PowerOfSum
<1>6. v = p * S + r /\ r \in 0 .. p - 1
  <2>1. v \in Nat
    BY WordNat
  <2> HIDE DEF p
  <2>2. v = p * (v \div p) + (v % p) /\ v % p \in 0 .. p - 1
    BY <1>2, <2>1
  <2> QED  BY <2>2 DEF Low, Shr, p
<1>7. ASSUME NEW w \in Int
      PROVE  Shl(Low(w, h), s, n) = Low(w, h) * p /\ Low(w, h) \in Nat
  <2>1. Low(w, h) \in 0 .. q - 1
    <3> HIDE DEF n
    <3> QED  BY <1>1, LowFits
  <2>2. Low(Low(w, h), n - s) = Low(w, h)
    <3> HIDE DEF n
    <3> QED  BY <1>1, <2>1, LowOfSmall
  <2> QED  BY <1>2, <2>1, <2>2 DEF Shl
<1>8. /\ Shl(Low(S, h), s, n) = Low(S, h) * p /\ Low(S, h) \in Nat
      /\ Shl(Low(u, h), s, n) = Low(u, h) * p /\ Low(u, h) \in Nat
  <2>1. S \in Int
    BY <1>2, <1>3
  <2> HIDE DEF S, n, p
  <2> QED  BY <1>7, <2>1
<1>9. y * p \in 0 .. q * p - p
  <2> HIDE DEF y, q, p
  <2> QED  BY <1>2, <1>4, Scaled
<1>10. v - Low(S, h) * p + Low(u, h) * p = y * p + r
  <2> DEFINE l == Low(S, h)
             m == Low(u, h)
  <2>1. l \in Nat /\ m \in Nat /\ S \in Nat /\ y = S - l + m
    BY <1>3, <1>2, <1>8
  <2> HIDE DEF l, m, S, y, r, p, q, n
  <2>2. (S - l + m) * p = p * S - l * p + m * p
    BY <1>2, <2>1
  <2>3. p * S \in Int /\ l * p \in Int /\ m * p \in Int /\ r \in Int
    BY <1>2, <1>6, <2>1
  <2>4. v - l * p + m * p = y * p + r
    BY <1>6, <2>1, <2>2, <2>3
  <2> QED  BY <2>4 DEF l, m
<1> HIDE DEF n, p, q, r, y
<1>11. y * p + r \in 0 .. 2^n - 1
  BY <1>2, <1>5, <1>6, <1>9
<1>12. v - Shl(Low(S, h), s, n) + Shl(Low(u, h), s, n) \in 0 .. 2^n - 1
  BY <1>8, <1>10, <1>11
<1> QED  BY <1>12 DEF S, n, XWord

LEMMA CountWord ==
  ASSUME NEW n \in 0 .. XBits, NEW S \in SUBSET (0 .. n - 1)
  PROVE  Cardinality(S) \in 0 .. 2^n - 1 /\ Cardinality(S) \in XWord
<1>1. n \in Nat
  BY Widths
<1>2. IsFiniteSet(0 .. n - 1) /\ Cardinality(0 .. n - 1) = n
  <2>1. CASE n = 0
    <3>1. 0 .. n - 1 = {}
      BY <2>1
    <3> QED  BY <2>1, <3>1, FS_EmptySet
  <2>2. CASE n # 0
    <3>1. 0 \in Int /\ n - 1 \in Int
      BY <1>1
    <3>2. /\ IsFiniteSet(0 .. n - 1)
          /\ Cardinality(0 .. n - 1) = IF 0 > n - 1 THEN 0 ELSE (n - 1) - 0 + 1
      BY <3>1, FS_Interval
    <3> QED  BY <1>1, <2>2, <3>2
  <2> QED  BY <2>1, <2>2
<1>3. Cardinality(S) \in Nat /\ Cardinality(S) <= n
  BY <1>2, FS_Subset, FS_CardinalityType
<1>4. n < 2^n /\ 2^n <= 2^XBits /\ 2^n \in Nat /\ 2^XBits \in Nat
  BY <1>1, Widths, PowerAbove, PowerMonotone, PowerNat
<1> QED  BY <1>1, <1>3, <1>4 DEF XWord

(* A set of integers with bounds has a largest and a smallest element.     *)
LEMMA Extremes ==
  ASSUME NEW b \in Nat, NEW S \in SUBSET (-b .. b), S # {}
  PROVE  /\ Max(S) \in S /\ \A y \in S : Max(S) >= y
         /\ Min(S) \in S /\ \A y \in S : Min(S) <= y
<1>1. \E x \in S : \A y \in S : x >= y
  <2> DEFINE T == {b - x : x \in S}
  <2>1. T \in SUBSET Nat /\ T # {}
    <3>1. ASSUME NEW t \in T PROVE t \in Nat
      <4>1. PICK x \in S : t = b - x
        OBVIOUS
      <4>2. x \in Int /\ -b <= x /\ x <= b
        OBVIOUS
      <4> QED  BY <4>1, <4>2
    <3>2. PICK x \in S : TRUE
      OBVIOUS
    <3>3. b - x \in T
      BY <3>2
    <3> HIDE DEF T
    <3> QED  BY <3>1, <3>3
  <2>2. PICK m \in T : \A k \in T : m <= k
    <3> HIDE DEF T
    <3> QED  BY <2>1, LeastNatural
  <2>3. PICK x \in S : m = b - x
    OBVIOUS
  <2>4. ASSUME NEW y \in S PROVE x >= y
    <3>1. b - x <= b - y
      BY <2>2, <2>3
    <3>2. x \in Int /\ y \in Int
      OBVIOUS
    <3> QED  BY <3>1, <3>2
  <2> QED  BY <2>4
<1>2. \E x \in S : \A y \in S : x <= y
  <2> DEFINE T == {x + b : x \in S}
  <2>1. T \in SUBSET Nat /\ T # {}
    <3>1. ASSUME NEW t \in T PROVE t \in Nat
      <4>1. PICK x \in S : t = x + b
        OBVIOUS
      <4>2. x \in Int /\ -b <= x /\ x <= b
        OBVIOUS
      <4> QED  BY <4>1, <4>2
    <3>2. PICK x \in S : TRUE
      OBVIOUS
    <3>3. x + b \in T
      BY <3>2
    <3> HIDE DEF T
    <3> QED  BY <3>1, <3>3
  <2>2. PICK m \in T : \A k \in T : m <= k
    <3> HIDE DEF T
    <3> QED  BY <2>1, LeastNatural
  <2>3. PICK x \in S : m = x + b
    OBVIOUS
  <2>4. ASSUME NEW y \in S PROVE x <= y
    <3>1. x + b <= y + b
      BY <2>2, <2>3
    <3>2. x \in Int /\ y \in Int
      OBVIOUS
    <3> QED  BY <3>1, <3>2
  <2> QED  BY <2>4
<1>3. Max(S) \in S /\ \A y \in S : Max(S) >= y
  BY <1>1, Zenon DEF Max
<1>4. Min(S) \in S /\ \A y \in S : Min(S) <= y
  BY <1>2, Zenon DEF Min
<1> QED  BY <1>3, <1>4

-----------------------------------------------------------------------------
(* Flags. *)

LEMMA FlagsTyped ==
  ASSUME NEW half, NEW a, NEW b
  PROVE  /\ AddFlags(half, a, b) \in Flags /\ SubFlags(half, a, b) \in Flags
         /\ LogicFlags(half, a) \in Flags /\ ImmediateFlags(a) \in Flags
<1>1. \A h, x : TopBit(h, x) \in BOOLEAN
  BY DEF TopBit
<1>2. AddFlags(half, a, b) \in Flags
  BY <1>1 DEF AddFlags, Flags
<1>3. SubFlags(half, a, b) \in Flags
  BY <1>1 DEF SubFlags, Flags
<1>4. LogicFlags(half, a) \in Flags
  BY <1>1 DEF LogicFlags, Flags
<1>5. ImmediateFlags(a) \in Flags
  BY DEF ImmediateFlags, Flags
<1> QED  BY <1>2, <1>3, <1>4, <1>5

(* What each condition that follows a comparison reads (eval_cond).        *)
LEMMA CondReads ==
  ASSUME NEW f \in Flags
  PROVE  /\ Cond("EQ", f) <=> f.z
         /\ Cond("NE", f) <=> ~f.z
         /\ Cond("HS", f) <=> f.c
         /\ Cond("LO", f) <=> ~f.c
         /\ Cond("HI", f) <=> f.c /\ ~f.z
         /\ Cond("LS", f) <=> ~f.c \/ f.z
         /\ Cond("GE", f) <=> (f.n <=> f.v)
         /\ Cond("LT", f) <=> ~(f.n <=> f.v)
         /\ Cond("GT", f) <=> ~f.z /\ (f.n <=> f.v)
         /\ Cond("LE", f) <=> f.z \/ ~(f.n <=> f.v)
<1>1. f.n \in BOOLEAN /\ f.z \in BOOLEAN /\ f.c \in BOOLEAN /\ f.v \in BOOLEAN
  BY DEF Flags
<1>2. /\ Cond("EQ", f) = f.z
      /\ Cond("NE", f) = ~f.z
      /\ Cond("HS", f) = f.c
      /\ Cond("LO", f) = ~f.c
      /\ Cond("HI", f) = (f.c /\ ~f.z)
      /\ Cond("LS", f) = (~f.c \/ f.z)
  BY DEF Cond
<1>3. /\ Cond("GE", f) = (f.n = f.v)
      /\ Cond("LT", f) = (f.n # f.v)
      /\ Cond("GT", f) = (~f.z /\ (f.n = f.v))
      /\ Cond("LE", f) = (f.z \/ (f.n # f.v))
  BY DEF Cond
<1>4. (f.n = f.v) <=> (f.n <=> f.v)
  BY <1>1, Zenon
<1>5. QED
  BY <1>2, <1>3, <1>4, Zenon

(* After CMP, SUBS, NEGS or CCMP (the SUB | SUBS | CMP arm of step) every  *)
(* condition gives the answer it is named for, at every width.             *)
THEOREM SubtractionCompares ==
  ASSUME NEW half \in Nat \ {0},
         NEW a \in 0 .. 2 * half - 1, NEW b \in 0 .. 2 * half - 1
  PROVE  Compares(half, a, b, SubFlags(half, a, b))
<1> DEFINE f == SubFlags(half, a, b)
           res == Difference(half, a, b)
<1>1. /\ f \in Flags
      /\ f.n = TopBit(half, res)
      /\ f.z = (res = 0)
      /\ f.c = (a >= b)
      /\ f.v = ((TopBit(half, a) # TopBit(half, b)) /\ (TopBit(half, a) # TopBit(half, res)))
  BY DEF SubFlags, Flags, TopBit
<1>2. /\ f.n <=> res >= half
      /\ f.z <=> res = 0
      /\ f.c <=> a >= b
      /\ f.v <=> /\ ~(a >= half <=> b >= half)
                 /\ ~(a >= half <=> res >= half)
  <2>1. /\ TopBit(half, a) <=> a >= half
        /\ TopBit(half, b) <=> b >= half
        /\ TopBit(half, res) <=> res >= half
    BY DEF TopBit
  <2>2. /\ TopBit(half, a) \in BOOLEAN
        /\ TopBit(half, b) \in BOOLEAN
        /\ TopBit(half, res) \in BOOLEAN
    BY DEF TopBit
  <2>3. QED
    BY <1>1, <2>1, <2>2, Zenon
<1> HIDE DEF f
<1>3. res = IF a >= b THEN a - b ELSE a - b + 2 * half
  BY DEF Difference
<1> HIDE DEF res
<1> DEFINE sa == AsSigned(half, a)
           sb == AsSigned(half, b)
<1>4. /\ sa = IF a >= half THEN a - 2 * half ELSE a
      /\ sb = IF b >= half THEN b - 2 * half ELSE b
  BY DEF AsSigned, TopBit
<1> HIDE DEF sa, sb
<1>5. /\ f.z <=> a = b
      /\ f.c <=> a >= b
      /\ (f.n <=> f.v) <=> sa >= sb
      /\ a = b <=> sa = sb
  BY <1>2, <1>3, <1>4
<1>6. a \in Int /\ b \in Int /\ sa \in Int /\ sb \in Int
  BY <1>4
<1>7. /\ (Cond("EQ", f) <=> a = b)    /\ (Cond("NE", f) <=> a # b)
      /\ (Cond("HS", f) <=> a >= b)   /\ (Cond("LO", f) <=> a < b)
      /\ (Cond("HI", f) <=> a > b)    /\ (Cond("LS", f) <=> a <= b)
      /\ (Cond("GE", f) <=> sa >= sb) /\ (Cond("LT", f) <=> sa < sb)
      /\ (Cond("GT", f) <=> sa > sb)  /\ (Cond("LE", f) <=> sa <= sb)
  BY <1>1, <1>5, <1>6, CondReads
<1>8. QED
  BY <1>7 DEF Compares, f, sa, sb

(* After CMN, ADDS or CCMN, C and V say whether the unsigned and the       *)
(* signed sum fit the width, and LT whether the true sum is negative.      *)
THEOREM AdditionSums ==
  ASSUME NEW half \in Nat \ {0},
         NEW a \in 0 .. 2 * half - 1, NEW b \in 0 .. 2 * half - 1
  PROVE  Sums(half, a, b, AddFlags(half, a, b))
<1> DEFINE f == AddFlags(half, a, b)
           res == Sum(half, a, b)
<1>1. /\ f \in Flags
      /\ f.n = TopBit(half, res)
      /\ f.z = (res = 0)
      /\ f.c = (a + b >= 2 * half)
      /\ f.v = ((TopBit(half, a) = TopBit(half, b)) /\ (TopBit(half, a) # TopBit(half, res)))
  BY DEF AddFlags, Flags, TopBit
<1>2. /\ f.n <=> res >= half
      /\ f.z <=> res = 0
      /\ f.c <=> a + b >= 2 * half
      /\ f.v <=> /\ (a >= half <=> b >= half)
                 /\ ~(a >= half <=> res >= half)
  <2>1. /\ TopBit(half, a) <=> a >= half
        /\ TopBit(half, b) <=> b >= half
        /\ TopBit(half, res) <=> res >= half
    BY DEF TopBit
  <2>2. /\ TopBit(half, a) \in BOOLEAN
        /\ TopBit(half, b) \in BOOLEAN
        /\ TopBit(half, res) \in BOOLEAN
    BY DEF TopBit
  <2>3. QED
    BY <1>1, <2>1, <2>2, Zenon
<1> HIDE DEF f
<1>3. res = IF a + b < 2 * half THEN a + b ELSE a + b - 2 * half
  BY DEF Sum
<1> HIDE DEF res
<1> DEFINE s == AsSigned(half, a) + AsSigned(half, b)
<1>4. s = (IF a >= half THEN a - 2 * half ELSE a) + (IF b >= half THEN b - 2 * half ELSE b)
  BY DEF AsSigned, TopBit
<1> HIDE DEF s
<1>5. /\ f.z <=> a + b \in {0, 2 * half}
      /\ f.c <=> a + b > 2 * half - 1
      /\ f.v <=> ~(s \in -half .. half - 1)
      /\ ~(f.n <=> f.v) <=> s < 0
  BY <1>2, <1>3, <1>4
<1>6. Cond("LT", f) <=> ~(f.n <=> f.v)
  BY <1>1, CondReads
<1>7. QED
  BY <1>5, <1>6 DEF Sums, f, s

=============================================================================
