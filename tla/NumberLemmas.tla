----------------------------- MODULE NumberLemmas -----------------------------
(***************************************************************************)
(* What the proofs need of natural numbers: the least element of a set,    *)
(* induction in terms of sets, powers of two, that both ways in which this *)
(* repository probes a table of 2^k groups, by an odd stride and by        *)
(* triangular numbers, come to every group, sums over a set, the bits of a *)
(* number, and which places of a ring keys take that probe one place after *)
(* the other.                                                              *)
(***************************************************************************)
EXTENDS Integers, FiniteSets, FiniteSetsExt, Functions, FiniteSetTheorems, WellFoundedInduction, TLAPS

------------------------------------------------------------------------------
(* Induction *)

\* The usual order of the natural numbers as a relation.
Before == {pair \in Nat \X Nat : pair[1] < pair[2]}

\* It has no infinite descent.
LEMMA BeforeIsWellFounded == IsWellFoundedOn(Before, Nat)
<1>1. OpToRel(<, Nat) = Before
  BY DEF OpToRel, Before
<1> QED BY <1>1, NatLessThanWellFounded

\* A set of natural numbers that is not empty has a least element.
LEMMA LeastElement ==
  ASSUME NEW T, T \subseteq Nat, T # {}
  PROVE  \E x \in T : \A y \in T : x <= y
<1>1. PICK x \in T : \A y \in T : ~(<<y, x>> \in Before)
  BY BeforeIsWellFounded, WFMin
<1>2. ASSUME NEW y \in T PROVE x <= y
  <2>1. x \in Nat /\ y \in Nat
    OBVIOUS
  <2>2. y < x => <<y, x>> \in Before
    BY <2>1 DEF Before
  <2> QED BY <1>1, <2>1, <2>2
<1> QED BY <1>2

\* The least element of a set of natural numbers, as Min returns it.
LEMMA MinIs ==
  ASSUME NEW S, S \subseteq Nat, S # {}
  PROVE  Min(S) \in S /\ \A y \in S : Min(S) <= y
<1>1. \E x \in S : \A y \in S : x <= y
  BY LeastElement
<1> QED BY <1>1 DEF Min

\* A set that has 0, and with each number the next, has all natural numbers.
LEMMA SetInduction ==
  ASSUME NEW S, 0 \in S, \A n \in Nat : n \in S => n + 1 \in S
  PROVE  Nat \subseteq S
<1> SUFFICES ASSUME Nat \ S # {} PROVE FALSE
  OBVIOUS
<1>1. PICK x \in Nat \ S : \A y \in Nat \ S : x <= y
  BY LeastElement
<1>2. x # 0 /\ x - 1 \in Nat /\ x - 1 \in S
  BY <1>1
<1> QED BY <1>1, <1>2

\* The numbers up to n are n.
LEMMA IntervalSize ==
  ASSUME NEW n \in Nat
  PROVE  IsFiniteSet(1 .. n) /\ Cardinality(1 .. n) = n
<1>1. 1 \in Int /\ n \in Int
  OBVIOUS
<1>2. IsFiniteSet(1 .. n) /\ Cardinality(1 .. n) = IF 1 > n THEN 0 ELSE n - 1 + 1
  BY <1>1, FS_Interval
<1> QED BY <1>2

------------------------------------------------------------------------------
(* Powers of two *)

\* Every power of two is the number of subsets of a set of that size.
LEMMA PowerCounts ==
  ASSUME NEW k \in Nat
  PROVE  /\ IsFiniteSet(SUBSET (1 .. k)) /\ Cardinality(SUBSET (1 .. k)) = 2 ^ k
         /\ 2 ^ k \in Nat
<1>1. IsFiniteSet(1 .. k) /\ Cardinality(1 .. k) = k
  BY IntervalSize
<1>2. IsFiniteSet(SUBSET (1 .. k)) /\ Cardinality(SUBSET (1 .. k)) = 2 ^ k
  BY <1>1, FS_SUBSET
<1> QED BY <1>2, FS_CardinalityType

\* The next power is twice as large: each subset may have the new element or not.
LEMMA PowerStep ==
  ASSUME NEW k \in Nat
  PROVE  2 ^ (k + 1) = 2 * 2 ^ k
<1> DEFINE old == SUBSET (1 .. k)
           new == {T \cup {k + 1} : T \in old}
           f == [T \in old |-> T \cup {k + 1}]
<1>1. SUBSET (1 .. k + 1) = old \cup new
  <2>1. ASSUME NEW T \in SUBSET (1 .. k + 1) PROVE T \in old \cup new
    <3>1. CASE k + 1 \in T
      <4>1. T \ {k + 1} \in old /\ T = (T \ {k + 1}) \cup {k + 1}
        BY <3>1
      <4> QED BY <4>1
    <3>2. CASE k + 1 \notin T
      BY <3>2
    <3> QED BY <3>1, <3>2
  <2>2. \A T \in old \cup new : T \in SUBSET (1 .. k + 1)
    OBVIOUS
  <2> QED BY <2>1, <2>2
<1>2. old \cap new = {}
  <2>1. \A T \in old : k + 1 \notin T
    OBVIOUS
  <2>2. \A T \in new : k + 1 \in T
    OBVIOUS
  <2> QED BY <2>1, <2>2
<1>3. f \in Bijection(old, new)
  <2>1. f \in [old -> new]
    OBVIOUS
  <2>2. ASSUME NEW S \in old, NEW T \in old, f[S] = f[T] PROVE S = T
    <3>1. k + 1 \notin S /\ k + 1 \notin T /\ S \cup {k + 1} = T \cup {k + 1}
      BY <2>2
    <3> QED BY <3>1
  <2>3. \A U \in new : \E T \in old : f[T] = U
    OBVIOUS
  <2> QED BY <2>1, <2>2, <2>3 DEF Bijection, Injection, Surjection, IsInjective
<1>4. IsFiniteSet(old) /\ Cardinality(old) = 2 ^ k /\ 2 ^ k \in Nat
  BY PowerCounts
<1>5. IsFiniteSet(new) /\ Cardinality(new) = 2 ^ k
  BY <1>3, <1>4, FS_Bijection DEF ExistsBijection
<1>6. Cardinality(old \cup new) = 2 ^ k + 2 ^ k
  <2> HIDE DEF old, new
  <2>1. Cardinality(old \cap new) = 0
    BY <1>2, FS_EmptySet
  <2>2. Cardinality(old \cup new)
          = Cardinality(old) + Cardinality(new) - Cardinality(old \cap new)
    BY <1>4, <1>5, FS_Union
  <2> QED BY <1>4, <1>5, <2>1, <2>2
<1>7. k + 1 \in Nat
  OBVIOUS
<1>8. Cardinality(SUBSET (1 .. k + 1)) = 2 ^ (k + 1)
  BY <1>7, PowerCounts
<1>9. 2 ^ (k + 1) = 2 ^ k + 2 ^ k
  BY <1>1, <1>6, <1>8
<1> QED BY <1>4, <1>9

\* A power of two is a positive number.
LEMMA PowerType == \A k \in Nat : 2 ^ k \in Nat \ {0}
<1> DEFINE S == {k \in Nat : 2 ^ k \in Nat \ {0}}
<1>1. 0 \in S
  <2>1. 2 ^ 0 = 1
    OBVIOUS
  <2> QED BY <2>1
<1>2. \A n \in Nat : n \in S => n + 1 \in S
  BY PowerStep
<1>3. Nat \subseteq S
  <2> HIDE DEF S
  <2> QED BY <1>1, <1>2, SetInduction
<1> QED BY <1>3

\* Powers grow with their exponent.
LEMMA PowerMonotone ==
  ASSUME NEW m \in Nat, NEW n \in Nat, m <= n
  PROVE  2 ^ m <= 2 ^ n
<1> DEFINE S == {d \in Nat : 2 ^ m <= 2 ^ (m + d)}
<1>1. 0 \in S
  BY PowerType
<1>2. ASSUME NEW d \in Nat, d \in S PROVE d + 1 \in S
  <2>1. m + d \in Nat /\ m + (d + 1) = (m + d) + 1
    OBVIOUS
  <2>2. 2 ^ (m + (d + 1)) = 2 * 2 ^ (m + d)
    BY <2>1, PowerStep
  <2> QED BY <1>2, <2>1, <2>2, PowerType
<1>3. Nat \subseteq S
  <2> HIDE DEF S
  <2> QED BY <1>1, <1>2, SetInduction
<1>4. n - m \in Nat /\ m + (n - m) = n
  OBVIOUS
<1> QED BY <1>3, <1>4

\* Exponents add up.
LEMMA PowerSum ==
  ASSUME NEW m \in Nat, NEW n \in Nat
  PROVE  2 ^ (m + n) = 2 ^ m * 2 ^ n
<1> DEFINE S == {d \in Nat : 2 ^ (m + d) = 2 ^ m * 2 ^ d}
<1>1. 0 \in S
  <2>1. 2 ^ 0 = 1 /\ 2 ^ (m + 0) = 2 ^ m
    OBVIOUS
  <2> QED BY <2>1, PowerType
<1>2. ASSUME NEW d \in Nat, d \in S PROVE d + 1 \in S
  <2>1. m + d \in Nat /\ m + (d + 1) = (m + d) + 1
    OBVIOUS
  <2>2. 2 ^ (m + (d + 1)) = 2 * (2 ^ m * 2 ^ d) /\ 2 ^ (d + 1) = 2 * 2 ^ d
    BY <1>2, <2>1, PowerStep
  <2>3. 2 ^ m \in Nat /\ 2 ^ d \in Nat
    BY PowerType
  <2>4. 2 * (2 ^ m * 2 ^ d) = 2 ^ m * (2 * 2 ^ d)
    BY <2>3
  <2> QED BY <2>2, <2>4
<1>3. Nat \subseteq S
  <2> HIDE DEF S
  <2> QED BY <1>1, <1>2, SetInduction
<1> QED BY <1>3

------------------------------------------------------------------------------
(* Remainders *)

\* A remainder is below its divisor, and what it is next to it.
LEMMA Modulo ==
  ASSUME NEW a \in Int, NEW b \in Nat \ {0}
  PROVE  /\ a % b \in 0 .. b - 1
         /\ a \in 0 .. b - 1 => a % b = a
         /\ a \in -b .. -1 => a % b = a + b
OBVIOUS

\* A number is its remainder and a multiple of the divisor.
LEMMA Quotient ==
  ASSUME NEW a \in Int, NEW b \in Nat \ {0}
  PROVE  a \div b \in Int /\ a % b \in 0 .. b - 1 /\ a = b * (a \div b) + (a % b)
OBVIOUS

\* There is one such remainder.
LEMMA Remainder ==
  ASSUME NEW b \in Nat \ {0}, NEW q \in Int, NEW r \in 0 .. b - 1
  PROVE  (b * q + r) % b = r
OBVIOUS

\* A remainder may be taken before or after a sum.
LEMMA ModuloSum ==
  ASSUME NEW a \in Int, NEW k \in Int, NEW b \in Nat \ {0}
  PROVE  ((a % b) + k) % b = (a + k) % b
<1> DEFINE x == (a % b) + k
           q == x \div b
<1>1. a \div b \in Int /\ a = b * (a \div b) + (a % b) /\ x \in Int
  BY Quotient
<1>2. q \in Int /\ x = b * q + (x % b) /\ x % b \in 0 .. b - 1
  BY <1>1, Quotient
<1>3. a + k = b * ((a \div b) + q) + (x % b)
  BY <1>1, <1>2
<1>4. (a \div b) + q \in Int
  BY <1>1, <1>2
<1>5. (b * ((a \div b) + q) + (x % b)) % b = x % b
  <2> HIDE DEF x, q
  <2> QED BY <1>2, <1>4, Remainder
<1> QED BY <1>3, <1>5

\* A shift there and back, in a ring of b places.
LEMMA ShiftThere ==
  ASSUME NEW a \in Int, NEW x \in Int, NEW b \in Nat \ {0}
  PROVE  (((a + x) % b) - a) % b = x % b
<1>1. a + x \in Int /\ -a \in Int /\ (a + x) + (-a) = x
  OBVIOUS
<1>2. (((a + x) % b) + (-a)) % b = ((a + x) + (-a)) % b
  BY <1>1, ModuloSum
<1>3. (a + x) % b \in Int
  BY <1>1, Modulo
<1>4. ((a + x) % b) + (-a) = ((a + x) % b) - a
  BY <1>3
<1> QED BY <1>1, <1>2, <1>4

LEMMA ShiftBack ==
  ASSUME NEW a \in Int, NEW b \in Nat \ {0}, NEW i \in 0 .. b - 1
  PROVE  (a + ((i - a) % b)) % b = i
<1>1. i - a \in Int /\ (i - a) + a = i
  OBVIOUS
<1>2. (((i - a) % b) + a) % b = ((i - a) + a) % b
  BY <1>1, ModuloSum
<1>3. (i - a) % b \in Int
  BY <1>1, Modulo
<1>4. ((i - a) % b) + a = a + ((i - a) % b)
  BY <1>3
<1>5. i % b = i
  BY Modulo
<1> QED BY <1>1, <1>2, <1>4, <1>5

\* A remainder may be taken before or after a difference.
LEMMA ModuloDifference ==
  ASSUME NEW x \in Int, NEW a \in Int, NEW b \in Nat \ {0}
  PROVE  (x - (a % b)) % b = (x - a) % b
<1> DEFINE q == a \div b
           e == a % b
           y == x - a
           r == y \div b
           f == y % b
<1>1. q \in Int /\ e \in Int /\ a = b * q + e /\ y \in Int
  BY Quotient
<1>2. r \in Int /\ f \in 0 .. b - 1 /\ y = b * r + f
  <2> HIDE DEF y
  <2> QED BY <1>1, Quotient
<1>3. x - e = b * (q + r) + f
  <2> DEFINE u == b * q
             v == b * r
  <2>1. u \in Int /\ v \in Int /\ a = u + e /\ y = v + f /\ y = x - a
    BY <1>1, <1>2
  <2>2. b * (q + r) = u + v
    <3> HIDE DEF q, r
    <3> QED BY <1>1, <1>2
  <2> HIDE DEF u, v, e, f, y, q, r
  <2> QED BY <1>1, <1>2, <2>1, <2>2
<1>4. (b * (q + r) + f) % b = f
  <2> HIDE DEF q, r, f
  <2>1. q + r \in Int
    BY <1>1, <1>2
  <2> QED BY <1>2, <2>1, Remainder
<1> QED BY <1>3, <1>4

\* x is a multiple of m.
Multiple(x, m) == \E q \in Int : x = m * q

\* Numbers of the same remainder differ by a multiple.
LEMMA SameRemainder ==
  ASSUME NEW a \in Int, NEW b \in Int, NEW m \in Nat \ {0}, a % m = b % m
  PROVE  Multiple(a - b, m)
<1> DEFINE q == a \div m
           r == b \div m
           s == a % m
<1>1. q \in Int /\ r \in Int /\ s \in Int /\ a = m * q + s /\ b = m * r + s
  BY Quotient
<1> HIDE DEF q, r, s
<1>2. m * (q - r) = m * q - m * r /\ m * q \in Int /\ m * r \in Int
  BY <1>1
<1>3. a - b = m * (q - r)
  <2> DEFINE x == m * q
             y == m * r
  <2>1. x \in Int /\ y \in Int /\ a = x + s /\ b = y + s /\ m * (q - r) = x - y
    BY <1>1, <1>2
  <2> HIDE DEF x, y
  <2> QED BY <1>1, <2>1
<1>4. q - r \in Int
  BY <1>1
<1> QED BY <1>3, <1>4 DEF Multiple

\* Two numbers below m that differ by a multiple of m are the same.
LEMMA CloseMultiple ==
  ASSUME NEW m \in Nat \ {0}, NEW x \in Int, Multiple(x, m), -m < x, x < m
  PROVE  x = 0
<1>1. PICK q \in Int : x = m * q
  BY DEF Multiple
<1>2. CASE q >= 1
  <2>1. m * q >= m
    BY <1>2
  <2> QED BY <1>1, <2>1
<1>3. CASE q <= -1
  <2>1. m * q <= -m
    BY <1>3
  <2> QED BY <1>1, <2>1
<1>4. CASE q = 0
  BY <1>1, <1>4
<1> QED BY <1>2, <1>3, <1>4

\* An odd factor adds nothing to the powers of two that divide a number.
LEMMA OddCancels ==
  ASSUME NEW b \in Int
  PROVE  \A k \in Nat : \A d \in Int : Multiple(d * (2 * b + 1), 2 ^ k) => Multiple(d, 2 ^ k)
<1> DEFINE S == {k \in Nat : \A d \in Int : Multiple(d * (2 * b + 1), 2 ^ k) => Multiple(d, 2 ^ k)}
<1>1. 0 \in S
  <2>1. 2 ^ 0 = 1
    OBVIOUS
  <2>2. \A d \in Int : Multiple(d, 2 ^ 0)
    BY <2>1 DEF Multiple
  <2> QED BY <2>2
<1>2. ASSUME NEW k \in Nat, k \in S PROVE k + 1 \in S
  <2> DEFINE p == 2 ^ k
  <2>1. p \in Nat \ {0} /\ 2 ^ (k + 1) = 2 * p
    BY PowerType, PowerStep
  <2> HIDE DEF p
  <2>2. SUFFICES ASSUME NEW d \in Int, Multiple(d * (2 * b + 1), 2 * p) PROVE Multiple(d, 2 * p)
    BY <2>1
  <2>3. PICK q \in Int : d * (2 * b + 1) = 2 * p * q
    BY <2>1, <2>2 DEF Multiple
  <2>4. PICK e \in Int : d = 2 * e
    <3> DEFINE x == d * b
               y == p * q
    <3>1. x \in Int /\ y \in Int /\ d * (2 * b + 1) = 2 * x + d /\ 2 * p * q = 2 * y
      BY <2>1
    <3> HIDE DEF x, y
    <3>2. d = 2 * (y - x) /\ y - x \in Int
      BY <2>3, <3>1
    <3> QED BY <3>2
  <2>5. e * (2 * b + 1) = p * q
    <3> DEFINE x == e * (2 * b + 1)
               y == p * q
    <3>1. x \in Int /\ y \in Int /\ d * (2 * b + 1) = 2 * x /\ 2 * p * q = 2 * y
      BY <2>1, <2>4
    <3> HIDE DEF x, y
    <3>2. x = y
      BY <2>3, <3>1
    <3> QED BY <3>2 DEF x, y
  <2>6. Multiple(e * (2 * b + 1), 2 ^ k)
    BY <2>5 DEF Multiple, p
  <2>7. PICK r \in Int : e = p * r
    BY <1>2, <2>6 DEF Multiple, p
  <2>8. d = (2 * p) * r
    BY <2>1, <2>4, <2>7
  <2> QED BY <2>8 DEF Multiple
<1>3. Nat \subseteq S
  <2> HIDE DEF S
  <2> QED BY <1>1, <1>2, SetInduction
<1> QED BY <1>3

\* A map of 0 .. m - 1 into itself that takes no value twice takes every value.
LEMMA TakesEvery ==
  ASSUME NEW m \in Nat \ {0}, NEW f \in [0 .. m - 1 -> 0 .. m - 1],
         \A x, y \in 0 .. m - 1 : f[x] = f[y] => x = y,
         NEW v \in 0 .. m - 1
  PROVE  \E x \in 0 .. m - 1 : f[x] = v
<1> DEFINE D == 0 .. m - 1
<1>1. IsFiniteSet(D) /\ Cardinality(D) = Cardinality(D)
  <2>1. 0 \in Int /\ m - 1 \in Int
    OBVIOUS
  <2> QED BY <2>1, FS_Interval
<1>2. f \in Injection(D, D)
  BY DEF Injection, IsInjective
<1> HIDE DEF D
<1>3. f \in Surjection(D, D)
  BY <1>1, <1>2, FS_Injection
<1> QED BY <1>3 DEF Surjection, D

\* Double hashing: an odd stride comes to each of 2^k groups, and to none twice
\* before it has.
LEMMA OddStride ==
  ASSUME NEW k \in Nat, NEW b \in Nat
  PROVE  /\ \A x, y \in 0 .. 2 ^ k - 1 :
               (x * (2 * b + 1)) % 2 ^ k = (y * (2 * b + 1)) % 2 ^ k => x = y
         /\ \A v \in 0 .. 2 ^ k - 1 : \E x \in 0 .. 2 ^ k - 1 : (x * (2 * b + 1)) % 2 ^ k = v
<1> DEFINE m == 2 ^ k
           a == 2 * b + 1
           f == [x \in 0 .. m - 1 |-> (x * a) % m]
<1>1. m \in Nat \ {0} /\ a \in Nat
  BY PowerType
<1>2. ASSUME NEW x \in 0 .. m - 1, NEW y \in 0 .. m - 1, (x * a) % m = (y * a) % m
      PROVE  x = y
  <2>1. x * a \in Int /\ y * a \in Int /\ x \in Int /\ y \in Int /\ x - y \in Int
    BY <1>1
  <2>2. Multiple(x * a - y * a, m)
    <3> HIDE DEF a, m
    <3> QED BY <1>1, <1>2, <2>1, SameRemainder
  <2>3. x * a - y * a = (x - y) * a
    BY <1>1, <2>1
  <2>4. Multiple(x - y, m)
    <3>1. \A d \in Int : Multiple(d * (2 * b + 1), 2 ^ k) => Multiple(d, 2 ^ k)
      BY OddCancels
    <3>2. Multiple((x - y) * (2 * b + 1), 2 ^ k)
      BY <2>2, <2>3
    <3> QED BY <2>1, <3>1, <3>2
  <2>5. -m < x - y /\ x - y < m
    BY <1>1
  <2>6. x - y = 0
    <3> HIDE DEF m
    <3> QED BY <1>1, <2>1, <2>4, <2>5, CloseMultiple
  <2> QED BY <2>1, <2>6
<1>3. f \in [0 .. m - 1 -> 0 .. m - 1]
  <2>1. ASSUME NEW x \in 0 .. m - 1 PROVE (x * a) % m \in 0 .. m - 1
    <3>1. x * a \in Int
      BY <1>1
    <3> HIDE DEF a, m
    <3> QED BY <1>1, <3>1, Modulo
  <2> QED BY <2>1
<1>4. ASSUME NEW v \in 0 .. m - 1 PROVE \E x \in 0 .. m - 1 : f[x] = v
  <2>1. \A x, y \in 0 .. m - 1 : f[x] = f[y] => x = y
    BY <1>2
  <2> HIDE DEF f, m
  <2> QED BY <1>1, <1>3, <2>1, TakesEvery
<1> QED BY <1>2, <1>4


\* The n-th triangular number.
Triangle(n) == (n * (n + 1)) \div 2

\* One of two numbers in a row is even.
LEMMA TriangleType ==
  ASSUME NEW n \in Nat
  PROVE  Triangle(n) \in Nat /\ 2 * Triangle(n) = n * (n + 1)
<1>1. PICK q \in Nat : n = 2 * q \/ n = 2 * q + 1
  <2>1. n = 2 * (n \div 2) \/ n = 2 * (n \div 2) + 1
    OBVIOUS
  <2>2. n \div 2 \in Nat
    OBVIOUS
  <2> QED BY <2>1, <2>2
<1>2. PICK y \in Nat : n * (n + 1) = 2 * y
  <2>1. CASE n = 2 * q
    <3>1. n * (n + 1) = 2 * (q * (n + 1)) /\ q * (n + 1) \in Nat
      BY <2>1
    <3> QED BY <3>1
  <2>2. CASE n = 2 * q + 1
    <3>1. n * (n + 1) = 2 * ((q + 1) * n) /\ (q + 1) * n \in Nat
      <4>1. n + 1 = 2 * (q + 1)
        BY <2>2
      <4>2. n * (n + 1) = n * (2 * (q + 1))
        BY <4>1
      <4>3. n * (2 * (q + 1)) = 2 * ((q + 1) * n)
        OBVIOUS
      <4>4. (q + 1) * n \in Nat
        OBVIOUS
      <4> QED BY <4>2, <4>3, <4>4
    <3> QED BY <3>1
  <2> QED BY <1>1, <2>1, <2>2
<1>3. (2 * y) \div 2 = y
  OBVIOUS
<1> QED BY <1>2, <1>3 DEF Triangle

\* Triangular probing comes to each of 2^k groups, and to none twice before it has:
\* of the two factors of the distance one is odd, and the other is too small.
LEMMA TriangleStride ==
  ASSUME NEW k \in Nat
  PROVE  /\ \A x, y \in 0 .. 2 ^ k - 1 : Triangle(x) % 2 ^ k = Triangle(y) % 2 ^ k => x = y
         /\ \A v \in 0 .. 2 ^ k - 1 : \E x \in 0 .. 2 ^ k - 1 : Triangle(x) % 2 ^ k = v
<1> DEFINE m == 2 ^ k
           f == [x \in 0 .. m - 1 |-> Triangle(x) % m]
<1>1. m \in Nat \ {0} /\ 2 ^ (k + 1) = 2 * m /\ k + 1 \in Nat
  BY PowerType, PowerStep
<1> HIDE DEF m
<1>2. ASSUME NEW x \in 0 .. m - 1, NEW y \in 0 .. m - 1, Triangle(x) % m = Triangle(y) % m
      PROVE  x = y
  <2>1. /\ x \in Nat /\ y \in Nat /\ Triangle(x) \in Nat /\ Triangle(y) \in Nat
        /\ 2 * Triangle(x) = x * (x + 1) /\ 2 * Triangle(y) = y * (y + 1)
    BY <1>1, TriangleType
  <2>2. PICK q \in Int : Triangle(x) - Triangle(y) = m * q
    <3>1. Triangle(x) \in Int /\ Triangle(y) \in Int
      BY <2>1
    <3>2. Multiple(Triangle(x) - Triangle(y), m)
      BY <1>1, <1>2, <3>1, SameRemainder
    <3> QED BY <3>2 DEF Multiple
  <2>3. (x - y) * (x + y + 1) = (2 * m) * q
    <3>1. (x - y) * (x + y + 1) = x * (x + 1) - y * (y + 1)
      BY <2>1
    <3>2. x * (x + 1) - y * (y + 1) = 2 * (Triangle(x) - Triangle(y))
      BY <2>1
    <3>3. 2 * (m * q) = (2 * m) * q
      BY <1>1
    <3> QED BY <2>2, <3>1, <3>2, <3>3
  <2>4. Multiple((x - y) * (x + y + 1), 2 ^ (k + 1))
    BY <1>1, <2>3 DEF Multiple
  <2>5. CASE \E b \in Int : x - y = 2 * b + 1
    <3>1. PICK b \in Int : x - y = 2 * b + 1
      BY <2>5
    <3>2. (x - y) * (x + y + 1) = (x + y + 1) * (2 * b + 1) /\ x + y + 1 \in Int
      BY <2>1, <3>1
    <3>3. Multiple((x + y + 1) * (2 * b + 1), 2 ^ (k + 1))
      BY <2>4, <3>2
    <3>4. \A d \in Int : Multiple(d * (2 * b + 1), 2 ^ (k + 1)) => Multiple(d, 2 ^ (k + 1))
      BY <1>1, OddCancels
    <3>5. Multiple(x + y + 1, 2 * m)
      BY <1>1, <3>2, <3>3, <3>4
    <3>6. x + y + 1 = 0
      <4>1. 2 * m \in Nat \ {0} /\ -(2 * m) < x + y + 1 /\ x + y + 1 < 2 * m
        BY <1>1
      <4> QED BY <3>2, <3>5, <4>1, CloseMultiple
    <3> QED BY <2>1, <3>6
  <2>6. CASE \E b \in Int : x - y = 2 * b
    <3>1. PICK b \in Int : x - y = 2 * b
      BY <2>6
    <3>2. x + y + 1 = 2 * (b + y) + 1 /\ b + y \in Int /\ x - y \in Int
      BY <2>1, <3>1
    <3>3. Multiple((x - y) * (2 * (b + y) + 1), 2 ^ (k + 1))
      BY <2>4, <3>2
    <3>4. \A d \in Int : Multiple(d * (2 * (b + y) + 1), 2 ^ (k + 1)) => Multiple(d, 2 ^ (k + 1))
      BY <1>1, <3>2, OddCancels
    <3>5. Multiple(x - y, 2 * m)
      BY <1>1, <3>2, <3>3, <3>4
    <3>6. x - y = 0
      <4>1. 2 * m \in Nat \ {0} /\ -(2 * m) < x - y /\ x - y < 2 * m
        BY <1>1
      <4> QED BY <3>2, <3>5, <4>1, CloseMultiple
    <3> QED BY <2>1, <3>6
  <2>7. \E b \in Int : x - y = 2 * b \/ x - y = 2 * b + 1
    <3>1. ASSUME NEW z \in Int PROVE \E b \in Int : z = 2 * b \/ z = 2 * b + 1
      <4>1. z \div 2 \in Int /\ (z = 2 * (z \div 2) \/ z = 2 * (z \div 2) + 1)
        OBVIOUS
      <4> QED BY <4>1
    <3>2. x - y \in Int
      BY <2>1
    <3> QED BY <3>1, <3>2
  <2> QED BY <2>5, <2>6, <2>7
<1>3. f \in [0 .. m - 1 -> 0 .. m - 1]
  <2>1. ASSUME NEW x \in 0 .. m - 1 PROVE Triangle(x) % m \in 0 .. m - 1
    <3>1. x \in Nat
      BY <1>1
    <3>2. Triangle(x) \in Int
      BY <3>1, TriangleType
    <3> QED BY <1>1, <3>2, Modulo
  <2> QED BY <2>1
<1>4. ASSUME NEW v \in 0 .. m - 1 PROVE \E x \in 0 .. m - 1 : f[x] = v
  <2>1. \A x, y \in 0 .. m - 1 : f[x] = f[y] => x = y
    BY <1>2
  <2> HIDE DEF f
  <2> QED BY <1>1, <1>3, <2>1, TakesEvery
<1> QED BY <1>2, <1>4 DEF m

------------------------------------------------------------------------------
(* Sums over a set *)

\* The element that a fold over s takes next.
Picked(s) == CHOOSE x \in s : TRUE

\* `total` adds up the parts of the elements of every subset of S, as MapThenSumSet does.
SumsUp(total, part, S) ==
  total = [s \in SUBSET S |-> IF s = {} THEN 0 ELSE part[Picked(s)] + total[s \ {Picked(s)}]]

\* Without the element taken, a set has one less.
LEMMA PickedIs ==
  ASSUME NEW S, IsFiniteSet(S), NEW s \in SUBSET S
  PROVE  /\ IsFiniteSet(s) /\ Cardinality(s) \in Nat /\ Cardinality(s) <= Cardinality(S)
         /\ Cardinality(s) = 0 <=> s = {}
         /\ s # {} => /\ Picked(s) \in s /\ s \ {Picked(s)} \in SUBSET S
                      /\ Cardinality(s \ {Picked(s)}) = Cardinality(s) - 1
<1>1. IsFiniteSet(s) /\ Cardinality(s) <= Cardinality(S)
  BY FS_Subset
<1>2. Cardinality(s) \in Nat /\ (Cardinality(s) = 0 <=> s = {})
  BY <1>1, FS_CardinalityType, FS_EmptySet
<1>3. s # {} => Picked(s) \in s
  BY DEF Picked
<1>4. s # {} => Cardinality(s \ {Picked(s)}) = Cardinality(s) - 1
  BY <1>1, <1>3, FS_RemoveElement
<1> QED BY <1>1, <1>2, <1>3, <1>4

\* Such a function exists.
LEMMA SumExists ==
  ASSUME NEW S, IsFiniteSet(S), NEW part
  PROVE  \E total : SumsUp(total, part, S)
<1> DEFINE Small(n) == {s \in SUBSET S : Cardinality(s) <= n}
           Upto(f, n) == f = [s \in Small(n) |->
                                IF s = {} THEN 0 ELSE part[Picked(s)] + f[s \ {Picked(s)}]]
           N == {n \in Nat : \E f : Upto(f, n)}
<1>1. 0 \in N
  <2> DEFINE f == [s \in Small(0) |-> 0]
             g == [s \in Small(0) |-> IF s = {} THEN 0 ELSE part[Picked(s)] + f[s \ {Picked(s)}]]
  <2>1. ASSUME NEW s \in Small(0) PROVE s = {}
    <3>1. s \in SUBSET S /\ Cardinality(s) <= 0
      OBVIOUS
    <3>2. Cardinality(s) \in Nat /\ (Cardinality(s) = 0 <=> s = {})
      BY <3>1, PickedIs
    <3> QED BY <3>1, <3>2
  <2>2. g = f
    BY <2>1
  <2>3. \E h : Upto(h, 0)
    BY <2>2
  <2> QED BY <2>3
<1>2. ASSUME NEW n \in Nat, n \in N PROVE n + 1 \in N
  <2>1. PICK f : Upto(f, n)
    BY <1>2
  <2> DEFINE g == [s \in Small(n + 1) |->
                     IF s \in Small(n) THEN f[s] ELSE part[Picked(s)] + f[s \ {Picked(s)}]]
  <2>2. ASSUME NEW s \in Small(n + 1)
        PROVE  g[s] = IF s = {} THEN 0 ELSE part[Picked(s)] + g[s \ {Picked(s)}]
    <3>1. CASE s = {}
      <4>1. s \in Small(n)
        BY <3>1, FS_EmptySet
      <4>2. f[s] = 0
        BY <2>1, <3>1, <4>1
      <4> QED BY <3>1, <4>1, <4>2
    <3>2. CASE s # {}
      <4> DEFINE r == s \ {Picked(s)}
      <4>1. r \in Small(n) /\ r \in Small(n + 1)
        <5>1. Cardinality(s) \in Nat /\ r \in SUBSET S /\ Cardinality(r) = Cardinality(s) - 1
          BY <3>2, PickedIs
        <5> QED BY <5>1
      <4>2. g[r] = f[r]
        BY <4>1
      <4>3. s \in Small(n) => f[s] = part[Picked(s)] + f[r]
        BY <2>1, <3>2
      <4>4. g[s] = part[Picked(s)] + f[r]
        BY <4>3
      <4> HIDE DEF g
      <4> QED BY <3>2, <4>2, <4>4
    <3> QED BY <3>1, <3>2
  <2>3. g = [s \in Small(n + 1) |-> g[s]]
    OBVIOUS
  <2> HIDE DEF g
  <2>4. Upto(g, n + 1)
    BY <2>2, <2>3
  <2>5. \E h : Upto(h, n + 1)
    BY <2>4
  <2> HIDE DEF Upto
  <2> QED BY <2>5
<1>3. Nat \subseteq N
  <2> HIDE DEF N
  <2> QED BY <1>1, <1>2, SetInduction
<1>4. PICK f : Upto(f, Cardinality(S))
  BY <1>3, FS_CardinalityType
<1>5. Small(Cardinality(S)) = SUBSET S
  BY PickedIs
<1> QED BY <1>4, <1>5 DEF SumsUp

\* The parts count the elements of H by a key.
CountedByKey(part, S, key, H) ==
  /\ \A h \in H : key[h] \in S
  /\ \A c \in S : part[c] = Cardinality({h \in H : key[h] = c})

\* If they do, the sum counts H.
LEMMA SumOfParts ==
  ASSUME NEW S, IsFiniteSet(S), NEW H, IsFiniteSet(H), NEW key, NEW part,
         CountedByKey(part, S, key, H), NEW total, SumsUp(total, part, S)
  PROVE  total[S] = Cardinality(H)
<1> DEFINE Of(s) == {h \in H : key[h] \in s}
           N == {n \in Nat : \A s \in SUBSET S : Cardinality(s) = n => total[s] = Cardinality(Of(s))}
<1>1. 0 \in N
  <2> SUFFICES ASSUME NEW s \in SUBSET S, Cardinality(s) = 0 PROVE total[s] = Cardinality(Of(s))
    OBVIOUS
  <2>1. s = {}
    BY PickedIs
  <2>2. total[s] = 0
    BY <2>1 DEF SumsUp
  <2>3. Of(s) = {}
    BY <2>1
  <2> QED BY <2>2, <2>3, FS_EmptySet
<1>2. ASSUME NEW n \in Nat, n \in N PROVE n + 1 \in N
  <2> SUFFICES ASSUME NEW s \in SUBSET S, Cardinality(s) = n + 1 PROVE total[s] = Cardinality(Of(s))
    OBVIOUS
  <2> DEFINE c == Picked(s)
             r == s \ {c}
             here == {h \in H : key[h] = c}
  <2>1. s # {} /\ c \in s /\ r \in SUBSET S /\ Cardinality(r) = n
    BY PickedIs
  <2>2. total[s] = part[c] + total[r]
    BY <2>1 DEF SumsUp
  <2>3. total[r] = Cardinality(Of(r))
    BY <1>2, <2>1
  <2>4. part[c] = Cardinality(here)
    BY <2>1 DEF CountedByKey
  <2>5. Of(s) = here \cup Of(r) /\ here \cap Of(r) = {}
    BY <2>1
  <2>6. IsFiniteSet(here) /\ IsFiniteSet(Of(r)) /\ Cardinality(here) \in Nat /\ Cardinality(Of(r)) \in Nat
    <3>1. here \in SUBSET H /\ Of(r) \in SUBSET H
      OBVIOUS
    <3> HIDE DEF here, Of
    <3> QED BY <3>1, FS_Subset, FS_CardinalityType
  <2> DEFINE rest == Of(r)
             all == Of(s)
  <2> HIDE DEF here, rest, all, c, r
  <2>7. Cardinality(all) = Cardinality(here) + Cardinality(rest)
    <3>1. Cardinality(here \cup rest) = Cardinality(here) + Cardinality(rest) - Cardinality(here \cap rest)
      BY <2>6, FS_Union DEF rest
    <3>2. Cardinality(here \cap rest) = 0 /\ all = here \cup rest
      BY <2>5, FS_EmptySet DEF rest, all
    <3> QED BY <2>6, <3>1, <3>2 DEF rest
  <2> QED BY <2>2, <2>3, <2>4, <2>6, <2>7 DEF rest, all
<1>3. Nat \subseteq N
  <2> HIDE DEF N
  <2> QED BY <1>1, <1>2, SetInduction
<1>4. total[S] = Cardinality(Of(S))
  BY <1>3, FS_CardinalityType
<1>5. Of(S) = H
  BY DEF CountedByKey
<1> QED BY <1>4, <1>5

\* If the parts are the sizes of sets, the sum is no less than the size of their union, and no
\* more than the largest of them as many times.
LEMMA SumOfSizes ==
  ASSUME NEW S, IsFiniteSet(S), NEW sets, NEW part, NEW most \in Nat,
         \A c \in S : /\ IsFiniteSet(sets[c]) /\ part[c] = Cardinality(sets[c]) /\ part[c] <= most,
         NEW total, SumsUp(total, part, S)
  PROVE  /\ IsFiniteSet(UNION {sets[c] : c \in S})
         /\ total[S] \in Nat /\ Cardinality(UNION {sets[c] : c \in S}) <= total[S]
         /\ total[S] <= Cardinality(S) * most
<1> DEFINE Of(s) == UNION {sets[c] : c \in s}
           Right(s) == /\ IsFiniteSet(Of(s)) /\ total[s] \in Nat /\ Cardinality(Of(s)) <= total[s]
                       /\ total[s] <= Cardinality(s) * most
           N == {n \in Nat : \A s \in SUBSET S : Cardinality(s) = n => Right(s)}
<1>1. 0 \in N
  <2> SUFFICES ASSUME NEW s \in SUBSET S, Cardinality(s) = 0 PROVE Right(s)
    <3> HIDE DEF Right
    <3> QED OBVIOUS
  <2>1. s = {}
    BY PickedIs
  <2>2. total[s] = 0
    BY <2>1 DEF SumsUp
  <2>3. Of(s) = {}
    BY <2>1
  <2>4. IsFiniteSet(Of(s)) /\ Cardinality(Of(s)) = 0
    BY <2>3, FS_EmptySet
  <2> HIDE DEF Of
  <2> QED BY <2>2, <2>4
<1>2. ASSUME NEW n \in Nat, n \in N PROVE n + 1 \in N
  <2> SUFFICES ASSUME NEW s \in SUBSET S, Cardinality(s) = n + 1 PROVE Right(s)
    <3> HIDE DEF Right
    <3> QED OBVIOUS
  <2> DEFINE c == Picked(s)
             r == s \ {c}
             here == sets[c]
  <2>1. s # {} /\ c \in s /\ r \in SUBSET S /\ Cardinality(r) = n
    BY PickedIs
  <2>2. total[s] = part[c] + total[r]
    BY <2>1 DEF SumsUp
  <2>3. Right(r)
    BY <1>2, <2>1
  <2>4. part[c] = Cardinality(here) /\ IsFiniteSet(here) /\ part[c] <= most
    BY <2>1
  <2>5. Of(s) = here \cup Of(r)
    BY <2>1
  <2> DEFINE rest == Of(r)
             all == Of(s)
  <2>6. /\ IsFiniteSet(rest) /\ total[r] \in Nat /\ Cardinality(rest) <= total[r]
        /\ total[r] <= n * most /\ all = here \cup rest
    BY <2>1, <2>3, <2>5
  <2> HIDE DEF here, rest, all, c, r
  <2>7. /\ IsFiniteSet(all) /\ IsFiniteSet(here \cap rest) /\ Cardinality(here) \in Nat
        /\ Cardinality(rest) \in Nat /\ Cardinality(all) \in Nat
        /\ Cardinality(all) = Cardinality(here) + Cardinality(rest) - Cardinality(here \cap rest)
    <3>1. /\ IsFiniteSet(here \cup rest)
          /\ Cardinality(here \cup rest)
               = Cardinality(here) + Cardinality(rest) - Cardinality(here \cap rest)
      BY <2>4, <2>6, FS_Union
    <3>2. here \cap rest \in SUBSET here
      OBVIOUS
    <3>3. IsFiniteSet(here \cap rest)
      BY <2>4, <3>2, FS_Subset
    <3> QED BY <2>4, <2>6, <3>1, <3>3, FS_CardinalityType
  <2>8. Cardinality(here \cap rest) \in Nat
    BY <2>7, FS_CardinalityType
  <2>9. total[s] \in Nat /\ Cardinality(all) <= total[s]
    BY <2>2, <2>4, <2>6, <2>7, <2>8
  <2>10. total[s] <= Cardinality(s) * most
    <3>1. Cardinality(s) * most = n * most + most /\ n * most \in Nat
      OBVIOUS
    <3> QED BY <2>2, <2>4, <2>6, <2>7, <3>1
  <2> QED BY <2>7, <2>9, <2>10 DEF all
<1>3. Nat \subseteq N
  <2> HIDE DEF N
  <2> QED BY <1>1, <1>2, SetInduction
<1>4. Right(S)
  BY <1>3, FS_CardinalityType
<1> QED BY <1>4
------------------------------------------------------------------------------
(* Quotients and bits *)

\* There is one such quotient.
LEMMA QuotientIs ==
  ASSUME NEW b \in Nat \ {0}, NEW q \in Int, NEW r \in 0 .. b - 1
  PROVE  (b * q + r) \div b = q
OBVIOUS

\* Dividing by a product.
LEMMA DivideTwice ==
  ASSUME NEW x \in Nat, NEW a \in Nat \ {0}, NEW b \in Nat \ {0}
  PROVE  (x \div a) \div b = x \div (a * b)
<1> DEFINE q == x \div a
           r == x % a
           s == q \div b
           u == q % b
<1>1. q \in Int /\ r \in 0..a - 1 /\ x = a * q + r
  BY Quotient
<1>2. q \in Nat
  OBVIOUS
<1> HIDE DEF q, r
<1>3. s \in Int /\ u \in 0..b - 1 /\ q = b * s + u
  BY <1>1, Quotient
<1> HIDE DEF s, u
<1>4. a * q = a * (b * s) + a * u
  BY <1>1, <1>3
<1>5. a * (b * s) = (a * b) * s /\ a * b \in Nat \ {0}
  <2>1. \A i, j, k \in Int : i * (j * k) = (i * j) * k
    OBVIOUS
  <2>2. \A i, j \in Nat \ {0} : i * j \in Nat \ {0}
    OBVIOUS
  <2> QED BY <1>3, <2>1, <2>2
<1>6. a * u + r \in 0..a * b - 1
  <2>1. a * u <= a * (b - 1)
    <3>1. a * (b - 1 - u) >= 0 /\ a * (b - 1) = a * u + a * (b - 1 - u)
      <4>1. \A i, j \in Nat : i * j >= 0
        OBVIOUS
      <4>2. b - 1 - u \in Nat
        BY <1>3
      <4> QED BY <1>3, <4>1, <4>2
    <3>2. a * (b - 1) \in Int /\ a * u \in Int /\ a * (b - 1 - u) \in Int
      BY <1>3
    <3> QED BY <3>1, <3>2
  <2>2. a * (b - 1) = a * b - a /\ a * u \in Nat
    BY <1>3
  <2> QED BY <1>1, <1>5, <2>1, <2>2
<1> DEFINE m == a * b
           w == a * u + r
<1>7. m \in Nat \ {0} /\ w \in 0..m - 1
  BY <1>5, <1>6
<1>8. x = m * s + w
  <2>1. a * q \in Int /\ a * (b * s) \in Int /\ a * u \in Int
    BY <1>1, <1>3
  <2> DEFINE aq == a * q
             abs == a * (b * s)
             au == a * u
  <2> HIDE DEF aq, abs, au
  <2>2. x = aq + r /\ aq = abs + au /\ aq \in Int /\ abs \in Int /\ au \in Int
    BY <1>1, <1>4, <2>1 DEF aq, abs, au
  <2>3. x = abs + (au + r)
    BY <1>1, <2>2
  <2> QED BY <1>5, <2>3 DEF abs, au
<1> HIDE DEF m, w
<1>9. x \div m = s
  BY <1>3, <1>7, <1>8, QuotientIs
<1> QED BY <1>9 DEF m, s, q

\* A remainder of a multiple leaves the remainder as it is, and the low bits of the quotient.
LEMMA RestOfRest ==
  ASSUME NEW x \in Nat, NEW b \in Nat \ {0}, NEW m \in Nat \ {0}
  PROVE  /\ (x % (b * m)) % b = x % b
         /\ \E k \in Int : x \div b = m * k + ((x % (b * m)) \div b)
<1> DEFINE c == b * m
           q == x \div c
           r == x % c
           v == r \div b
           w == r % b
<1>1. c \in Nat \ {0}
  <2>1. \A i, j \in Nat \ {0} : i * j \in Nat \ {0}
    OBVIOUS
  <2> QED BY <2>1
<1> HIDE DEF c
<1>2. q \in Int /\ r \in 0..c - 1 /\ x = c * q + r
  BY <1>1, Quotient
<1> HIDE DEF q, r
<1>3. v \in Int /\ w \in 0..b - 1 /\ r = b * v + w
  BY <1>1, <1>2, Quotient
<1> HIDE DEF v, w
<1>4. c * q = b * (m * q) /\ m * q \in Int
  <2>1. \A i, j, k \in Int : (i * j) * k = i * (j * k) /\ j * k \in Int
    OBVIOUS
  <2> QED BY <1>2, <2>1 DEF c
<1> DEFINE z == m * q
<1>5. z \in Int /\ x = b * (z + v) + w
  <2>1. b * (z + v) = b * z + b * v
    <3>1. \A i, j, k \in Int : i * (j + k) = i * j + i * k
      OBVIOUS
    <3> HIDE DEF z
    <3> QED BY <1>3, <1>4, <3>1 DEF z
  <2> DEFINE bz == b * z
             bv == b * v
             bs == b * (z + v)
  <2>2. bz \in Int /\ bv \in Int /\ bs \in Int
    BY <1>3, <1>4
  <2> HIDE DEF z, bz, bv, bs
  <2>3. x = bz + (bv + w) /\ bs = bz + bv
    BY <1>2, <1>3, <1>4, <2>1 DEF z, bz, bv, bs
  <2>4. x = bs + w
    BY <1>3, <2>2, <2>3
  <2> QED BY <1>4, <2>4 DEF bs, z
<1> HIDE DEF z
<1>6. z + v \in Int
  BY <1>3, <1>5
<1>7. x % b = w /\ x \div b = z + v
  BY <1>3, <1>5, <1>6, Remainder, QuotientIs
<1>8. (x % (b * m)) % b = x % b
  BY <1>7 DEF w, r, c
<1>9. x \div b = m * q + ((x % (b * m)) \div b)
  BY <1>7 DEF z, v, r, c
<1> QED BY <1>2, <1>8, <1>9

\* The bits of a remainder of a power of two.
LEMMA BitOfRest ==
  ASSUME NEW number \in Nat, NEW m \in Nat, NEW n \in 0..m - 1
  PROVE  ((number % 2 ^ m) \div 2 ^ n) % 2 = (number \div 2 ^ n) % 2
<1> DEFINE e == m - n - 1
           a == 2 ^ e
           b == 2 ^ n
<1>1. e \in Nat /\ n \in Nat /\ n + (e + 1) = m /\ e + 1 \in Nat
  OBVIOUS
<1>2. a \in Nat \ {0} /\ b \in Nat \ {0}
  BY <1>1, PowerType
<1>3. 2 ^ m = b * (2 * a)
  <2>1. 2 ^ (e + 1) = 2 * a
    BY <1>1, PowerStep
  <2>2. 2 ^ (n + (e + 1)) = 2 ^ n * 2 ^ (e + 1)
    BY <1>1, PowerSum
  <2> QED BY <1>1, <2>1, <2>2
<1> HIDE DEF e, a, b
<1> DEFINE c == 2 * a
<1>4. c \in Nat \ {0}
  BY <1>2
<1> HIDE DEF c
<1>5. PICK k \in Int : number \div b = c * k + ((number % (b * c)) \div b)
  BY <1>2, <1>4, RestOfRest
<1> DEFINE v == (number % (b * c)) \div b
           j == a * k
<1>6. v \in Int
  <2>1. b * c \in Nat \ {0}
    <3>1. \A i, l \in Nat \ {0} : i * l \in Nat \ {0}
      OBVIOUS
    <3> QED BY <1>2, <1>4, <3>1
  <2>2. number % (b * c) \in Int
    <3> DEFINE d == b * c
    <3>1. d \in Nat \ {0}
      BY <2>1
    <3> HIDE DEF d
    <3>2. number % d \in Int
      BY <3>1, Quotient
    <3> QED BY <3>2 DEF d
  <2> DEFINE u == number % (b * c)
  <2> HIDE DEF u
  <2>3. u \div b \in Int
    BY <1>2, <2>2, Quotient DEF u
  <2> QED BY <2>3 DEF u
<1>7. number \div b = 2 * j + v /\ j \in Int
  <2>1. \A x, y \in Int : (2 * x) * y = 2 * (x * y) /\ x * y \in Int
    OBVIOUS
  <2> QED BY <1>2, <1>5, <2>1 DEF c
<1> HIDE DEF v, j
<1>8. (2 * j + v) % 2 = v % 2
  BY <1>6, <1>7
<1> QED BY <1>3, <1>7, <1>8 DEF v, b, c

\* Dividing by two, and then by a power of two.
LEMMA HalvedFirst ==
  ASSUME NEW number \in Nat, NEW n \in Nat
  PROVE  (number \div 2) \div 2 ^ n = number \div 2 ^ (n + 1)
<1>1. 2 ^ n \in Nat \ {0} /\ 2 ^ (n + 1) = 2 * 2 ^ n
  BY PowerType, PowerStep
<1>2. 2 \in Nat \ {0}
  OBVIOUS
<1>3. (number \div 2) \div 2 ^ n = number \div (2 * 2 ^ n)
  BY <1>1, <1>2, DivideTwice
<1> QED BY <1>1, <1>3
------------------------------------------------------------------------------
(* Probing for one place after the other, in a ring of places *)

\* Distance up from place a to place b in a ring of size places.
Distance(a, b, size) == IF a <= b THEN b - a ELSE b - a + size

\* Where keys are placed: no two at one place, and all places from the one where a
\* key starts, start[k], up to its own are taken.
Probed(place, keys, start, size) ==
  /\ place \in [keys -> 0..size - 1]
  /\ \A k \in keys : start[k] \in 0..size - 1
  /\ \A k, l \in keys : place[k] = place[l] => k = l
  /\ \A k \in keys : \A p \in 0..size - 1 :
       Distance(start[k], p, size) <= Distance(start[k], place[k], size) => \E l \in keys : place[l] = p

\* The places taken without a gap up to place p.
Run(place, keys, p, size) ==
  {q \in 0..size - 1 : \A r \in 0..size - 1 :
     Distance(r, p, size) <= Distance(q, p, size) => \E k \in keys : place[k] = r}

\* What is mapped one to one into a finite set has no more elements.
LEMMA OneToOne ==
  ASSUME NEW S, NEW T, IsFiniteSet(T), NEW f, f = [x \in S |-> f[x]], \A x \in S : f[x] \in T,
         \A x, y \in S : f[x] = f[y] => x = y
  PROVE  IsFiniteSet(S) /\ Cardinality(S) <= Cardinality(T)
<1>1. f \in [S -> T]
  OBVIOUS
<1>2. f \in Injection(S, T)
  BY <1>1 DEF Injection, IsInjective
<1> QED BY <1>2, FS_Injection

\* Arithmetic of distances.
LEMMA DistancesAre ==
  ASSUME NEW size \in Nat \ {0}, NEW a \in 0..size - 1, NEW b \in 0..size - 1, NEW p \in 0..size - 1
  PROVE  /\ Distance(a, b, size) \in 0..size - 1
         /\ Distance(a, b, size) = 0 <=> a = b
         /\ Distance(a, p, size) = Distance(b, p, size) => a = b
         /\ Distance(a, b, size) <= Distance(a, p, size) => Distance(b, p, size) = Distance(a, p, size) - Distance(a, b, size)
         /\ Distance(b, p, size) <= Distance(a, p, size) => Distance(a, b, size) = Distance(a, p, size) - Distance(b, p, size)
BY DEF Distance

\* Keys in a run started in it, and the run has as many places as keys.
LEMMA RunStarts ==
  ASSUME NEW size \in Nat \ {0}, NEW keys, NEW start, NEW place,
         Probed(place, keys, start, size), NEW p \in 0..size - 1,
         NEW k \in keys, place[k] \in Run(place, keys, p, size)
  PROVE  start[k] \in Run(place, keys, p, size)
<1> DEFINE s == start[k]
           c == place[k]
<1>1. s \in 0..size - 1 /\ c \in 0..size - 1
  BY DEF Probed
<1> SUFFICES ASSUME NEW r \in 0..size - 1, Distance(r, p, size) <= Distance(s, p, size)
             PROVE  \E l \in keys : place[l] = r
  BY <1>1 DEF Run
<1>2. CASE Distance(r, p, size) <= Distance(c, p, size)
  BY <1>2 DEF Run
<1>3. CASE ~(Distance(r, p, size) <= Distance(c, p, size))
  <2> HIDE DEF s, c
  <2>1. Distance(c, p, size) < Distance(r, p, size)
    BY <1>1, <1>3, DistancesAre
  <2>2. Distance(s, r, size) <= Distance(s, c, size)
    BY <1>1, <2>1 DEF Distance
  <2> QED BY <2>2 DEF Probed, s, c
<1> QED BY <1>2, <1>3

\* More keys take all places that fewer take, whatever the order they came in.
LEMMA ProbedMonotone ==
  ASSUME NEW size \in Nat \ {0}, NEW more, IsFiniteSet(more), NEW start,
         NEW keys \in SUBSET more, NEW place, NEW other,
         Probed(place, keys, start, size), Probed(other, more, start, size),
         NEW k \in keys
  PROVE  \E l \in more : other[l] = place[k]
<1> SUFFICES ASSUME \A l \in more : other[l] # place[k] PROVE FALSE
  OBVIOUS
<1> DEFINE p == place[k]
           R == Run(place, keys, p, size)
           X == {x \in keys : place[x] \in R}
<1>1. p \in 0..size - 1
  BY DEF Probed
<1>2. R \subseteq 0..size - 1 /\ IsFiniteSet(R) /\ Cardinality(R) \in Nat
  <2>1. R \in SUBSET (0..size - 1)
    BY DEF Run
  <2>2. IsFiniteSet(0..size - 1)
    BY FS_Interval
  <2> QED BY <2>1, <2>2, FS_Subset, FS_CardinalityType
<1> HIDE DEF p
<1>3. p \in R
  <2>1. \A r \in 0..size - 1 : Distance(r, p, size) <= Distance(p, p, size) => r = p
    BY <1>1 DEF Distance
  <2> QED BY <1>1, <2>1 DEF Run, p
<1>4. \A q \in R : \E x \in X : place[x] = q
  <2> SUFFICES ASSUME NEW q \in R PROVE \E x \in keys : place[x] = q
    OBVIOUS
  <2>1. q \in 0..size - 1 /\ Distance(q, p, size) <= Distance(q, p, size)
    BY <1>1, <1>2 DEF Distance
  <2> QED BY <2>1 DEF Run
<1>5. ASSUME NEW x \in X PROVE other[x] \in R \ {p}
  <2> DEFINE s == start[x]
             d == other[x]
  <2>1. x \in more /\ s \in 0..size - 1 /\ d \in 0..size - 1 /\ d # p
    BY DEF Probed, p
  <2>2. start[x] \in R
    BY <1>1, RunStarts
  <2>3. ~(Distance(s, p, size) <= Distance(s, d, size))
    BY <1>1, <2>1 DEF Probed, p
  <2>4. Distance(d, p, size) <= Distance(s, p, size)
    <3> HIDE DEF s, d
    <3> QED BY <1>1, <2>1, <2>3 DEF Distance
  <2>5. d \in R
    <3>1. \A r \in 0..size - 1 : Distance(r, p, size) <= Distance(d, p, size) => Distance(r, p, size) <= Distance(s, p, size)
      <4> HIDE DEF s, d
      <4> QED BY <1>1, <2>1, <2>4 DEF Distance
    <3> QED BY <2>1, <2>2, <3>1 DEF Run
  <2> QED BY <2>1, <2>5
<1> HIDE DEF R
<1> DEFINE f == [q \in R |-> other[CHOOSE x \in X : place[x] = q]]
<1>6. ASSUME NEW q \in R PROVE \E x \in X : place[x] = q /\ f[q] = other[x]
  BY <1>4
<1>7. ASSUME NEW a \in R, NEW b \in R, f[a] = f[b] PROVE a = b
  <2>1. PICK x \in X : place[x] = a /\ f[a] = other[x]
    BY <1>6
  <2>2. PICK y \in X : place[y] = b /\ f[b] = other[y]
    BY <1>6
  <2>3. x = y
    BY <1>7, <2>1, <2>2 DEF Probed
  <2> QED BY <2>1, <2>2, <2>3
<1>8. ASSUME NEW q \in R PROVE f[q] \in R \ {p}
  BY <1>5, <1>6
<1>9. f = [q \in R |-> f[q]]
  OBVIOUS
<1> HIDE DEF f
<1>10. IsFiniteSet(R \ {p}) /\ Cardinality(R \ {p}) = Cardinality(R) - 1
  BY <1>2, <1>3, FS_RemoveElement
<1>11. Cardinality(R) <= Cardinality(R \ {p})
  BY <1>7, <1>8, <1>9, <1>10, OneToOne
<1> QED BY <1>2, <1>10, <1>11

\* The place that is d places below place p.
Below(p, d, size) == IF d <= p THEN p - d ELSE p - d + size

LEMMA BelowIs ==
  ASSUME NEW size \in Nat \ {0}, NEW p \in 0..size - 1, NEW d \in 0..size - 1
  PROVE  Below(p, d, size) \in 0..size - 1 /\ Distance(Below(p, d, size), p, size) = d
BY DEF Below, Distance

\* How many keys of a set start at most so far below a place.
StartingIn(keys, start, p, m, size) == {k \in keys : Distance(start[k], p, size) < m}

\* No stretch of lanes places or more has more keys than places.
Sparse(keys, start, lanes, size) ==
  \A p \in 0..size - 1, m \in lanes..size : Cardinality(StartingIn(keys, start, p, m, size)) <= m

\* A place that is free among the first a key looks at.
Free(q, place, keys, s, lanes, size) ==
  q \in 0..size - 1 /\ Distance(s, q, size) < lanes /\ \A k \in keys : place[k] # q

\* Then a key that is not placed yet finds a place among the first it looks at.
LEMMA RoomLeft ==
  ASSUME NEW size \in Nat \ {0}, NEW lanes \in 1..size, NEW all, IsFiniteSet(all), NEW start,
         \A k \in all : start[k] \in 0..size - 1, Sparse(all, start, lanes, size),
         NEW keys \in SUBSET all, NEW place, Probed(place, keys, start, size), NEW x \in all, x \notin keys
  PROVE  \E q : Free(q, place, keys, start[x], lanes, size)
<1> SUFFICES ASSUME \A q \in 0..size - 1 : Distance(start[x], q, size) < lanes => \E k \in keys : place[k] = q
             PROVE  FALSE
  BY DEF Free
<1> DEFINE s == start[x]
           p == IF s + (lanes - 1) < size THEN s + (lanes - 1) ELSE s + (lanes - 1) - size
           Gaps == {d \in Nat : d >= size \/ \A k \in keys : place[k] # Below(p, d, size)}
<1>1. s \in 0..size - 1 /\ p \in 0..size - 1 /\ Distance(s, p, size) = lanes - 1
  BY DEF Distance
<1>2. ASSUME NEW d \in 0..lanes - 1 PROVE \E k \in keys : place[k] = Below(p, d, size)
  <2>1. Below(p, d, size) \in 0..size - 1 /\ Distance(s, Below(p, d, size), size) < lanes
    BY <1>1 DEF Below, Distance
  <2> QED BY <2>1
<1> HIDE DEF p, s
<1>3. PICK m \in Gaps : \A d \in Gaps : m <= d
  <2>1. size \in Gaps /\ Gaps \subseteq Nat
    OBVIOUS
  <2> HIDE DEF Gaps
  <2> QED BY <2>1, LeastElement
<1>4. m \in lanes..size
  <2>1. size \in Gaps
    OBVIOUS
  <2>2. m \in Nat /\ m <= size
    BY <1>3, <2>1
  <2>3. ~(m < lanes)
    BY <1>2, <1>3, <2>2
  <2> QED BY <2>2, <2>3
<1>5. ASSUME NEW d \in 0..m - 1 PROVE \E k \in keys : place[k] = Below(p, d, size)
  <2>1. d \notin Gaps /\ d \in Nat /\ d < size
    BY <1>3, <1>4
  <2> QED BY <2>1
<1> HIDE DEF Gaps
<1> DEFINE T == StartingIn(all, start, p, m, size)
           at(d) == CHOOSE k \in keys : place[k] = Below(p, d, size)
           f == [d \in 0..m |-> IF d = m THEN x ELSE at(d)]
<1>6. ASSUME NEW d \in 0..m - 1 PROVE at(d) \in keys /\ place[at(d)] = Below(p, d, size) /\ f[d] = at(d)
  BY <1>4, <1>5
<1>7. \A d \in 0..m : f[d] \in T
  <2> SUFFICES ASSUME NEW d \in 0..m PROVE f[d] \in T
    OBVIOUS
  <2>1. CASE d = m
    <3>1. f[d] = x /\ Distance(s, p, size) < m
      BY <1>1, <1>4, <2>1
    <3> QED BY <3>1 DEF StartingIn, s
  <2>2. CASE d # m
    <3>1. d \in 0..m - 1 /\ d \in 0..size - 1
      BY <1>4, <2>2
    <3>2. f[d] \in keys /\ place[f[d]] = Below(p, d, size)
      BY <1>6, <3>1
    <3>3. Below(p, d, size) \in 0..size - 1 /\ Distance(Below(p, d, size), p, size) = d
      BY <1>1, <3>1, BelowIs
    <3> DEFINE k == f[d]
    <3>4. k \in keys /\ place[k] = Below(p, d, size) /\ start[k] \in 0..size - 1
      BY <3>2
    <3> HIDE DEF f
    <3>5. ~(Distance(start[k], p, size) >= m)
      <4> SUFFICES ASSUME Distance(start[k], p, size) >= m PROVE FALSE
        OBVIOUS
      <4>1. m \in 0..size - 1
        BY <1>1, <1>4, <3>4, DistancesAre
      <4> DEFINE gap == Below(p, m, size)
      <4>2. gap \in 0..size - 1 /\ Distance(gap, p, size) = m
        BY <1>1, <4>1, BelowIs
      <4>3. \A l \in keys : place[l] # gap
        BY <1>3, <4>1 DEF Gaps
      <4> HIDE DEF gap
      <4>4. Distance(start[k], gap, size) <= Distance(start[k], place[k], size)
        BY <1>1, <3>1, <3>3, <3>4, <4>2 DEF Distance
      <4> QED BY <3>4, <4>2, <4>3, <4>4 DEF Probed
    <3>6. Distance(start[k], p, size) < m
      BY <1>1, <1>4, <3>4, <3>5, DistancesAre
    <3> QED BY <3>4, <3>6 DEF StartingIn
  <2> QED BY <2>1, <2>2
<1>8. \A d, e \in 0..m : f[d] = f[e] => d = e
  <2>1. ASSUME NEW d \in 0..m, NEW e \in 0..m, f[d] = f[e], d < e PROVE FALSE
    <3>1. d \in 0..m - 1 /\ d \in 0..size - 1
      BY <1>4, <2>1
    <3>2. f[d] \in keys /\ place[f[d]] = Below(p, d, size)
      BY <1>6, <3>1
    <3>3. CASE e = m
      BY <2>1, <3>2, <3>3
    <3>4. CASE e # m
      <4>1. e \in 0..m - 1 /\ e \in 0..size - 1
        BY <1>4, <3>4
      <4>2. place[f[e]] = Below(p, e, size)
        BY <1>6, <4>1
      <4>3. Below(p, d, size) = Below(p, e, size)
        BY <2>1, <3>2, <4>2
      <4>4. d = e
        BY <1>1, <3>1, <4>1, <4>3, BelowIs
      <4> QED BY <2>1, <4>4
    <3> QED BY <3>3, <3>4
  <2> HIDE DEF f
  <2>2. \A d, e \in 0..m : d < e \/ e < d \/ d = e
    BY <1>4
  <2> QED BY <2>1, <2>2
<1>9. f = [d \in 0..m |-> f[d]]
  OBVIOUS
<1> HIDE DEF f
<1>10. IsFiniteSet(T) /\ Cardinality(T) \in Nat /\ Cardinality(T) <= m
  <2>1. T \in SUBSET all
    BY DEF StartingIn
  <2>2. IsFiniteSet(T) /\ Cardinality(T) \in Nat
    BY <2>1, FS_Subset, FS_CardinalityType
  <2> QED BY <1>1, <1>4, <2>2 DEF Sparse
<1> HIDE DEF T
<1>11. Cardinality(0..m) <= Cardinality(T)
  BY <1>7, <1>8, <1>9, <1>10, OneToOne
<1>12. Cardinality(0..m) = m + 1
  <2>1. 0 \in Int /\ m \in Int /\ ~(0 > m)
    BY <1>4
  <2>2. Cardinality(0..m) = m - 0 + 1
    BY <2>1, FS_Interval
  <2> QED BY <1>4, <2>2
<1> QED BY <1>4, <1>10, <1>11, <1>12

\* Placing one more key at the first place it finds.
LEMMA ProbedExtends ==
  ASSUME NEW size \in Nat \ {0}, NEW keys, NEW start, NEW place, Probed(place, keys, start, size),
         NEW x, x \notin keys, start[x] \in 0..size - 1, NEW c \in 0..size - 1,
         \A k \in keys : place[k] # c,
         \A q \in 0..size - 1 : Distance(start[x], q, size) < Distance(start[x], c, size) =>
                                  \E k \in keys : place[k] = q,
         NEW next, next = [k \in keys \cup {x} |-> IF k = x THEN c ELSE place[k]]
  PROVE  Probed(next, keys \cup {x}, start, size)
<1>1. next \in [keys \cup {x} -> 0..size - 1]
  BY DEF Probed
<1>2. next[x] = c /\ \A k \in keys : next[k] = place[k]
  OBVIOUS
<1>3. \A k, l \in keys \cup {x} : next[k] = next[l] => k = l
  BY <1>2 DEF Probed
<1>4. ASSUME NEW k \in keys \cup {x}, NEW p \in 0..size - 1,
             Distance(start[k], p, size) <= Distance(start[k], next[k], size)
      PROVE  \E l \in keys \cup {x} : next[l] = p
  <2>1. CASE k \in keys
    BY <1>2, <1>4, <2>1 DEF Probed
  <2>2. CASE k = x
    <3>1. CASE p = c
      BY <1>2, <3>1
    <3>2. CASE p # c
      <4>1. Distance(start[x], p, size) < Distance(start[x], c, size)
        BY <1>2, <1>4, <2>2, <3>2 DEF Distance
      <4> QED BY <1>2, <4>1
    <3> QED BY <3>1, <3>2
  <2> QED BY <2>1, <2>2
<1> QED BY <1>1, <1>3, <1>4 DEF Probed

\* Going up from a place by as much as it is to another comes to the other.
LEMMA GoingUp ==
  ASSUME NEW size \in Nat \ {0}, NEW s \in 0..size - 1, NEW d \in 0..size - 1
  PROVE  /\ (s + d) % size \in 0..size - 1
         /\ Distance(s, (s + d) % size, size) = d
         /\ \A q \in 0..size - 1 : Distance(s, q, size) = d => (s + d) % size = q
<1>1. (s + d) % size = IF s + d < size THEN s + d ELSE s + d - size
  <2>1. CASE s + d < size
    <3>1. s + d \in 0..size - 1 /\ s + d \in Int
      BY <2>1
    <3> QED BY <2>1, <3>1, Modulo
  <2>2. CASE ~(s + d < size)
    <3> DEFINE r == s + d - size
    <3>1. r \in 0..size - 1 /\ 1 \in Int /\ s + d = size * 1 + r
      BY <2>2
    <3> HIDE DEF r
    <3>2. (size * 1 + r) % size = r
      BY <3>1, Remainder
    <3> QED BY <2>2, <3>1, <3>2 DEF r
  <2> QED BY <2>1, <2>2
<1> QED BY <1>1 DEF Distance
==============================================================================
