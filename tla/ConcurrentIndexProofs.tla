------------------------ MODULE ConcurrentIndexProofs ------------------------
(***************************************************************************)
(* Proofs about the cells ConcurrentBuilder gives to the hashes of each    *)
(* thread, for any number of threads: a thread works out, from counters    *)
(* and without looking at the table, which cells the hashes of the others  *)
(* take before and after its own, and they do take those.  So no two       *)
(* threads ever write one bucket, every hash gets one, and a lookup that   *)
(* probes from its home comes to it and finds the hash's rows.             *)
(***************************************************************************)
EXTENDS ConcurrentBuilderProofs

\* Reversing one bit more.
LEMMA ReversedStep ==
  ASSUME NEW number \in Nat
  PROVE  /\ Reversed(number, 0) = 0
         /\ \A n \in Nat : Reversed(number, n + 1) = 2 * Reversed(number, n) + ((number \div 2 ^ n) % 2)
<1>1. ASSUME NEW n \in Nat
      PROVE  Reversed(number, n + 1) = 2 * Reversed(number, n) + ((number \div 2 ^ n) % 2)
  <2> DEFINE r == Reversing(number, n)
             q == Reversing(number, n + 1)
             bit(i) == (number \div 2 ^ i) % 2
  <2>1. Reversed(number, n) = r[n] /\ r[0] = 0 /\ \A i \in 0..n - 1 : r[i + 1] = 2 * r[i] + bit(i)
    BY Zenon, ReversingIs
  <2>2. Reversed(number, n + 1) = q[n + 1] /\ q[0] = 0 /\ \A i \in 0..n : q[i + 1] = 2 * q[i] + bit(i)
    <3> DEFINE k == n + 1
    <3>1. k \in Nat /\ 0..k - 1 = 0..n
      OBVIOUS
    <3> HIDE DEF k
    <3>2. /\ Reversed(number, k) = Reversing(number, k)[k] /\ Reversing(number, k)[0] = 0
          /\ \A i \in 0..k - 1 : Reversing(number, k)[i + 1] = 2 * Reversing(number, k)[i] + bit(i)
      BY <3>1, ReversingIs
    <3> QED BY <3>1, <3>2 DEF k
  <2> HIDE DEF r, q, bit
  <2> DEFINE S == {i \in Nat : i <= n => q[i] = r[i]}
  <2>3. 0 \in S
    BY <2>1, <2>2
  <2>4. ASSUME NEW i \in Nat, i \in S PROVE i + 1 \in S
    <3> SUFFICES ASSUME i + 1 <= n PROVE q[i + 1] = r[i + 1]
      OBVIOUS
    <3>1. i \in 0..n - 1 /\ i \in 0..n /\ i <= n
      OBVIOUS
    <3>2. q[i] = r[i]
      BY <2>4, <3>1
    <3> QED BY <2>1, <2>2, <3>1, <3>2
  <2>5. Nat \subseteq S
    <3> HIDE DEF S
    <3> QED BY <2>3, <2>4, SetInduction
  <2>6. q[n] = r[n]
    BY <2>5
  <2>7. n \in 0..n
    OBVIOUS
  <2>8. q[n + 1] = 2 * q[n] + bit(n)
    BY <2>2, <2>7
  <2> QED BY <2>1, <2>2, <2>6, <2>8 DEF bit
<1>2. Reversed(number, 0) = 0
  <2>1. 0 \in Nat
    OBVIOUS
  <2> QED BY <2>1, ReversingIs
<1> QED BY <1>1, <1>2

\* Only as many of the lowest bits count.
LEMMA ReversedOfRest ==
  ASSUME NEW number \in Nat, NEW m \in Nat, NEW n \in 0..m
  PROVE  number % 2 ^ m \in Nat /\ Reversed(number % 2 ^ m, n) = Reversed(number, n)
<1> DEFINE rest == number % 2 ^ m
           S == {i \in Nat : i <= m => Reversed(rest, i) = Reversed(number, i)}
<1>1. rest \in Nat
  <2>1. 2 ^ m \in Nat \ {0}
    BY PowerType
  <2> QED BY <2>1
<1>2. \A i \in 0..m - 1 : (rest \div 2 ^ i) % 2 = (number \div 2 ^ i) % 2
  BY BitOfRest
<1> HIDE DEF rest
<1>3. 0 \in S
  BY <1>1, ReversedStep
<1>4. ASSUME NEW i \in Nat, i \in S PROVE i + 1 \in S
  <2> SUFFICES ASSUME i + 1 <= m PROVE Reversed(rest, i + 1) = Reversed(number, i + 1)
    OBVIOUS
  <2>1. i \in 0..m - 1 /\ i <= m
    OBVIOUS
  <2>2. Reversed(rest, i + 1) = 2 * Reversed(rest, i) + ((rest \div 2 ^ i) % 2)
    BY <1>1, ReversedStep
  <2>3. Reversed(number, i + 1) = 2 * Reversed(number, i) + ((number \div 2 ^ i) % 2)
    BY ReversedStep
  <2> QED BY <1>2, <1>4, <2>1, <2>2, <2>3
<1>5. Nat \subseteq S
  <2> HIDE DEF S
  <2> QED BY <1>3, <1>4, SetInduction
<1> QED BY <1>1, <1>5 DEF rest

\* The lowest bit becomes the highest.
LEMMA ReversedLowest ==
  ASSUME NEW n \in Nat
  PROVE  \A number \in Nat :
           Reversed(number, n + 1) = (number % 2) * 2 ^ n + Reversed(number \div 2, n)
<1> DEFINE Right(i, number) == Reversed(number, i + 1) = (number % 2) * 2 ^ i + Reversed(number \div 2, i)
           S == {i \in Nat : \A number \in Nat : Right(i, number)}
<1>1. 0 \in S
  <2> SUFFICES ASSUME NEW number \in Nat PROVE Right(0, number)
    OBVIOUS
  <2>1. 0 \in Nat /\ 2 ^ 0 = 1 /\ number \div 2 \in Nat /\ number % 2 \in 0..1 /\ number \div 1 = number
    OBVIOUS
  <2>2. Reversed(number, 0) = 0 /\ Reversed(number \div 2, 0) = 0
    BY <2>1, ReversedStep
  <2>3. Reversed(number, 0 + 1) = 2 * Reversed(number, 0) + ((number \div 2 ^ 0) % 2)
    BY <2>1, ReversedStep
  <2> QED BY <2>1, <2>2, <2>3
<1>2. ASSUME NEW i \in Nat, i \in S PROVE i + 1 \in S
  <2> SUFFICES ASSUME NEW number \in Nat PROVE Right(i + 1, number)
    OBVIOUS
  <2> DEFINE half == number \div 2
             b == number % 2
             bit == (number \div 2 ^ (i + 1)) % 2
  <2>1. half \in Nat /\ b \in 0..1 /\ i + 1 \in Nat
    OBVIOUS
  <2>2. Reversed(number, (i + 1) + 1) = 2 * Reversed(number, i + 1) + bit
    BY <2>1, ReversedStep
  <2>3. Reversed(half, i + 1) = 2 * Reversed(half, i) + bit
    <3>1. Reversed(half, i + 1) = 2 * Reversed(half, i) + ((half \div 2 ^ i) % 2)
      BY <2>1, ReversedStep
    <3>2. half \div 2 ^ i = number \div 2 ^ (i + 1)
      BY HalvedFirst
    <3> QED BY <3>1, <3>2
  <2>4. Reversed(number, i + 1) = b * 2 ^ i + Reversed(half, i)
    BY <1>2
  <2>5. 2 ^ i \in Nat /\ 2 ^ (i + 1) = 2 * 2 ^ i
    BY PowerType, PowerStep
  <2>6. Reversed(half, i) \in Int /\ bit \in Int /\ Reversed(half, i + 1) \in Int
    <3>1. bit \in Int
      BY <2>1, BitRange
    <3>2. 2 ^ (i + 1) \in Nat
      BY <2>5
    <3>3. Reversed(half, i) \in 0..2 ^ i - 1
      BY <2>1, ReversedRange
    <3> QED BY <2>3, <2>5, <3>1, <3>3
  <2> HIDE DEF half, b, bit
  <2>7. b = 0 \/ b = 1
    BY <2>1
  <2>8. Reversed(number, (i + 1) + 1) = b * 2 ^ (i + 1) + Reversed(half, i + 1)
    BY <2>2, <2>3, <2>4, <2>5, <2>6, <2>7
  <2> QED BY <2>8 DEF half, b
<1>3. Nat \subseteq S
  <2> HIDE DEF S
  <2> QED BY <1>1, <1>2, SetInduction
<1> QED BY <1>3

\* Reversing the bits again gives the number.
LEMMA ReversedTwice ==
  ASSUME NEW n \in Nat
  PROVE  \A x \in 0..2 ^ n - 1 : Reversed(Reversed(x, n), n) = x
<1> DEFINE S == {i \in Nat : \A x \in 0..2 ^ i - 1 : Reversed(Reversed(x, i), i) = x}
<1>1. 0 \in S
  <2> SUFFICES ASSUME NEW x \in 0..2 ^ 0 - 1 PROVE Reversed(Reversed(x, 0), 0) = x
    OBVIOUS
  <2>1. x = 0 /\ 0 \in Nat
    <3>1. 2 ^ 0 = 1
      OBVIOUS
    <3> QED BY <3>1
  <2>2. Reversed(0, 0) = 0
    BY <2>1, ReversedStep
  <2> QED BY <2>1, <2>2
<1>2. ASSUME NEW i \in Nat, i \in S PROVE i + 1 \in S
  <2> SUFFICES ASSUME NEW x \in 0..2 ^ (i + 1) - 1 PROVE Reversed(Reversed(x, i + 1), i + 1) = x
    OBVIOUS
  <2> DEFINE p == 2 ^ i
             z == x % p
             b == (x \div p) % 2
             R == Reversed(z, i)
  <2>1. p \in Nat \ {0} /\ 2 ^ (i + 1) = 2 * p /\ x \in Nat
    <3>1. p \in Nat \ {0} /\ 2 ^ (i + 1) = 2 * p
      BY PowerType, PowerStep
    <3> DEFINE m == 2 ^ (i + 1)
    <3>2. x \in 0..m - 1 /\ m = 2 * p
      BY <3>1
    <3> HIDE DEF p, m
    <3>3. x \in Nat
      BY <3>2
    <3> QED BY <3>1, <3>3
  <2>2. z \in 0..p - 1 /\ x = p * (x \div p) + z /\ x \div p \in Int
    <3> HIDE DEF p
    <3> QED BY <2>1, Quotient
  <2>3. x \div p \in 0..1
    <3> DEFINE q == x \div p
    <3>1. q \in Int /\ x = p * q + z /\ x < 2 * p
      BY <2>1, <2>2
    <3> HIDE DEF p, z, q
    <3>2. ~(q >= 2)
      <4> SUFFICES ASSUME q >= 2 PROVE FALSE
        OBVIOUS
      <4>1. p * q = 2 * p + p * (q - 2)
        BY <2>1, <3>1
      <4>2. p * (q - 2) >= 0 /\ p * (q - 2) \in Int /\ p * q \in Int
        <5>1. \A j, k \in Nat : j * k >= 0 /\ j * k \in Int
          OBVIOUS
        <5>2. q - 2 \in Nat
          BY <3>1
        <5>3. \A j, k \in Int : j * k \in Int
          OBVIOUS
        <5> QED BY <2>1, <3>1, <5>1, <5>2, <5>3
      <4> DEFINE pq == p * q
                 pp == p * (q - 2)
      <4> HIDE DEF pq, pp
      <4>3. x = pq + z /\ pq = 2 * p + pp /\ pp >= 0 /\ pp \in Int /\ pq \in Int
        BY <3>1, <4>1, <4>2 DEF pq, pp
      <4> QED BY <2>1, <2>2, <3>1, <4>3
    <3>3. ~(q <= -1)
      <4> SUFFICES ASSUME q <= -1 PROVE FALSE
        OBVIOUS
      <4>1. p * q <= -p /\ p * q \in Int
        <5>1. p * q = -p + -(p * (-1 - q))
          BY <2>1, <3>1
        <5>2. p * (-1 - q) >= 0 /\ p * (-1 - q) \in Int
          <6>1. \A j, k \in Nat : j * k >= 0 /\ j * k \in Int
            OBVIOUS
          <6>2. -1 - q \in Nat
            BY <3>1
          <6> QED BY <2>1, <6>1, <6>2
        <5> DEFINE pp == p * (-1 - q)
        <5> HIDE DEF pp
        <5>3. p * q = -p + -pp /\ pp >= 0 /\ pp \in Int
          BY <5>1, <5>2 DEF pp
        <5> QED BY <2>1, <5>3
      <4> QED BY <2>1, <2>2, <3>1, <4>1
    <3> QED BY <3>1, <3>2, <3>3 DEF q
  <2>4. b = x \div p
    <3>1. \A q \in 0..1 : q % 2 = q
      OBVIOUS
    <3> HIDE DEF p
    <3> QED BY <2>3, <3>1
  <2>5. x = b * p + z /\ b \in 0..1
    <3>1. b \in {0, 1}
      BY <2>3, <2>4
    <3> HIDE DEF b
    <3> QED BY <2>1, <2>2, <2>4, <3>1
  <2>6. R \in 0..p - 1 /\ Reversed(x, i) = R
    <3>1. z \in Nat /\ i \in 0..i
      BY <2>2
    <3>2. R \in 0..p - 1
      BY <3>1, ReversedRange
    <3>3. Reversed(x, i) = R
      BY <2>1, <3>1, ReversedOfRest
    <3> QED BY <3>2, <3>3
  <2>7. Reversed(x, i + 1) = 2 * R + b
    BY <2>1, <2>6, ReversedStep
  <2>8. Reversed(R, i) = z
    BY <1>2, <2>2
  <2> DEFINE y == 2 * R + b
  <2>9. y \in Nat /\ y % 2 = b /\ y \div 2 = R
    <3>1. \A r \in Nat, c \in 0..1 : 2 * r + c \in Nat /\ (2 * r + c) % 2 = c /\ (2 * r + c) \div 2 = r
      OBVIOUS
    <3>2. R \in Nat
      BY <2>6
    <3> HIDE DEF R, b
    <3> QED BY <2>5, <3>1, <3>2
  <2>10. Reversed(y, i + 1) = (y % 2) * 2 ^ i + Reversed(y \div 2, i)
    BY <2>9, ReversedLowest
  <2>11. Reversed(y, i + 1) = b * p + z
    BY <2>8, <2>9, <2>10
  <2> QED BY <2>5, <2>7, <2>11
<1>3. Nat \subseteq S
  <2> HIDE DEF S
  <2> QED BY <1>1, <1>2, SetInduction
<1> QED BY <1>3

\* Reversing more bits only adds bits at the end.
LEMMA ReversedMore ==
  ASSUME NEW number \in Nat, NEW p \in Nat, NEW d \in Nat
  PROVE  Reversed(number, p + d) \div 2 ^ d = Reversed(number, p)
<1> DEFINE R == Reversed(number, p)
           S == {i \in Nat : \E e \in 0..2 ^ i - 1 : Reversed(number, p + i) = 2 ^ i * R + e}
<1>0. R \in Nat
  <2>1. R \in 0..2 ^ p - 1 /\ 2 ^ p \in Nat
    BY ReversedRange, PowerType
  <2> QED BY <2>1
<1>1. 0 \in S
  <2>1. 2 ^ 0 = 1 /\ p + 0 = p
    OBVIOUS
  <2>2. Reversed(number, p + 0) = 2 ^ 0 * R + 0
    BY <1>0, <2>1
  <2> QED BY <2>1, <2>2
<1> HIDE DEF R
<1>2. ASSUME NEW i \in Nat, i \in S PROVE i + 1 \in S
  <2> DEFINE bit == (number \div 2 ^ (p + i)) % 2
             a == 2 ^ i
  <2>1. PICK e \in 0..a - 1 : Reversed(number, p + i) = a * R + e
    BY <1>2
  <2>2. p + i \in Nat /\ p + (i + 1) = (p + i) + 1
    OBVIOUS
  <2>3. Reversed(number, (p + i) + 1) = 2 * Reversed(number, p + i) + bit
    BY <2>2, ReversedStep
  <2>4. bit \in 0..1
    BY <2>2, BitRange
  <2>5. a \in Nat \ {0} /\ 2 ^ (i + 1) = 2 * a
    BY PowerType, PowerStep
  <2> HIDE DEF a, bit
  <2>6. Reversed(number, p + (i + 1)) = (2 * a) * R + (2 * e + bit)
    <3> DEFINE ar == a * R
    <3>1. ar \in Int /\ (2 * a) * R = 2 * ar
      <4>1. \A x, y \in Nat : x * y \in Int /\ (2 * x) * y = 2 * (x * y)
        OBVIOUS
      <4> QED BY <1>0, <2>5, <4>1
    <3>2. e \in Int /\ bit \in Int
      BY <2>1, <2>4, <2>5
    <3> HIDE DEF ar
    <3>3. 2 * (ar + e) + bit = 2 * ar + (2 * e + bit)
      BY <3>1, <3>2
    <3> QED BY <2>1, <2>2, <2>3, <3>1, <3>3 DEF ar
  <2>7. 2 * e + bit \in 0..2 * a - 1
    BY <2>1, <2>4, <2>5
  <2> QED BY <2>5, <2>6, <2>7
<1>3. Nat \subseteq S
  <2> HIDE DEF S
  <2> QED BY <1>1, <1>2, SetInduction
<1>4. PICK e \in 0..2 ^ d - 1 : Reversed(number, p + d) = 2 ^ d * R + e
  BY <1>3
<1>5. 2 ^ d \in Nat \ {0}
  BY PowerType
<1>6. (2 ^ d * R + e) \div 2 ^ d = R
  BY <1>0, <1>5, QuotientIs
<1> QED BY <1>4, <1>6 DEF R
-----------------------------------------------------------------------------
\* The logarithm of a power.
LEMMA LogIs == ASSUME NEW k \in 0..64 PROVE Log2(2 ^ k) = k
<1>1. Log2(2 ^ k) \in 0..64 /\ 2 ^ Log2(2 ^ k) = 2 ^ k
  BY DEF Log2
<1>2. ASSUME NEW i \in Nat, NEW j \in Nat, i < j PROVE 2 ^ i < 2 ^ j
  <2>1. 2 ^ (i + 1) <= 2 ^ j /\ 2 ^ (i + 1) = 2 * 2 ^ i /\ 2 ^ i \in Nat \ {0} /\ 2 ^ j \in Nat
    <3>1. i + 1 \in Nat /\ i + 1 <= j
      BY <1>2
    <3> QED BY <1>2, <3>1, PowerMonotone, PowerStep, PowerType
  <2> QED BY <2>1
<1>3. Log2(2 ^ k) \in Nat /\ k \in Nat
  BY <1>1
<1> DEFINE l == Log2(2 ^ k)
<1>4. l \in Nat /\ 2 ^ l = 2 ^ k /\ 2 ^ k \in Nat
  BY <1>1, <1>3, PowerType
<1> HIDE DEF l
<1>5. ~(l < k) /\ ~(k < l)
  <2>1. l < k => 2 ^ l < 2 ^ k
    BY <1>2, <1>3, <1>4
  <2>2. k < l => 2 ^ k < 2 ^ l
    BY <1>2, <1>3, <1>4
  <2> QED BY <1>4, <2>1, <2>2
<1> QED BY <1>3, <1>4, <1>5 DEF l

\* A partition is the hash's lowest bits reversed, and stands for hashes that have them.
LEMMA PartitionIs ==
  ASSUME NEW hash \in Nat, NEW k \in 0..30
  PROVE  /\ PartitionOf(hash, 2 ^ k) = Reversed(hash, k)
         /\ MaskedHash(PartitionOf(hash, 2 ^ k), 2 ^ k) = hash % 2 ^ k
<1>1. k \in 0..64 /\ k \in Nat /\ k \in 0..k
  OBVIOUS
<1>2. Log2(2 ^ k) = k
  BY <1>1, LogIs
<1>3. hash % 2 ^ k \in 0..2 ^ k - 1
  <2>1. 2 ^ k \in Nat \ {0} /\ hash \in Int
    BY <1>1, PowerType
  <2> QED BY <2>1, Modulo
<1>4. PartitionOf(hash, 2 ^ k) = Reversed(hash % 2 ^ k, k)
  BY <1>2 DEF PartitionOf
<1>5. Reversed(hash % 2 ^ k, k) = Reversed(hash, k)
  BY <1>1, ReversedOfRest
<1>6. Reversed(Reversed(hash % 2 ^ k, k), k) = hash % 2 ^ k
  BY <1>1, <1>3, ReversedTwice
<1> QED BY <1>2, <1>4, <1>5, <1>6 DEF MaskedHash

\* Of two powers of two the smaller divides the larger.
LEMMA PowersDivide ==
  ASSUME NEW p \in Powers, NEW c \in Powers, p <= c
  PROVE  \E i \in 0..30, d \in 0..30 : p = 2 ^ i /\ i + d \in 0..30 /\ c = 2 ^ (i + d) /\ c = p * 2 ^ d
<1>1. PICK i \in 0..30 : p = 2 ^ i
  BY DEF Powers
<1>2. PICK k \in 0..30 : c = 2 ^ k
  BY DEF Powers
<1>3. i <= k
  <2> SUFFICES ASSUME k < i PROVE FALSE
    OBVIOUS
  <2>1. k + 1 \in Nat /\ k + 1 <= i /\ i \in Nat /\ k \in Nat
    OBVIOUS
  <2>2. 2 ^ (k + 1) <= 2 ^ i /\ 2 ^ (k + 1) = 2 * 2 ^ k /\ 2 ^ k \in Nat \ {0} /\ 2 ^ i \in Nat
    BY <2>1, PowerMonotone, PowerStep, PowerType
  <2> QED BY <1>1, <1>2, <2>2
<1> DEFINE d == k - i
<1>4. d \in 0..30 /\ i + d = k /\ d \in Nat /\ i \in Nat
  BY <1>3
<1>5. 2 ^ (i + d) = 2 ^ i * 2 ^ d
  BY <1>4, PowerSum
<1> HIDE DEF d
<1> QED BY <1>1, <1>2, <1>4, <1>5

\* A counter counts hashes of one partition, and stands for the place where they start: a finer
\* partition divided by how much finer it is.
LEMMA CounterStandsFor ==
  ASSUME NEW hash \in Nat, NEW p \in Powers, NEW c \in Powers, p <= c
  PROVE  /\ c \div p \in Nat \ {0} /\ c = (c \div p) * p
         /\ PartitionOf(hash, c) \in 0..c - 1
         /\ PartitionOf(hash, p) = PartitionOf(hash, c) \div (c \div p)
         /\ MaskedHash(PartitionOf(hash, c), c) % p = hash % p
<1>1. PICK i \in 0..30, d \in 0..30 : p = 2 ^ i /\ i + d \in 0..30 /\ c = 2 ^ (i + d) /\ c = p * 2 ^ d
  BY PowersDivide
<1>2. i \in Nat /\ d \in Nat
  OBVIOUS
<1>3. p \in Nat \ {0} /\ 2 ^ d \in Nat \ {0}
  BY <1>1, <1>2, PowerType
<1> DEFINE e == 2 ^ d
<1> HIDE DEF e
<1>4. c \div p = e /\ e \in Nat \ {0} /\ c = e * p
  <2>1. (p * e + 0) \div p = e
    <3>1. e \in Int /\ 0 \in 0..p - 1
      BY <1>3 DEF e
    <3> QED BY <1>3, <3>1, QuotientIs
  <2>2. c = p * e /\ p * e + 0 = p * e /\ p * e = e * p
    BY <1>1, <1>3 DEF e
  <2> QED BY <1>3, <2>1, <2>2 DEF e
<1>5. PartitionOf(hash, c) \in 0..c - 1
  BY PartitionRange
<1>6. PartitionOf(hash, p) = PartitionOf(hash, c) \div e
  <2>1. PartitionOf(hash, p) = Reversed(hash, i) /\ PartitionOf(hash, c) = Reversed(hash, i + d)
    BY <1>1, PartitionIs
  <2> QED BY <1>2, <2>1, ReversedMore DEF e
<1>7. MaskedHash(PartitionOf(hash, c), c) % p = hash % p
  <2>1. MaskedHash(PartitionOf(hash, c), c) = hash % c
    BY <1>1, PartitionIs
  <2>2. (hash % (p * e)) % p = hash % p
    BY <1>3, RestOfRest DEF e
  <2> QED BY <1>1, <2>1, <2>2 DEF e
<1> QED BY <1>4, <1>5, <1>6, <1>7
-----------------------------------------------------------------------------
\* A sequence of numbers that stands for the hashes of a set: it has one number for each, names
\* tells which, that starts its probe where the hash does in a table of size buckets.
Stands(seq, names, set, size) ==
  /\ seq \in Seq(Nat) /\ names \in Seq(set) /\ Len(names) = Len(seq)
  /\ \A k \in 1..Len(seq) : seq[k] % size = names[k] % size
  /\ \A k, l \in 1..Len(seq) : names[k] = names[l] => k = l
  /\ \A hash \in set : \E k \in 1..Len(seq) : names[k] = hash
StandsFor(seq, set, size) == \E names : Stands(seq, names, set, size)

\* Two sequences for different hashes, one after the other.
LEMMA StandsConcat ==
  ASSUME NEW size, NEW r, NEW m, NEW S, Stands(r, m, S, size), NEW s, NEW n, NEW T, Stands(s, n, T, size),
         S \cap T = {}
  PROVE  Stands(r \o s, m \o n, S \cup T, size)
<1> DEFINE seq == r \o s
           names == m \o n
           a == Len(r)
           b == Len(s)
<1>1. /\ r \in Seq(Nat) /\ s \in Seq(Nat) /\ m \in Seq(S) /\ n \in Seq(T)
      /\ Len(m) = a /\ Len(n) = b /\ a \in Nat /\ b \in Nat
  BY DEF Stands
<1>2. /\ seq \in Seq(Nat) /\ Len(seq) = a + b
      /\ \A k \in 1..a + b : seq[k] = IF k <= a THEN r[k] ELSE s[k - a]
  BY <1>1
<1>3. /\ names \in Seq(S \cup T) /\ Len(names) = a + b
      /\ \A k \in 1..a + b : names[k] = IF k <= a THEN m[k] ELSE n[k - a]
  <2>1. m \in Seq(S \cup T) /\ n \in Seq(S \cup T)
    BY <1>1
  <2>2. /\ m \o n \in Seq(S \cup T) /\ Len(m \o n) = Len(m) + Len(n)
        /\ \A k \in 1..Len(m) + Len(n) : (m \o n)[k] = IF k <= Len(m) THEN m[k] ELSE n[k - Len(m)]
    BY <2>1
  <2> QED BY <1>1, <2>2
<1>4. \A k \in 1..a : m[k] \in S
  BY <1>1
<1>5. \A k \in 1..b : n[k] \in T
  BY <1>1
<1>6. /\ \A k \in 1..a : r[k] % size = m[k] % size
      /\ \A k, l \in 1..a : m[k] = m[l] => k = l
      /\ \A hash \in S : \E k \in 1..a : m[k] = hash
  BY DEF Stands
<1>7. /\ \A k \in 1..b : s[k] % size = n[k] % size
      /\ \A k, l \in 1..b : n[k] = n[l] => k = l
      /\ \A hash \in T : \E k \in 1..b : n[k] = hash
  BY DEF Stands
<1> HIDE DEF seq, names, a, b
<1>8. \A k \in 1..a + b : \/ k \in 1..a /\ seq[k] = r[k] /\ names[k] = m[k]
                          \/ k > a /\ k - a \in 1..b /\ seq[k] = s[k - a] /\ names[k] = n[k - a]
  BY <1>1, <1>2, <1>3
<1>9. \A k \in 1..a + b : seq[k] % size = names[k] % size
  BY <1>6, <1>7, <1>8
<1>10. ASSUME NEW k \in 1..a + b, NEW l \in 1..a + b, names[k] = names[l] PROVE k = l
  <2>1. CASE k \in 1..a /\ names[k] = m[k]
    <3>1. CASE l \in 1..a /\ names[l] = m[l]
      BY <1>6, <1>10, <2>1, <3>1
    <3>2. CASE l - a \in 1..b /\ names[l] = n[l - a]
      BY <1>4, <1>5, <1>10, <2>1, <3>2
    <3> QED BY <1>8, <3>1, <3>2
  <2>2. CASE k - a \in 1..b /\ names[k] = n[k - a]
    <3>1. CASE l \in 1..a /\ names[l] = m[l]
      BY <1>4, <1>5, <1>10, <2>2, <3>1
    <3>2. CASE l - a \in 1..b /\ names[l] = n[l - a]
      <4>1. k - a = l - a
        BY <1>7, <1>10, <2>2, <3>2
      <4> QED BY <1>1, <4>1
    <3> QED BY <1>8, <3>1, <3>2
  <2> QED BY <1>8, <2>1, <2>2
<1>11. ASSUME NEW hash \in S \cup T PROVE \E k \in 1..a + b : names[k] = hash
  <2>1. CASE hash \in S
    <3>1. PICK k \in 1..a : m[k] = hash
      BY <1>6, <2>1
    <3>2. k \in 1..a + b /\ names[k] = m[k]
      BY <1>1, <1>3
    <3> QED BY <3>1, <3>2
  <2>2. CASE hash \in T
    <3>1. PICK k \in 1..b : n[k] = hash
      BY <1>7, <2>2
    <3>2. k + a \in 1..a + b /\ names[k + a] = n[(k + a) - a] /\ (k + a) - a = k
      BY <1>1, <1>3
    <3> QED BY <3>1, <3>2
  <2> QED BY <2>1, <2>2
<1>12. Stands(seq, names, S \cup T, size)
  BY <1>2, <1>3, <1>9, <1>10, <1>11 DEF Stands
<1> QED BY <1>12 DEF seq, names

\* Sequences are put after each other one by one.
Flattening(seqs) == CHOOSE f : f = [i \in 1..Len(seqs) |-> IF i = 1 THEN seqs[i] ELSE f[i - 1] \o seqs[i]]

Joins(f, seqs, n) == f[1] = seqs[1] /\ \A i \in 1..n - 1 : f[i + 1] = f[i] \o seqs[i + 1]

LEMMA FlatteningIs ==
  ASSUME NEW seqs, NEW n \in Nat \ {0}, Len(seqs) = n, NEW f, f = Flattening(seqs)
  PROVE  FlattenSeq(seqs) = f[n] /\ Joins(f, seqs, n)
<1> DEFINE Upto(g, k) == g = [i \in 1..k |-> IF i = 1 THEN seqs[i] ELSE g[i - 1] \o seqs[i]]
           S == {k \in Nat : \E g : Upto(g, k)}
<1>1. 0 \in S
  <2> DEFINE e == [i \in 1..0 |-> 0]
             g == [i \in 1..0 |-> IF i = 1 THEN seqs[i] ELSE e[i - 1] \o seqs[i]]
  <2>1. e = g
    OBVIOUS
  <2> HIDE DEF e
  <2>2. Upto(e, 0)
    BY <2>1
  <2> QED BY <2>2
<1>2. ASSUME NEW k \in Nat, k \in S PROVE k + 1 \in S
  <2>1. PICK e : Upto(e, k)
    BY <1>2
  <2> DEFINE g == [x \in 1..k + 1 |-> IF x = k + 1
                                      THEN IF x = 1 THEN seqs[x] ELSE e[k] \o seqs[x]
                                      ELSE e[x]]
  <2>2. ASSUME NEW x \in 1..k + 1
        PROVE  g[x] = IF x = 1 THEN seqs[x] ELSE g[x - 1] \o seqs[x]
    <3>1. CASE x \in 1..k
      <4>1. g[x] = e[x] /\ (x # 1 => g[x - 1] = e[x - 1])
        BY <3>1
      <4> HIDE DEF g
      <4>2. e[x] = IF x = 1 THEN seqs[x] ELSE e[x - 1] \o seqs[x]
        BY <2>1, <3>1
      <4> QED BY <4>1, <4>2
    <3>2. CASE x = k + 1
      <4>1. g[x] = (IF x = 1 THEN seqs[x] ELSE e[k] \o seqs[x]) /\ (x # 1 => g[k] = e[k]) /\ x - 1 = k
        BY <3>2
      <4> HIDE DEF g
      <4> QED BY <3>2, <4>1
    <3> QED BY <3>1, <3>2
  <2>3. g = [x \in 1..k + 1 |-> g[x]]
    OBVIOUS
  <2> HIDE DEF g
  <2> DEFINE h == [i \in 1..k + 1 |-> IF i = 1 THEN seqs[i] ELSE g[i - 1] \o seqs[i]]
  <2>4. \A x \in 1..k + 1 : h[x] = g[x]
    BY <2>2
  <2>5. h = [x \in 1..k + 1 |-> h[x]]
    OBVIOUS
  <2>6. g = h
    <3> HIDE DEF h
    <3> QED BY <2>3, <2>4, <2>5
  <2>7. Upto(g, k + 1)
    BY Zenon, <2>6
  <2> HIDE DEF Upto
  <2>8. k + 1 \in Nat
    OBVIOUS
  <2> QED BY <2>7, <2>8
<1>3. Nat \subseteq S
  <2> HIDE DEF S
  <2> QED BY <1>1, <1>2, SetInduction
<1>4. \E g : Upto(g, n)
  BY <1>3
<1>5. Upto(f, n)
  BY <1>4 DEF Flattening
<1>6. FlattenSeq(seqs) = f[n]
  BY DEF FlattenSeq, Flattening
<1>7. f[1] = seqs[1]
  BY <1>5
<1>8. ASSUME NEW i \in 1..n - 1 PROVE f[i + 1] = f[i] \o seqs[i + 1]
  <2>1. i + 1 \in 1..n /\ i + 1 # 1 /\ (i + 1) - 1 = i
    OBVIOUS
  <2> QED BY <1>5, <2>1
<1> QED BY <1>6, <1>7, <1>8 DEF Joins

\* Sequences for sets of different hashes ...
AllStand(seqs, sets, n, size) == /\ seqs = [c \in 1..n |-> seqs[c]]
                                 /\ \A c \in 1..n : StandsFor(seqs[c], sets[c], size)
                                 /\ \A c, d \in 1..n : c # d => sets[c] \cap sets[d] = {}
\* ... stand together for all of them.
LEMMA FlattenStands ==
  ASSUME NEW size, NEW n \in Nat, NEW seqs, NEW sets, AllStand(seqs, sets, n, size),
         NEW all, all = UNION {sets[c] : c \in 1..n}
  PROVE  StandsFor(FlattenSeq(seqs), all, size)
<1> SUFFICES StandsFor(FlattenSeq(seqs), UNION {sets[c] : c \in 1..n}, size)
  OBVIOUS
<1> USE DEF AllStand
<1> DEFINE Upto(k) == UNION {sets[c] : c \in 1..k}
           f == Flattening(seqs)
<1> HIDE DEF f
<1>1. Len(seqs) = n
  <2> DEFINE T == {seqs[c] : c \in 1..n}
  <2>1. seqs \in [1..n -> T]
    OBVIOUS
  <2> HIDE DEF T
  <2>2. seqs \in Seq(T)
    BY <2>1
  <2> QED BY <2>1, <2>2
<1>2. CASE n = 0
  <2>1. FlattenSeq(seqs) = seqs
    BY <1>1, <1>2 DEF FlattenSeq
  <2>2. seqs = <<>>
    BY <1>2
  <2>3. Upto(n) = {}
    BY <1>2
  <2>4. Stands(<<>>, <<>>, {}, size)
    BY DEF Stands
  <2> QED BY <2>1, <2>2, <2>3, <2>4 DEF StandsFor
<1>3. CASE n # 0
  <2>1. /\ FlattenSeq(seqs) = f[n] /\ f[1] = seqs[1]
        /\ \A i \in 1..n - 1 : f[i + 1] = f[i] \o seqs[i + 1]
    <3>1. n \in Nat \ {0} /\ f = Flattening(seqs)
      BY <1>3 DEF f
    <3>2. FlattenSeq(seqs) = f[n] /\ Joins(f, seqs, n)
      BY <1>1, <3>1, FlatteningIs
    <3> QED BY <3>2 DEF Joins
  <2> DEFINE S == {k \in Nat : k + 1 <= n => StandsFor(f[k + 1], Upto(k + 1), size)}
  <2>2. 0 \in S
    <3>1. Upto(0 + 1) = sets[1] /\ 0 + 1 = 1 /\ 1 \in 1..n
      BY <1>3
    <3> QED BY <2>1, <3>1
  <2>3. ASSUME NEW k \in Nat, k \in S PROVE k + 1 \in S
    <3> SUFFICES ASSUME (k + 1) + 1 <= n PROVE StandsFor(f[(k + 1) + 1], Upto((k + 1) + 1), size)
      OBVIOUS
    <3> DEFINE i == k + 1
    <3>1. i \in 1..n - 1 /\ i + 1 \in 1..n /\ k + 1 <= n /\ i \in Nat
      OBVIOUS
    <3>2. StandsFor(f[i], Upto(i), size)
      BY <2>3, <3>1
    <3> HIDE DEF i
    <3>3. PICK m : Stands(f[i], m, Upto(i), size)
      BY <3>2 DEF StandsFor
    <3>4. PICK o : Stands(seqs[i + 1], o, sets[i + 1], size)
      BY <3>1 DEF StandsFor
    <3>5. Upto(i) \cap sets[i + 1] = {}
      <4>1. \A c \in 1..i : c \in 1..n /\ c # i + 1
        BY <3>1
      <4> QED BY <3>1, <4>1
    <3>6. Upto(i + 1) = Upto(i) \cup sets[i + 1]
      <4>1. 1..i + 1 = (1..i) \cup {i + 1}
        BY <3>1
      <4> QED BY <4>1
    <3> HIDE DEF Upto
    <3>7. Stands(f[i] \o seqs[i + 1], m \o o, Upto(i) \cup sets[i + 1], size)
      BY <3>3, <3>4, <3>5, StandsConcat
    <3>8. StandsFor(f[i + 1], Upto(i + 1), size)
      BY <2>1, <3>1, <3>6, <3>7 DEF StandsFor
    <3> QED BY <3>8 DEF i
  <2>4. Nat \subseteq S
    <3> HIDE DEF S
    <3> QED BY <2>2, <2>3, SetInduction
  <2>5. PICK k \in Nat : k + 1 = n
    <3>1. n - 1 \in Nat /\ (n - 1) + 1 = n
      BY <1>3
    <3> QED BY <3>1
  <2>6. StandsFor(f[k + 1], Upto(k + 1), size)
    <3>1. k \in S
      BY <2>4
    <3> QED BY <2>5, <3>1
  <2>7. StandsFor(f[n], Upto(n), size)
    BY <2>5, <2>6
  <2> QED BY <2>1, <2>7
<1> QED BY <1>2, <1>3
-----------------------------------------------------------------------------
\* Where the probe of a hash starts.
Starts == [hash \in Nat |-> hash % Buckets]

\* The lanes a probe looks at first are the buckets after its start.
LEMMA FirstLanes ==
  ASSUME Buckets \in Nat \ {0}, NEW hash \in Nat, NEW k \in 0..Lanes - 1
  PROVE  ProbedCell(hash, k) = ((hash % Buckets) + k) % Buckets
<1>1. Lanes \in Nat \ {0} /\ Width \in Nat
  BY GroupAssumption
<1>2. k \div Lanes = 0 /\ k % Lanes = k
  <2>1. 0 \in Int /\ Lanes * 0 + k = k
    BY <1>1
  <2>2. (Lanes * 0 + k) \div Lanes = 0 /\ (Lanes * 0 + k) % Lanes = k
    BY <1>1, <2>1, QuotientIs, Remainder
  <2> QED BY <2>1, <2>2
<1>3. GroupStart(hash, 0) = hash % Buckets
  <2>1. (0 * (0 + 1)) \div 2 = 0
    OBVIOUS
  <2>2. hash + Width * 0 = hash
    BY <1>1
  <2> QED BY <2>1, <2>2 DEF GroupStart
<1> QED BY <1>2, <1>3 DEF ProbedCell

\* How many places a hash must find one free among.
Reach == IF Lanes < Buckets THEN Lanes ELSE Buckets

\* A hash finds a free cell in the lanes it looks at first, if one of the places there is free, and
\* all those before it are taken.
LEMMA FindsCell ==
  ASSUME Buckets \in Nat \ {0}, NEW hash \in Nat, NEW taken, NEW q \in 0..Buckets - 1, q \notin taken,
         Distance(hash % Buckets, q, Buckets) < Reach
  PROVE  LET c == ProbedCell(hash, Min(Untaken(hash, taken)))
         IN /\ Untaken(hash, taken) # {} /\ c \in 0..Buckets - 1 /\ c \notin taken
            /\ \E k \in 0..Lanes - 1 : c = ProbedCell(hash, k)
            /\ \A r \in 0..Buckets - 1 :
                 Distance(hash % Buckets, r, Buckets) < Distance(hash % Buckets, c, Buckets) => r \in taken
<1> DEFINE B == Buckets
           s == hash % B
           d == Distance(s, q, B)
           free == Untaken(hash, taken)
           k == Min(free)
           c == ProbedCell(hash, k)
<1>0. Lanes \in Nat \ {0} /\ B \in Nat \ {0}
  BY GroupAssumption
<1> HIDE DEF B
<1>1. s \in 0..B - 1
  BY <1>0
<1> HIDE DEF s
<1>2. d \in 0..B - 1 /\ d < Reach /\ d < Lanes /\ Reach <= B
  <2>1. q \in 0..B - 1 /\ d < Reach
    BY DEF B, s
  <2>2. d \in 0..B - 1
    BY <1>0, <1>1, <2>1, DistancesAre
  <2> HIDE DEF d
  <2>3. Reach = IF Lanes < B THEN Lanes ELSE B
    BY DEF Reach, B
  <2> QED BY <1>0, <2>1, <2>2, <2>3
<1>3. \A i \in 0..Lanes - 1 : ProbedCell(hash, i) = (s + i) % B
  BY <1>0, FirstLanes DEF B, s
<1>4. \A i \in 0..B - 1 :
        /\ (s + i) % B \in 0..B - 1 /\ Distance(s, (s + i) % B, B) = i
        /\ \A r \in 0..B - 1 : Distance(s, r, B) = i => (s + i) % B = r
  BY <1>0, <1>1, GoingUp
<1>5. ASSUME NEW i \in 0..B - 1, i < Lanes PROVE i \in 0..B * Lanes - 1
  <2>1. B * Lanes >= B /\ B * Lanes \in Nat
    <3>1. \A x, y \in Nat \ {0} : x * y >= x /\ x * y \in Nat
      OBVIOUS
    <3> QED BY <1>0, <3>1
  <2> DEFINE BL == B * Lanes
  <2> HIDE DEF BL
  <2>2. i \in 0..BL - 1
    BY <1>0, <2>1 DEF BL
  <2> QED BY <2>2 DEF BL
<1>6. free = {i \in 0..B * Lanes - 1 : ProbedCell(hash, i) \notin taken}
  BY DEF Untaken, B
<1> HIDE DEF free
<1>7. d \in free
  <2>1. d \in 0..Lanes - 1
    BY <1>0, <1>2
  <2>2. ProbedCell(hash, d) = (s + d) % B
    BY <1>3, <2>1
  <2>3. (s + d) % B = q
    BY <1>2, <1>4 DEF B
  <2> QED BY <1>2, <1>5, <1>6, <2>2, <2>3
<1>8. k \in free /\ \A y \in free : k <= y
  <2>1. free \subseteq Nat /\ free # {}
    <3>1. 0..B * Lanes - 1 \subseteq Nat
      OBVIOUS
    <3> QED BY <1>6, <1>7, <3>1
  <2> QED BY <2>1, MinIs
<1> HIDE DEF k
<1>9. k \in 0..B - 1 /\ k \in 0..Lanes - 1 /\ k <= d
  <2>1. k \in Nat /\ k <= d
    <3>1. 0..B * Lanes - 1 \subseteq Nat
      OBVIOUS
    <3> QED BY <1>6, <1>7, <1>8, <3>1
  <2> HIDE DEF d
  <2> QED BY <1>0, <1>2, <2>1
<1>10. c = (s + k) % B /\ c \in 0..B - 1 /\ Distance(s, c, B) = k
  BY <1>3, <1>4, <1>9
<1>11. c \notin taken
  BY <1>6, <1>8
<1>12. ASSUME NEW r \in 0..B - 1, Distance(s, r, B) < k PROVE r \in taken
  <2> DEFINE e == Distance(s, r, B)
  <2>1. e \in 0..B - 1
    BY <1>0, <1>1, DistancesAre
  <2>2. (s + e) % B = r
    BY <1>4, <2>1
  <2> HIDE DEF e
  <2>3. e < k
    BY <1>12 DEF e
  <2>4. e \in 0..Lanes - 1 /\ e < Lanes /\ e \notin free
    BY <1>0, <1>8, <1>9, <2>1, <2>3
  <2>5. e \in 0..B * Lanes - 1
    BY <1>5, <2>1, <2>4
  <2>6. ProbedCell(hash, e) \in taken
    BY <1>6, <2>4, <2>5
  <2>7. ProbedCell(hash, e) = (s + e) % B
    BY <1>3, <2>4
  <2> QED BY <2>2, <2>6, <2>7
<1> HIDE DEF c
<1>13. /\ free # {} /\ c \in 0..B - 1 /\ c \notin taken
       /\ \A r \in 0..B - 1 : Distance(s, r, B) < Distance(s, c, B) => r \in taken
  BY <1>7, <1>10, <1>11, <1>12
<1>14. \E j \in 0..Lanes - 1 : c = ProbedCell(hash, j)
  BY <1>9 DEF c
<1> QED BY <1>13, <1>14 DEF free, c, k, s, B

\* The cells found for the first hashes, hash by hash.
Finding(cells, n, hash) == CHOOSE next \in {WithCell(before, n, hash) : before \in {cells}} : TRUE
Placing(hashes) == CHOOSE after : after = [n \in 0..Len(hashes) |->
  IF n = 0 THEN <<>> ELSE Finding(after[n - 1], n, hashes[n])]
FindsInTurn(after, hashes) ==
  /\ after[0] = <<>>
  /\ \A n \in 0..Len(hashes) - 1 : after[n + 1] = WithCell(after[n], n + 1, hashes[n + 1])

LEMMA PlacingIs ==
  ASSUME NEW hashes, Len(hashes) \in Nat, NEW after, after = Placing(hashes)
  PROVE  CellsFor(hashes) = after[Len(hashes)] /\ FindsInTurn(after, hashes)
<1> DEFINE Upto(g, k) == g = [n \in 0..k |-> IF n = 0 THEN <<>> ELSE Finding(g[n - 1], n, hashes[n])]
           S == {k \in Nat : \E g : Upto(g, k)}
           N == Len(hashes)
<1>0. N \in Nat
  OBVIOUS
<1>1. 0 \in S
  <2> DEFINE e == [n \in 0..0 |-> <<>>]
             g == [n \in 0..0 |-> IF n = 0 THEN <<>> ELSE Finding(e[n - 1], n, hashes[n])]
  <2>1. e = g
    OBVIOUS
  <2> HIDE DEF e
  <2>2. Upto(e, 0)
    BY <2>1
  <2> QED BY <2>2
<1>2. ASSUME NEW k \in Nat, k \in S PROVE k + 1 \in S
  <2>1. PICK e : Upto(e, k)
    BY <1>2
  <2> DEFINE g == [n \in 0..k + 1 |-> IF n = k + 1 THEN Finding(e[k], n, hashes[n]) ELSE e[n]]
  <2>2. ASSUME NEW n \in 0..k + 1
        PROVE  g[n] = IF n = 0 THEN <<>> ELSE Finding(g[n - 1], n, hashes[n])
    <3>1. CASE n \in 0..k
      <4>1. g[n] = e[n] /\ (n # 0 => g[n - 1] = e[n - 1])
        BY <3>1
      <4> HIDE DEF g
      <4>2. e[n] = IF n = 0 THEN <<>> ELSE Finding(e[n - 1], n, hashes[n])
        BY <2>1, <3>1
      <4> QED BY <4>1, <4>2
    <3>2. CASE n = k + 1
      <4>1. g[n] = Finding(e[k], n, hashes[n]) /\ g[k] = e[k] /\ n - 1 = k /\ n # 0
        BY <3>2
      <4> HIDE DEF g
      <4> QED BY <3>2, <4>1
    <3> QED BY <3>1, <3>2
  <2>3. g = [n \in 0..k + 1 |-> g[n]]
    OBVIOUS
  <2> HIDE DEF g
  <2> DEFINE h == [n \in 0..k + 1 |-> IF n = 0 THEN <<>> ELSE Finding(g[n - 1], n, hashes[n])]
  <2>4. \A n \in 0..k + 1 : h[n] = g[n]
    BY <2>2
  <2>5. h = [n \in 0..k + 1 |-> h[n]]
    OBVIOUS
  <2>6. g = h
    <3> HIDE DEF h
    <3> QED BY <2>3, <2>4, <2>5
  <2>7. Upto(g, k + 1)
    BY Zenon, <2>6
  <2> HIDE DEF Upto
  <2>8. k + 1 \in Nat
    OBVIOUS
  <2> QED BY <2>7, <2>8
<1>3. Nat \subseteq S
  <2> HIDE DEF S
  <2> QED BY <1>1, <1>2, SetInduction
<1>4. \E g : Upto(g, N)
  BY <1>0, <1>3
<1>5. Upto(after, N)
  BY <1>4 DEF Placing
<1>6. CellsFor(hashes) = after[N]
  BY DEF CellsFor, Placing, Finding
<1>7. after[0] = <<>>
  BY <1>0, <1>5
<1>8. ASSUME NEW n \in 0..N - 1 PROVE after[n + 1] = WithCell(after[n], n + 1, hashes[n + 1])
  <2>1. n + 1 \in 0..N /\ n + 1 # 0 /\ (n + 1) - 1 = n
    BY <1>0
  <2>2. after[n + 1] = Finding(after[n], n + 1, hashes[n + 1])
    BY <1>5, <2>1
  <2> QED BY <2>2 DEF Finding
<1> QED BY <1>6, <1>7, <1>8 DEF FindsInTurn

\* The first hashes of a sequence, and cells in which they are placed one after the other.
First(names, n) == {names[k] : k \in 1..n}
PlacedIn(cells, names, n) ==
  /\ cells \in Seq(0..Buckets - 1) /\ Len(cells) = n
  /\ \A k \in 1..n : \E j \in 0..Lanes - 1 : cells[k] = ProbedCell(names[k], j)
  /\ \E place : /\ Probed(place, First(names, n), Starts, Buckets)
                /\ \A k \in 1..n : place[names[k]] = cells[k]

\* Another cell is found for the next hash.
LEMMA PlacesNext ==
  ASSUME Buckets \in Nat \ {0}, NEW H \in SUBSET Nat, IsFiniteSet(H), Sparse(H, Starts, Reach, Buckets),
         NEW seq, NEW names, Stands(seq, names, H, Buckets), NEW n \in 0..Len(seq) - 1,
         NEW cells, PlacedIn(cells, names, n)
  PROVE  /\ PlacedIn(WithCell(cells, n + 1, seq[n + 1]), names, n + 1)
         /\ \A k \in 1..n : WithCell(cells, n + 1, seq[n + 1])[k] = cells[k]
<1> DEFINE B == Buckets
           x == names[n + 1]
           hash == seq[n + 1]
           taken == ToSet(cells)
           keys == First(names, n)
<1>1. /\ n \in Nat /\ n + 1 \in 1..Len(seq) /\ Len(seq) \in Nat
      /\ x \in H /\ hash \in Nat /\ x \in Nat /\ hash % B = x % B
      /\ \A k \in 1..n : names[k] \in H /\ names[k] # x
  <2>1. n + 1 \in 1..Len(seq) /\ seq \in Seq(Nat) /\ names \in Seq(H) /\ Len(names) = Len(seq)
        /\ Len(seq) \in Nat
    BY DEF Stands
  <2>2. \A k \in 1..n : k \in 1..Len(seq) /\ k # n + 1
    BY <2>1
  <2>3. \A k \in 1..Len(seq) : names[k] \in H /\ seq[k] \in Nat
    BY <2>1
  <2>4. \A k, l \in 1..Len(seq) : names[k] = names[l] => k = l
    BY DEF Stands
  <2>5. hash % B = x % B
    BY <2>1 DEF Stands
  <2>6. x \in H /\ hash \in Nat
    BY <2>1, <2>3
  <2>7. x \in Nat
    BY <2>6
  <2>8. n \in Nat
    BY <2>1
  <2>9. ASSUME NEW k \in 1..n PROVE names[k] \in H /\ names[k] # x
    BY <2>1, <2>2, <2>3, <2>4
  <2> HIDE DEF x, hash
  <2> QED BY <2>1, <2>5, <2>6, <2>7, <2>8, <2>9
<1>2. /\ cells \in Seq(0..B - 1) /\ Len(cells) = n
      /\ \A k \in 1..n : \E j \in 0..Lanes - 1 : cells[k] = ProbedCell(names[k], j)
  BY DEF PlacedIn
<1>3. PICK place : Probed(place, keys, Starts, B) /\ \A k \in 1..n : place[names[k]] = cells[k]
  BY DEF PlacedIn
<1>4. x \in H \ keys /\ keys \in SUBSET H
  BY <1>1 DEF First
<1>5. /\ \A k \in H : Starts[k] \in 0..B - 1 /\ Starts[k] = k % B
      /\ B \in Nat \ {0}
  <2>1. \A k \in Nat : Starts[k] = k % B
    BY DEF Starts
  <2> HIDE DEF B
  <2>2. B \in Nat \ {0}
    BY DEF B
  <2>3. ASSUME NEW k \in Nat PROVE k % B \in 0..B - 1
    <3>1. k \in Int
      OBVIOUS
    <3> QED BY <2>2, <3>1, Modulo
  <2> QED BY <2>1, <2>2, <2>3
<1>6. Reach \in 1..B
  BY GroupAssumption DEF Reach
<1> HIDE DEF B, x, hash, keys
<1>7. PICK q \in 0..B - 1 : Distance(Starts[x], q, B) < Reach /\ \A k \in keys : place[k] # q
  <2>1. Sparse(H, Starts, Reach, B) /\ Probed(place, keys, Starts, B)
    BY <1>3 DEF B
  <2>2. \A k \in H : Starts[k] \in 0..B - 1
    BY <1>5
  <2>3. B \in Nat \ {0}
    BY <1>5
  <2> DEFINE start == Starts
             lanes == Reach
  <2> HIDE DEF start, lanes
  <2>4. \E q : Free(q, place, keys, start[x], lanes, B)
    <3>1. lanes \in 1..B
      BY <1>6 DEF lanes
    <3>2. /\ \A k \in H : start[k] \in 0..B - 1
          /\ Sparse(H, start, lanes, B) /\ Probed(place, keys, start, B)
      BY <2>1, <2>2 DEF start, lanes
    <3>3. keys \in SUBSET H /\ x \in H /\ x \notin keys
      BY <1>4
    <3> QED BY <2>3, <3>1, <3>2, <3>3, RoomLeft
  <2> QED BY <2>4 DEF start, lanes, Free
<1>8. taken = {cells[k] : k \in 1..n}
  BY <1>2 DEF ToSet
<1> HIDE DEF taken
<1>9. taken = {place[k] : k \in keys}
  BY <1>3, <1>8 DEF First, keys
<1>10. q \notin taken /\ Distance(hash % B, q, B) < Reach
  BY <1>1, <1>4, <1>5, <1>7, <1>9
<1> DEFINE c == ProbedCell(hash, Min(Untaken(hash, taken)))
<1>11. /\ Untaken(hash, taken) # {} /\ c \in 0..B - 1 /\ c \notin taken
       /\ \E k \in 0..Lanes - 1 : c = ProbedCell(hash, k)
       /\ \A r \in 0..B - 1 : Distance(hash % B, r, B) < Distance(hash % B, c, B) => r \in taken
  BY <1>1, <1>10, FindsCell DEF B
<1>12. WithCell(cells, n + 1, hash) = Append(cells, c)
  <2>1. ~(Len(cells) < (n + 1) - 1)
    BY <1>1, <1>2
  <2> QED BY <1>11, <2>1 DEF WithCell, taken
<1>13. \E j \in 0..Lanes - 1 : c = ProbedCell(x, j)
  <2>1. PICK k \in 0..Lanes - 1 : c = ProbedCell(hash, k)
    BY <1>11
  <2>2. ProbedCell(hash, k) = ((hash % B) + k) % B /\ ProbedCell(x, k) = ((x % B) + k) % B
    BY <1>1, FirstLanes DEF B
  <2> QED BY <1>1, <2>1, <2>2
<1> HIDE DEF c
<1> DEFINE next == [k \in keys \cup {x} |-> IF k = x THEN c ELSE place[k]]
           more == Append(cells, c)
<1>14. Probed(next, keys \cup {x}, Starts, B)
  <2>1. \A k \in keys : place[k] # c
    BY <1>9, <1>11
  <2>2. \A r \in 0..B - 1 : Distance(Starts[x], r, B) < Distance(Starts[x], c, B) =>
                              \E k \in keys : place[k] = r
    BY <1>1, <1>4, <1>5, <1>9, <1>11
  <2>3. Starts[x] \in 0..B - 1 /\ x \notin keys
    BY <1>4, <1>5
  <2> HIDE DEF next
  <2>4. next = [k \in keys \cup {x} |-> IF k = x THEN c ELSE place[k]]
    BY DEF next
  <2> QED BY <1>3, <1>5, <1>11, <2>1, <2>2, <2>3, <2>4, ProbedExtends
<1>15. keys \cup {x} = First(names, n + 1)
  <2>1. 1..n + 1 = (1..n) \cup {n + 1}
    BY <1>1
  <2> QED BY <2>1 DEF First, keys, x
<1>16. /\ more \in Seq(0..B - 1) /\ Len(more) = n + 1
       /\ more[n + 1] = c /\ \A k \in 1..n : more[k] = cells[k]
  BY <1>1, <1>2, <1>11
<1> HIDE DEF more
<1>17. ASSUME NEW k \in 1..n + 1 PROVE next[names[k]] = more[k]
  <2>1. CASE k = n + 1
    BY <1>16, <2>1 DEF x
  <2>2. CASE k \in 1..n
    <3>1. names[k] \in keys /\ names[k] # x
      BY <1>1, <2>2 DEF First, keys
    <3> QED BY <1>3, <1>16, <2>2, <3>1
  <2> QED BY <1>1, <2>1, <2>2
<1>18. ASSUME NEW k \in 1..n + 1 PROVE \E j \in 0..Lanes - 1 : more[k] = ProbedCell(names[k], j)
  <2>1. CASE k = n + 1
    BY <1>13, <1>16, <2>1 DEF x
  <2>2. CASE k \in 1..n
    BY <1>2, <1>16, <2>2
  <2> QED BY <1>1, <2>1, <2>2
<1> HIDE DEF next
<1>19. PlacedIn(more, names, n + 1)
  BY <1>14, <1>15, <1>16, <1>17, <1>18 DEF PlacedIn, B
<1> QED BY <1>12, <1>16, <1>19 DEF more, hash

\* All of a sequence's hashes are placed, and any first ones of them in the same cells.
Placement(cells, names, count) ==
  /\ Len(cells) = count
  /\ \A n \in 0..count : \E part : /\ PlacedIn(part, names, n)
                                   /\ \A k \in 1..n : part[k] = cells[k]

\* Hashes that are not crowded are all placed, each in the lanes its probe looks at first.
LEMMA AllArePlaced ==
  ASSUME Buckets \in Nat \ {0}, NEW H \in SUBSET Nat, IsFiniteSet(H), Sparse(H, Starts, Reach, Buckets),
         NEW seq, NEW names, Stands(seq, names, H, Buckets)
  PROVE  Placement(CellsFor(seq), names, Len(seq))
<1> DEFINE N == Len(seq)
           after == Placing(seq)
           S == {n \in Nat : n <= N => /\ PlacedIn(after[n], names, n)
                                       /\ \A m \in 0..n : \A k \in 1..m : after[m][k] = after[n][k]}
<1>1. N \in Nat
  BY DEF Stands
<1>2. CellsFor(seq) = after[N] /\ FindsInTurn(after, seq)
  BY <1>1, PlacingIs
<1> HIDE DEF after
<1>3. 0 \in S
  <2>1. after[0] = <<>>
    BY <1>2 DEF FindsInTurn
  <2>2. First(names, 0) = {}
    BY DEF First
  <2>3. Probed([h \in {} |-> 0], {}, Starts, Buckets)
    BY DEF Probed
  <2>4. PlacedIn(<<>>, names, 0)
    <3>1. <<>> \in Seq(0..Buckets - 1) /\ Len(<<>>) = 0 /\ 1..0 = {}
      OBVIOUS
    <3>2. Probed([h \in {} |-> 0], First(names, 0), Starts, Buckets)
      BY <2>2, <2>3
    <3>3. \E place : Probed(place, First(names, 0), Starts, Buckets)
      BY <3>2
    <3> QED BY <3>1, <3>3 DEF PlacedIn
  <2>5. \A m \in 0..0 : m = 0 /\ 1..m = {}
    OBVIOUS
  <2> QED BY <2>1, <2>4, <2>5
<1>4. ASSUME NEW n \in Nat, n \in S PROVE n + 1 \in S
  <2> SUFFICES ASSUME n + 1 <= N
               PROVE  /\ PlacedIn(after[n + 1], names, n + 1)
                      /\ \A m \in 0..n + 1 : \A k \in 1..m : after[m][k] = after[n + 1][k]
    OBVIOUS
  <2>1. n <= N /\ n \in 0..N - 1
    BY <1>1
  <2>2. after[n + 1] = WithCell(after[n], n + 1, seq[n + 1])
    BY <1>2, <2>1 DEF FindsInTurn
  <2>3. PlacedIn(after[n], names, n) /\ \A m \in 0..n : \A k \in 1..m : after[m][k] = after[n][k]
    BY <1>4, <2>1
  <2>4. PlacedIn(after[n + 1], names, n + 1) /\ \A k \in 1..n : after[n + 1][k] = after[n][k]
    BY <2>1, <2>2, <2>3, PlacesNext
  <2>5. ASSUME NEW m \in 0..n + 1, NEW k \in 1..m PROVE after[m][k] = after[n + 1][k]
    <3>1. CASE m = n + 1
      BY <3>1
    <3>2. CASE m # n + 1
      <4>1. m \in 0..n /\ k \in 1..n
        BY <3>2
      <4> QED BY <2>3, <2>4, <4>1
    <3> QED BY <3>1, <3>2
  <2> QED BY <2>4, <2>5
<1>5. Nat \subseteq S
  <2> HIDE DEF S
  <2> QED BY <1>3, <1>4, SetInduction
<1>6. \A n \in 0..N : PlacedIn(after[n], names, n)
  <2>1. \A n \in 0..N : n \in Nat /\ n <= N
    BY <1>1
  <2> QED BY <1>5, <2>1
<1>7. \A m \in 0..N : \A k \in 1..m : after[m][k] = after[N][k]
  BY <1>1, <1>5
<1>8. Len(after[N]) = N
  BY <1>1, <1>6 DEF PlacedIn
<1> QED BY <1>2, <1>6, <1>7, <1>8 DEF Placement
-----------------------------------------------------------------------------
\* All have come to the second barrier, and the destination is there.
Ready == /\ FewHashes /\ ControlInv /\ CountsInv /\ arrived[2] = Threads
         /\ Buckets \in Powers /\ Buckets <= Cardinality(DOMAIN counts)

\* The hashes counted by some counters.
CountedIn(low, high) == {hash \in Seen : CounterOf(hash) \in low..high - 1}

\* What the counters are then.
LEMMA CountersAre ==
  ASSUME Ready
  PROVE  /\ Cardinality(DOMAIN counts) \in Powers /\ DOMAIN counts = 0..Cardinality(DOMAIN counts) - 1
         /\ TablePartitions \in Powers /\ TablePartitions <= Cardinality(DOMAIN counts)
         /\ IsFiniteSet(Seen) /\ Seen \subseteq Nat
         /\ \A c \in DOMAIN counts : /\ IsFiniteSet({hash \in Seen : CounterOf(hash) = c})
                                     /\ counts[c] = Cardinality({hash \in Seen : CounterOf(hash) = c})
<1>1. counts # Unallocated /\ Cardinality(DOMAIN counts) = CounterCount /\ Merged = Seen
  BY AllMerged DEF Ready
<1>2. /\ DOMAIN counts = 0..CounterCount - 1
      /\ \A c \in DOMAIN counts : counts[c] = Cardinality(Counted(c))
  BY <1>1 DEF Ready, CountsInv, CountersRight
<1>3. CounterCount \in Powers /\ CounterCount >= TablePartitions /\ CounterCount \in Nat
  BY CounterFacts DEF Ready, CountsInv
<1>4. TablePartitions \in Powers /\ TablePartitions \in Nat
  BY PartitionCount, PowersArePositive DEF Ready, FewHashes
<1>5. IsFiniteSet(Seen)
  BY LocalFacts DEF Ready, CountsInv
<1>6. Seen \subseteq Nat
  <2>1. \A t \in Threads : DOMAIN local[t] \subseteq Hashes
    BY DEF Ready, CountsInv, RowsInv
  <2>2. Seen \subseteq Hashes
    BY <2>1 DEF Seen
  <2> QED BY <2>2, BuilderAssumption
<1>7. \A c : Counted(c) = {hash \in Seen : CounterOf(hash) = c}
  BY <1>1 DEF Counted
<1>8. \A c : {hash \in Seen : CounterOf(hash) = c} \in SUBSET Seen
  OBVIOUS
<1>9. \A c : IsFiniteSet({hash \in Seen : CounterOf(hash) = c})
  BY <1>5, <1>8, FS_Subset
<1>10. TablePartitions <= CounterCount
  BY <1>3, <1>4
<1>11. \A c \in DOMAIN counts : counts[c] = Cardinality({hash \in Seen : CounterOf(hash) = c})
  BY <1>2, <1>7
<1>12. /\ Cardinality(DOMAIN counts) \in Powers /\ DOMAIN counts = 0..Cardinality(DOMAIN counts) - 1
       /\ TablePartitions <= Cardinality(DOMAIN counts)
  BY <1>1, <1>2, <1>3, <1>10
<1> QED BY <1>4, <1>5, <1>6, <1>9, <1>11, <1>12

\* Where the hashes of a counter start.
LEMMA CounterPlaces ==
  ASSUME Ready, NEW hash \in Seen
  PROVE  /\ CounterOf(hash) \in DOMAIN counts
         /\ MaskedHash(CounterOf(hash), Cardinality(DOMAIN counts)) % Buckets = hash % Buckets
         /\ PartOf(hash) = CounterOf(hash) \div Scale
<1> DEFINE C == Cardinality(DOMAIN counts)
<1>1. hash \in Nat /\ C \in Powers /\ TablePartitions \in Powers /\ TablePartitions <= C
      /\ Buckets \in Powers /\ Buckets <= C /\ DOMAIN counts = 0..C - 1
  BY CountersAre DEF Ready
<1> HIDE DEF C
<1>2. PartitionOf(hash, C) \in 0..C - 1 /\ MaskedHash(PartitionOf(hash, C), C) % Buckets = hash % Buckets
  BY <1>1, CounterStandsFor
<1>3. PartitionOf(hash, TablePartitions) = PartitionOf(hash, C) \div (C \div TablePartitions)
  BY <1>1, CounterStandsFor
<1> QED BY <1>1, <1>2, <1>3 DEF C, CounterOf, PartOf, Scale

\* The hashes that a counter lets a thread pretend to write start where those do that it counted.
LEMMA CounterStands ==
  ASSUME Ready, NEW c \in DOMAIN counts
  PROVE  StandsFor([k \in 1..counts[c] |-> MaskedHash(c, Cardinality(DOMAIN counts))],
                   {hash \in Seen : CounterOf(hash) = c}, Buckets)
<1> DEFINE C == Cardinality(DOMAIN counts)
           set == {hash \in Seen : CounterOf(hash) = c}
           n == Cardinality(set)
           seq == [k \in 1..counts[c] |-> MaskedHash(c, C)]
<1>1. IsFiniteSet(set) /\ counts[c] = n /\ C \in Powers /\ c \in 0..C - 1
  BY CountersAre
<1>2. n \in Nat /\ ExistsBijection(1..n, set)
  BY <1>1, FS_CardinalityType
<1>3. PICK names : names \in Bijection(1..n, set)
  BY <1>2 DEF ExistsBijection
<1>4. /\ names \in [1..n -> set]
      /\ \A k, l \in 1..n : names[k] = names[l] => k = l
      /\ \A hash \in set : \E k \in 1..n : names[k] = hash
  BY <1>3 DEF Bijection, Injection, Surjection, IsInjective
<1>5. MaskedHash(c, C) \in Nat
  <2>1. PICK i \in 0..30 : C = 2 ^ i
    BY <1>1 DEF Powers
  <2>2. i \in 0..64 /\ i \in Nat /\ c \in Nat
    BY <1>1
  <2>3. MaskedHash(c, C) = Reversed(c, i)
    BY <2>1, <2>2, LogIs DEF MaskedHash
  <2>4. Reversed(c, i) \in 0..2 ^ i - 1 /\ 2 ^ i \in Nat
    BY <2>2, ReversedRange, PowerType
  <2> QED BY <2>3, <2>4
<1>6. \A hash \in set : MaskedHash(c, C) % Buckets = hash % Buckets
  BY CounterPlaces
<1> HIDE DEF C, set
<1>7. /\ seq \in [1..n -> Nat] /\ \A k \in 1..n : seq[k] = MaskedHash(c, C)
  BY <1>1, <1>5
<1> HIDE DEF seq, n
<1>8. /\ seq \in Seq(Nat) /\ Len(seq) = n /\ names \in Seq(set) /\ Len(names) = n
  BY <1>2, <1>4, <1>7
<1>9. \A k \in 1..n : seq[k] % Buckets = names[k] % Buckets
  BY <1>4, <1>6, <1>7
<1>10. Stands(seq, names, set, Buckets)
  BY <1>4, <1>8, <1>9 DEF Stands
<1> QED BY <1>10 DEF StandsFor, seq, set, C

\* And so do those of all the counters it pretends to write the hashes of.
LEMMA PretendedStands ==
  ASSUME Ready, NEW low \in Nat, NEW high \in Nat, low <= high, high <= Cardinality(DOMAIN counts)
  PROVE  StandsFor(Pretended(low, high), CountedIn(low, high), Buckets)
<1> DEFINE C == Cardinality(DOMAIN counts)
           n == high - low
           seqs == [c \in 1..n |-> [k \in 1..counts[low + c - 1] |-> MaskedHash(low + c - 1, C)]]
           sets == [c \in 1..n |-> {hash \in Seen : CounterOf(hash) = low + c - 1}]
<1>1. DOMAIN counts = 0..C - 1 /\ C \in Nat
  BY CountersAre, PowersArePositive
<1>2. ASSUME NEW c \in 1..n PROVE StandsFor(seqs[c], sets[c], Buckets)
  <2> DEFINE d == low + c - 1
  <2>1. d \in DOMAIN counts
    BY <1>1
  <2> HIDE DEF d
  <2>2. StandsFor([k \in 1..counts[d] |-> MaskedHash(d, C)], {hash \in Seen : CounterOf(hash) = d}, Buckets)
    BY <2>1, CounterStands
  <2> QED BY <2>2 DEF d
<1>3. ASSUME NEW c \in 1..n, NEW d \in 1..n, c # d PROVE sets[c] \cap sets[d] = {}
  <2>1. low + c - 1 # low + d - 1
    BY <1>3
  <2> QED BY <2>1
<1>4. n \in Nat
  OBVIOUS
<1>5. seqs = [c \in 1..n |-> seqs[c]]
  OBVIOUS
<1>6. UNION {sets[c] : c \in 1..n} = CountedIn(low, high)
  <2>1. ASSUME NEW hash \in CountedIn(low, high) PROVE \E c \in 1..n : hash \in sets[c]
    <3> DEFINE c == CounterOf(hash) - low + 1
    <3>1. CounterOf(hash) \in low..high - 1 /\ hash \in Seen
      BY DEF CountedIn
    <3>2. c \in 1..n /\ low + c - 1 = CounterOf(hash)
      BY <3>1
    <3> QED BY <3>1, <3>2
  <2>2. ASSUME NEW c \in 1..n, NEW hash \in sets[c] PROVE hash \in CountedIn(low, high)
    <3>1. low + c - 1 \in low..high - 1
      OBVIOUS
    <3> QED BY <3>1 DEF CountedIn
  <2> QED BY <2>1, <2>2
<1>7. Pretended(low, high) = FlattenSeq(seqs)
  BY DEF Pretended
<1> HIDE DEF n, seqs, sets
<1>8. \A c \in 1..n : StandsFor(seqs[c], sets[c], Buckets)
  BY <1>2
<1>9. \A c, d \in 1..n : c # d => sets[c] \cap sets[d] = {}
  BY <1>3
<1>10. AllStand(seqs, sets, n, Buckets)
  BY <1>5, <1>8, <1>9 DEF AllStand
<1>11. StandsFor(FlattenSeq(seqs), CountedIn(low, high), Buckets)
  BY <1>4, <1>6, <1>10, FlattenStands
<1> QED BY <1>7, <1>11
-----------------------------------------------------------------------------
\* A quotient below a bound.
LEMMA QuotientBelow ==
  ASSUME NEW x \in Nat, NEW s \in Nat \ {0}, NEW l \in Nat
  PROVE  x \div s < l <=> x < l * s
<1> DEFINE q == x \div s
           r == x % s
<1>1. q \in Nat /\ r \in 0..s - 1 /\ x = q * s + r
  BY Division
<1> HIDE DEF q, r
<1>2. CASE q < l
  <2>1. PICK d \in Nat : l = q + 1 + d
    <3>1. l - q - 1 \in Nat /\ l = q + 1 + (l - q - 1)
      BY <1>1, <1>2
    <3> QED BY <3>1
  <2>2. l * s = q * s + s + d * s /\ d * s \in Nat /\ q * s \in Nat
    BY <1>1, <2>1
  <2>3. x < l * s
    BY <1>1, <2>2
  <2> QED BY <1>2, <2>3 DEF q
<1>3. CASE ~(q < l)
  <2>1. PICK d \in Nat : q = l + d
    <3>1. q - l \in Nat /\ q = l + (q - l)
      BY <1>1, <1>3
    <3> QED BY <3>1
  <2>2. q * s = l * s + d * s /\ d * s \in Nat /\ l * s \in Nat
    BY <1>1, <2>1
  <2>3. ~(x < l * s)
    BY <1>1, <2>2
  <2> QED BY <1>3, <2>3 DEF q
<1> QED BY <1>2, <1>3

\* The hashes of the partitions below one.
HashesBelow(part) == {hash \in Seen : PartOf(hash) < part}

\* The counters below and above the first of a partition's count the hashes of the partitions there.
LEMMA CountedAre ==
  ASSUME Ready, NEW part \in 0..TablePartitions
  PROVE  /\ part * Scale \in 0..Cardinality(DOMAIN counts)
         /\ CountedIn(0, part * Scale) = HashesBelow(part)
         /\ CountedIn(part * Scale, Cardinality(DOMAIN counts)) = {hash \in Seen : ~(PartOf(hash) < part)}
<1> DEFINE C == Cardinality(DOMAIN counts)
           P == TablePartitions
           S == Scale
<1>1. C \in Powers /\ P \in Powers /\ P <= C /\ DOMAIN counts = 0..C - 1
  BY CountersAre
<1>2. S \in Nat \ {0} /\ C = S * P
  <2>1. 0 \in Nat
    OBVIOUS
  <2>2. C \div P \in Nat \ {0} /\ C = (C \div P) * P
    BY <1>1, <2>1, CounterStandsFor
  <2> QED BY <2>2 DEF Scale
<1>3. P \in Nat \ {0} /\ C \in Nat \ {0}
  BY <1>1, PowersArePositive
<1>4. \A hash \in Seen : CounterOf(hash) \in 0..C - 1 /\ PartOf(hash) = CounterOf(hash) \div S
  BY <1>1, CounterPlaces
<1> HIDE DEF C, P, S
<1>5. part \in 0..P
  BY DEF P
<1>6. part * S \in 0..C
  <2>1. PICK d \in Nat : P = part + d
    <3>1. P - part \in Nat /\ P = part + (P - part)
      BY <1>3, <1>5
    <3> QED BY <3>1
  <2>2. S * P = part * S + d * S /\ d * S \in Nat /\ part * S \in Nat
    BY <1>2, <1>5, <2>1
  <2> QED BY <1>2, <1>3, <2>2
<1>7. ASSUME NEW hash \in Seen
      PROVE  /\ CounterOf(hash) \in 0..part * S - 1 <=> PartOf(hash) < part
             /\ CounterOf(hash) \in part * S..C - 1 <=> ~(PartOf(hash) < part)
  <2> DEFINE c == CounterOf(hash)
             e == part * S
  <2>1. c \in 0..C - 1 /\ PartOf(hash) = c \div S /\ part \in Nat /\ c \in Nat
    BY <1>3, <1>4, <1>5
  <2>2. PartOf(hash) < part <=> c < e
    BY <1>2, <2>1, QuotientBelow
  <2> HIDE DEF c, e
  <2>3. c \in 0..e - 1 <=> PartOf(hash) < part
    BY <1>3, <1>6, <2>1, <2>2 DEF e
  <2>4. c \in e..C - 1 <=> ~(PartOf(hash) < part)
    BY <1>3, <1>6, <2>1, <2>2 DEF e
  <2> QED BY <2>3, <2>4 DEF c, e
<1>8. CountedIn(0, part * S) = HashesBelow(part)
  BY <1>7 DEF CountedIn, HashesBelow
<1>9. CountedIn(part * S, C) = {hash \in Seen : ~(PartOf(hash) < part)}
  BY <1>7 DEF CountedIn
<1> QED BY <1>6, <1>8, <1>9 DEF C, S

\* The partitions of a thread are among all.
LEMMA OwnedBounds ==
  ASSUME NEW total \in Nat, NEW t \in Threads
  PROVE  /\ OwnedRange(total, t).low \in 0..total /\ OwnedRange(total, t).high \in 0..total
         /\ OwnedRange(total, t).low <= OwnedRange(total, t).high
<1> DEFINE floor == total \div Parallelism
           rest == total % Parallelism
           a == t * floor
           b == Parallelism * floor
<1>1. /\ floor \in Nat /\ rest \in 0..Parallelism - 1 /\ total = floor * Parallelism + rest
      /\ Parallelism \in Nat \ {0} /\ t \in 0..Parallelism - 1
  BY Shares, BuilderAssumption DEF Threads
<1>2. /\ OwnedRange(total, t).low = t * floor + (IF t <= rest THEN t ELSE rest)
      /\ OwnedRange(total, t).high = t * floor + floor + (IF t < rest THEN t + 1 ELSE rest)
  BY RangeBounds
<1> HIDE DEF floor, rest
<1>3. a \in Nat /\ b \in Nat /\ a + floor <= b /\ floor * Parallelism = b
  <2>1. PICK d \in Nat : Parallelism = t + 1 + d
    <3>1. Parallelism - t - 1 \in Nat /\ Parallelism = t + 1 + (Parallelism - t - 1)
      BY <1>1
    <3> QED BY <3>1
  <2>2. Parallelism * floor = t * floor + floor + d * floor /\ d * floor \in Nat /\ t * floor \in Nat
    BY <1>1, <2>1
  <2> QED BY <1>1, <2>2
<1>4. total = b + rest
  BY <1>1, <1>3
<1> HIDE DEF a, b
<1>5. /\ OwnedRange(total, t).low = a + (IF t <= rest THEN t ELSE rest)
      /\ OwnedRange(total, t).high = a + floor + (IF t < rest THEN t + 1 ELSE rest)
  BY <1>2 DEF a
<1> QED BY <1>1, <1>3, <1>4, <1>5

\* The bounds of a thread's partitions.
Low(t) == OwnedRange(TablePartitions, t).low
High(t) == OwnedRange(TablePartitions, t).high

\* Where a thread's order of its hashes comes among all: below those it pretends to write first.
LEMMA OrderStands ==
  ASSUME Ready, NEW t \in Threads, NEW order \in Orders(t)
  PROVE  Stands(order, order, MergedHashes(t), Buckets)
<1> DEFINE H == MergedHashes(t)
           n == Cardinality(H)
<1>1. H \in SUBSET Seen /\ IsFiniteSet(Seen) /\ Seen \subseteq Nat
  BY CountersAre DEF MergedHashes, Seen
<1>2. IsFiniteSet(H) /\ n \in Nat /\ H \subseteq Nat
  <2> HIDE DEF H
  <2>1. IsFiniteSet(H)
    BY <1>1, FS_Subset
  <2> QED BY <1>1, <2>1, FS_CardinalityType
<1>3. order \in [1..n -> H] /\ \A i, j \in 1..n : i # j => order[i] # order[j]
  BY DEF Orders, SetToSeqs
<1> HIDE DEF n
<1> HIDE DEF H
<1>4. order \in Seq(H) /\ Len(order) = n /\ order \in Seq(Nat)
  <2>1. order \in Seq(H) /\ Len(order) = n
    BY <1>2, <1>3
  <2>2. order \in [1..n -> Nat]
    BY <1>2, <1>3
  <2> QED BY <1>2, <2>1, <2>2
<1>5. order \in Injection(1..n, H)
  BY <1>3 DEF Injection, IsInjective
<1>6. Cardinality(1..n) = Cardinality(H)
  BY <1>2, IntervalSize DEF n
<1>7. order \in Surjection(1..n, H)
  BY <1>2, <1>5, <1>6, FS_Injection
<1>8. \A hash \in H : \E k \in 1..n : order[k] = hash
  BY <1>7 DEF Surjection
<1>9. \A k, l \in 1..n : order[k] = order[l] => k = l
  BY <1>3
<1> QED BY <1>4, <1>8, <1>9 DEF Stands, H

\* What all of a sequence that stands for a set names.
LEMMA AllFirst ==
  ASSUME NEW seq, NEW names, NEW set, NEW size, Stands(seq, names, set, size)
  PROVE  First(names, Len(seq)) = set
<1>1. names \in Seq(set) /\ Len(names) = Len(seq) /\ \A hash \in set : \E k \in 1..Len(seq) : names[k] = hash
  BY DEF Stands
<1>2. \A k \in 1..Len(seq) : names[k] \in set
  BY <1>1
<1> QED BY <1>1, <1>2 DEF First

\* The beginning of two sequences, one after the other.
LEMMA FirstOfBoth ==
  ASSUME NEW S, NEW r \in Seq(S), NEW T, NEW s \in Seq(T), NEW k \in 0..Len(r)
  PROVE  First(r \o s, k) = First(r, k)
<1>1. \A i \in 1..k : (r \o s)[i] = r[i]
  OBVIOUS
<1> QED BY <1>1 DEF First

\* Fewer hashes are no more crowded.
LEMMA FewerAreSparse ==
  ASSUME NEW more, IsFiniteSet(more), NEW keys, keys \subseteq more, NEW start, NEW lanes, NEW size,
         lanes \in Nat, size \in Nat, Sparse(more, start, lanes, size)
  PROVE  Sparse(keys, start, lanes, size)
<1> SUFFICES ASSUME NEW p \in 0..size - 1, NEW m \in lanes..size
             PROVE  Cardinality(StartingIn(keys, start, p, m, size)) <= m
  BY DEF Sparse
<1> DEFINE few == StartingIn(keys, start, p, m, size)
           many == StartingIn(more, start, p, m, size)
<1>1. few \in SUBSET many /\ many \in SUBSET more
  BY DEF StartingIn
<1>2. Cardinality(many) <= m
  BY DEF Sparse
<1> HIDE DEF few, many
<1>3. IsFiniteSet(many)
  BY <1>1, FS_Subset
<1>4. IsFiniteSet(few) /\ Cardinality(few) <= Cardinality(many)
  BY <1>1, <1>3, FS_Subset
<1>5. Cardinality(few) \in Nat /\ Cardinality(many) \in Nat
  BY <1>3, <1>4, FS_CardinalityType
<1> QED BY <1>2, <1>4, <1>5 DEF few

\* The hashes a thread merges are those of the partitions between its bounds.
LEMMA MergedBetween ==
  ASSUME Ready, NEW t \in Threads
  PROVE  /\ Low(t) \in 0..TablePartitions /\ High(t) \in 0..TablePartitions /\ Low(t) <= High(t)
         /\ TablePartitions \in Nat
         /\ HashesBelow(Low(t)) \cup MergedHashes(t) = HashesBelow(High(t))
         /\ HashesBelow(Low(t)) \cap MergedHashes(t) = {}
<1>1. TablePartitions \in Nat /\ TablePartitions \in Powers /\ Seen \subseteq Nat
  BY CountersAre, PowersArePositive
<1>2. Low(t) \in 0..TablePartitions /\ High(t) \in 0..TablePartitions /\ Low(t) <= High(t)
  BY <1>1, OwnedBounds DEF Low, High
<1>3. \A hash \in Seen : PartOf(hash) \in Nat
  <2>1. ASSUME NEW hash \in Seen PROVE PartOf(hash) \in 0..TablePartitions - 1
    BY <1>1, PartitionRange DEF PartOf
  <2> QED BY <2>1
<1>4. MergedHashes(t) = {hash \in Seen : PartOf(hash) \in Low(t)..High(t) - 1}
  BY DEF MergedHashes, Owned, Low, High, Seen
<1> HIDE DEF Low, High
<1>5. \A hash \in Seen : /\ PartOf(hash) \in Low(t)..High(t) - 1 <=> ~(PartOf(hash) < Low(t)) /\ PartOf(hash) < High(t)
                         /\ PartOf(hash) < Low(t) => PartOf(hash) < High(t)
  BY <1>1, <1>2, <1>3
<1> QED BY <1>1, <1>2, <1>4, <1>5 DEF HashesBelow

\* What a thread writes, between what it pretends to write, stands for all hashes.
LEMMA PlanStands ==
  ASSUME Ready, NEW t \in Threads, NEW order \in Orders(t)
  PROVE  \E names :
           /\ Stands(PretendedBelow(t) \o order \o PretendedAbove(t), names, Seen, Buckets)
           /\ First(names, Len(PretendedBelow(t))) = HashesBelow(Low(t))
           /\ First(names, Len(PretendedBelow(t)) + Len(order)) = HashesBelow(High(t))
           /\ \A n \in 1..Len(order) : names[Len(PretendedBelow(t)) + n] = order[n]
<1> DEFINE C == Cardinality(DOMAIN counts)
           below == PretendedBelow(t)
           above == PretendedAbove(t)
           L == HashesBelow(Low(t))
           M == MergedHashes(t)
           U == HashesBelow(High(t))
           A == {hash \in Seen : ~(PartOf(hash) < High(t))}
<1>1. /\ Low(t) \in 0..TablePartitions /\ High(t) \in 0..TablePartitions /\ L \cup M = U /\ L \cap M = {}
  BY MergedBetween
<1>2. /\ Low(t) * Scale \in 0..C /\ CountedIn(0, Low(t) * Scale) = L
      /\ High(t) * Scale \in 0..C /\ CountedIn(High(t) * Scale, C) = A
  BY <1>1, CountedAre
<1>3. C \in Nat
  BY CountersAre, PowersArePositive
<1>4. StandsFor(below, L, Buckets)
  <2>1. below = Pretended(0, Low(t) * Scale)
    BY DEF PretendedBelow, Low
  <2> DEFINE e == Low(t) * Scale
  <2>2. e \in Nat /\ 0 \in Nat /\ 0 <= e /\ e <= C
    BY <1>2, <1>3
  <2> HIDE DEF e
  <2>3. StandsFor(Pretended(0, e), CountedIn(0, e), Buckets)
    BY <2>2, PretendedStands
  <2> QED BY <1>2, <2>1, <2>3 DEF e
<1>5. StandsFor(above, A, Buckets)
  <2>1. above = Pretended(High(t) * Scale, C)
    BY DEF PretendedAbove, High
  <2> DEFINE e == High(t) * Scale
  <2>2. e \in Nat /\ e <= C
    BY <1>2, <1>3
  <2> HIDE DEF e
  <2>3. StandsFor(Pretended(e, C), CountedIn(e, C), Buckets)
    BY <1>3, <2>2, PretendedStands
  <2> QED BY <1>2, <2>1, <2>3 DEF e
<1>6. Stands(order, order, M, Buckets)
  BY OrderStands
<1>7. U \cap A = {} /\ U \cup A = Seen
  BY DEF HashesBelow
<1> HIDE DEF below, above, L, M, U, A
<1>8. PICK m : Stands(below, m, L, Buckets)
  BY <1>4 DEF StandsFor
<1>9. PICK o : Stands(above, o, A, Buckets)
  BY <1>5 DEF StandsFor
<1>10. Stands(below \o order, m \o order, U, Buckets)
  BY <1>1, <1>6, <1>8, StandsConcat
<1> DEFINE names == (m \o order) \o o
<1>11. Stands((below \o order) \o above, names, Seen, Buckets)
  BY <1>7, <1>9, <1>10, StandsConcat
<1>12. /\ m \in Seq(L) /\ Len(m) = Len(below) /\ order \in Seq(M) /\ o \in Seq(A) /\ below \in Seq(Nat)
       /\ m \o order \in Seq(U) /\ order \in Seq(Nat)
  BY <1>6, <1>8, <1>9, <1>10 DEF Stands
<1>13. Len(m \o order) = Len(below) + Len(order) /\ Len(below) \in Nat /\ Len(order) \in Nat
       /\ Len(below \o order) = Len(below) + Len(order)
  <2>1. Len(below \o order) = Len(below) + Len(order) /\ Len(below) \in Nat /\ Len(order) \in Nat
    BY <1>12
  <2>2. Len(m \o order) = Len(below \o order)
    BY <1>10 DEF Stands
  <2> QED BY <2>1, <2>2
<1>14. First(names, Len(below)) = L
  <2>1. Len(below) \in 0..Len(m \o order) /\ Len(below) \in 0..Len(m)
    BY <1>12, <1>13
  <2>2. First(names, Len(below)) = First(m \o order, Len(below))
    BY <1>12, <2>1, FirstOfBoth
  <2>3. First(m \o order, Len(below)) = First(m, Len(below))
    BY <1>12, <2>1, FirstOfBoth
  <2> QED BY <1>8, <2>2, <2>3, AllFirst
<1>15. First(names, Len(below) + Len(order)) = U
  <2>1. Len(below) + Len(order) \in 0..Len(m \o order)
    BY <1>13
  <2>2. First(names, Len(below) + Len(order)) = First(m \o order, Len(below) + Len(order))
    BY <1>12, <2>1, FirstOfBoth
  <2>3. First(m \o order, Len(below \o order)) = U
    BY <1>10, AllFirst
  <2> QED BY <1>13, <2>2, <2>3
<1>16. ASSUME NEW n \in 1..Len(order) PROVE names[Len(below) + n] = order[n]
  <2> DEFINE both == m \o order
             i == Len(below) + n
  <2>1. both[i] = order[n]
    BY <1>12, <1>13
  <2>2. i \in 1..Len(both) /\ both \in Seq(U)
    BY <1>12, <1>13
  <2> HIDE DEF both, i
  <2>3. (both \o o)[i] = both[i]
    BY <1>12, <2>2
  <2> QED BY <2>1, <2>3 DEF both, i
<1> HIDE DEF names
<1> QED BY <1>11, <1>14, <1>15, <1>16 DEF below, above, L, U
-----------------------------------------------------------------------------
\* No stretch of buckets, from the first lanes on, has more hashes that start in it than buckets.
Roomy == Ready /\ Sparse(Seen, Starts, Reach, Buckets)

\* The buckets that hashes take, whatever the order in which they are placed.
Takes(keys, p) ==
  \E place : Probed(place, keys, Starts, Buckets) /\ \E hash \in keys : place[hash] = p
\* Those that the hashes a thread merges take, which those below leave free.
Territory(t) == {p \in 0..Buckets - 1 : Takes(HashesBelow(High(t)), p) /\ ~Takes(HashesBelow(Low(t)), p)}

LEMMA ReadyFacts ==
  ASSUME Roomy
  PROVE  Buckets \in Nat \ {0} /\ IsFiniteSet(Seen) /\ Seen \in SUBSET Nat /\ Reach \in Nat
<1>1. Buckets \in Nat \ {0}
  BY PowersArePositive DEF Roomy, Ready
<1>2. IsFiniteSet(Seen) /\ Seen \subseteq Nat
  BY CountersAre DEF Roomy
<1> QED BY <1>1, <1>2, GroupAssumption DEF Reach

\* The hashes below a thread's have places.
LEMMA BelowArePlaced ==
  ASSUME Roomy, NEW t \in Threads
  PROVE  \E place : Probed(place, HashesBelow(Low(t)), Starts, Buckets)
<1> DEFINE L == HashesBelow(Low(t))
           e == Low(t) * Scale
<1>1. L \subseteq Seen /\ IsFiniteSet(L) /\ L \in SUBSET Nat
  <2>1. L \in SUBSET Seen
    BY DEF HashesBelow
  <2> HIDE DEF L
  <2>2. IsFiniteSet(L)
    BY <2>1, ReadyFacts, FS_Subset
  <2> QED BY <2>1, <2>2, ReadyFacts
<1>2. e \in 0..Cardinality(DOMAIN counts) /\ CountedIn(0, e) = L
  BY MergedBetween, CountedAre DEF Roomy
<1>3. Cardinality(DOMAIN counts) \in Nat
  BY CountersAre, PowersArePositive DEF Roomy
<1> HIDE DEF e, L
<1>4. StandsFor(Pretended(0, e), L, Buckets)
  <2>1. e \in Nat /\ 0 \in Nat /\ 0 <= e /\ e <= Cardinality(DOMAIN counts)
    BY <1>2, <1>3
  <2>2. StandsFor(Pretended(0, e), CountedIn(0, e), Buckets)
    BY <2>1, PretendedStands DEF Roomy
  <2> QED BY <1>2, <2>2
<1> DEFINE seq == Pretended(0, e)
<1>5. PICK names : Stands(seq, names, L, Buckets)
  BY <1>4 DEF StandsFor
<1> HIDE DEF seq
<1>6. Sparse(L, Starts, Reach, Buckets)
  BY <1>1, ReadyFacts, FewerAreSparse DEF Roomy
<1>7. Placement(CellsFor(seq), names, Len(seq))
  BY <1>1, <1>5, <1>6, ReadyFacts, AllArePlaced
<1>8. Len(seq) \in 0..Len(seq)
  BY <1>5 DEF Stands
<1>9. PICK cells : PlacedIn(cells, names, Len(seq))
  BY <1>7, <1>8 DEF Placement
<1>10. First(names, Len(seq)) = L
  BY <1>5, AllFirst
<1> QED BY <1>9, <1>10 DEF PlacedIn, L

\* No two threads have a bucket in common.
LEMMA TerritoriesDisjoint ==
  ASSUME Roomy, NEW t \in Threads, NEW u \in Threads, t < u
  PROVE  Territory(t) \cap Territory(u) = {}
<1> DEFINE keys == HashesBelow(High(t))
           more == HashesBelow(Low(u))
<1> SUFFICES ASSUME NEW p, p \in Territory(t), p \in Territory(u) PROVE FALSE
  OBVIOUS
<1>1. TablePartitions \in Nat /\ High(t) <= Low(u)
  BY MergedBetween, RangesDisjoint DEF Roomy, High, Low
<1>2. Seen \subseteq Nat /\ TablePartitions \in Powers
  BY CountersAre DEF Roomy
<1>3. \A hash \in Seen : PartOf(hash) \in 0..TablePartitions - 1
  BY <1>2, PartitionRange DEF PartOf
<1>4. High(t) \in Nat /\ Low(u) \in Nat
  BY MergedBetween DEF Roomy
<1>5. keys \in SUBSET more
  BY <1>1, <1>3, <1>4 DEF HashesBelow
<1>6. IsFiniteSet(more)
  <2>1. more \in SUBSET Seen
    BY DEF HashesBelow
  <2> HIDE DEF more
  <2> QED BY <2>1, ReadyFacts, FS_Subset
<1>7. Takes(keys, p) /\ ~Takes(more, p)
  BY DEF Territory
<1>8. PICK other : Probed(other, more, Starts, Buckets)
  BY BelowArePlaced
<1> HIDE DEF keys, more
<1>9. PICK place : Probed(place, keys, Starts, Buckets) /\ \E hash \in keys : place[hash] = p
  BY <1>7 DEF Takes
<1>10. PICK hash \in keys : place[hash] = p
  BY <1>9
<1>11. \E l \in more : other[l] = place[hash]
  BY <1>5, <1>6, <1>8, <1>9, ReadyFacts, ProbedMonotone
<1> QED BY <1>7, <1>8, <1>10, <1>11 DEF Takes

\* The cells a thread works out for its hashes: all are its own, no two the same.
CellsAreGood(t, order, below, above, cells) ==
  /\ Len(below) \in Nat /\ Len(order) \in Nat /\ Len(above) \in Nat
  /\ Len(cells) = Len(below) + Len(order) + Len(above)
  /\ \A n \in 1..Len(order) :
       /\ cells[Len(below) + n] \in Territory(t)
       /\ \E j \in 0..Lanes - 1 : cells[Len(below) + n] = ProbedCell(order[n], j)
  /\ \A n, m \in 1..Len(order) : cells[Len(below) + n] = cells[Len(below) + m] => n = m
LEMMA PlanIsGood ==
  ASSUME Roomy, NEW t \in Threads, NEW order \in Orders(t),
         NEW below, below = PretendedBelow(t), NEW above, above = PretendedAbove(t),
         NEW cells, cells = CellsFor(below \o order \o above)
  PROVE  CellsAreGood(t, order, below, above, cells)
<1> DEFINE seq == below \o order \o above
           b == Len(below)
           e == b + Len(order)
           L == HashesBelow(Low(t))
           U == HashesBelow(High(t))
<1>1. PICK names : /\ Stands(seq, names, Seen, Buckets)
                   /\ First(names, b) = L /\ First(names, e) = U
                   /\ \A n \in 1..Len(order) : names[b + n] = order[n]
  BY PlanStands DEF Roomy
<1>2. below \in Seq(Nat) /\ order \in Seq(Nat) /\ above \in Seq(Nat)
  <2>1. /\ below = Pretended(0, Low(t) * Scale)
        /\ above = Pretended(High(t) * Scale, Cardinality(DOMAIN counts))
    BY DEF PretendedBelow, PretendedAbove, Low, High
  <2>2. /\ Low(t) * Scale \in 0..Cardinality(DOMAIN counts) /\ High(t) * Scale \in 0..Cardinality(DOMAIN counts)
        /\ Cardinality(DOMAIN counts) \in Nat
    BY MergedBetween, CountedAre, CountersAre, PowersArePositive DEF Roomy
  <2> DEFINE low == Low(t) * Scale
             high == High(t) * Scale
             C == Cardinality(DOMAIN counts)
  <2>3. low \in Nat /\ 0 <= low /\ low <= C /\ high \in Nat /\ high <= C /\ C \in Nat /\ C <= C /\ 0 \in Nat
    BY <2>2
  <2> HIDE DEF low, high
  <2>4. StandsFor(Pretended(0, low), CountedIn(0, low), Buckets)
    BY <2>3, PretendedStands DEF Roomy
  <2>5. StandsFor(Pretended(high, C), CountedIn(high, C), Buckets)
    BY <2>3, PretendedStands DEF Roomy
  <2>6. Stands(order, order, MergedHashes(t), Buckets)
    BY OrderStands DEF Roomy
  <2> QED BY <2>1, <2>4, <2>5, <2>6 DEF StandsFor, Stands, low, high
<1>3. /\ b \in Nat /\ Len(order) \in Nat /\ Len(above) \in Nat
      /\ Len(seq) = b + Len(order) + Len(above)
  BY <1>2
<1> HIDE DEF seq
<1>4. /\ Len(cells) = Len(seq)
      /\ \A n \in 0..Len(seq) : \E part : /\ PlacedIn(part, names, n)
                                          /\ \A k \in 1..n : part[k] = cells[k]
  <2>1. Placement(CellsFor(seq), names, Len(seq))
    BY <1>1, ReadyFacts, AllArePlaced DEF Roomy
  <2> QED BY <2>1 DEF Placement, seq
<1> HIDE DEF L, U
<1>5. b \in 0..Len(seq) /\ e \in 0..Len(seq) /\ e \in Nat
  BY <1>3
<1>6. PICK lower : PlacedIn(lower, names, b) /\ \A k \in 1..b : lower[k] = cells[k]
  BY <1>4, <1>5
<1>7. PICK upper : PlacedIn(upper, names, e) /\ \A k \in 1..e : upper[k] = cells[k]
  BY <1>4, <1>5
<1> HIDE DEF b
<1> HIDE DEF e
<1>8. PICK under : Probed(under, L, Starts, Buckets) /\ \A k \in 1..b : under[names[k]] = lower[k]
  BY <1>1, <1>6 DEF PlacedIn
<1>9. PICK over : Probed(over, U, Starts, Buckets) /\ \A k \in 1..e : over[names[k]] = upper[k]
  BY <1>1, <1>7 DEF PlacedIn
<1>10. \A k, l \in 1..e : cells[k] = cells[l] => k = l
  <2> SUFFICES ASSUME NEW k \in 1..e, NEW l \in 1..e, cells[k] = cells[l] PROVE k = l
    OBVIOUS
  <2>1. over[names[k]] = over[names[l]] /\ names[k] \in U /\ names[l] \in U
    BY <1>1, <1>7, <1>9 DEF First
  <2>2. names[k] = names[l]
    BY <1>9, <2>1 DEF Probed
  <2>3. k \in 1..Len(seq) /\ l \in 1..Len(seq)
    BY <1>3, <1>5
  <2> QED BY <1>1, <2>2, <2>3 DEF Stands
<1>11. ASSUME NEW n \in 1..Len(order)
       PROVE  b + n \in 1..e /\ b + n \notin 1..b
  BY <1>3 DEF e
<1>12. ASSUME NEW n \in 1..Len(order)
       PROVE  /\ cells[b + n] \in Territory(t)
              /\ \E j \in 0..Lanes - 1 : cells[b + n] = ProbedCell(order[n], j)
  <2> DEFINE i == b + n
             c == cells[i]
  <2>1. i \in 1..e /\ i \notin 1..b /\ names[i] = order[n] /\ upper[i] = c
    BY <1>1, <1>7, <1>11
  <2> HIDE DEF i
  <2>2. \E j \in 0..Lanes - 1 : c = ProbedCell(order[n], j)
    BY <1>7, <2>1 DEF PlacedIn
  <2>3. c \in 0..Buckets - 1 /\ Takes(U, c)
    <3>1. names[i] \in U /\ over[names[i]] = c
      BY <1>1, <1>9, <2>1 DEF First
    <3> QED BY <1>9, <3>1 DEF Takes, Probed
  <2>4. ~Takes(L, c)
    <3> SUFFICES ASSUME Takes(L, c) PROVE FALSE
      OBVIOUS
    <3>1. PICK place : Probed(place, L, Starts, Buckets) /\ \E hash \in L : place[hash] = c
      BY DEF Takes
    <3>2. PICK hash \in L : place[hash] = c
      BY <3>1
    <3>3. IsFiniteSet(L) /\ L \in SUBSET L
      <4>1. L \in SUBSET Seen
        BY DEF HashesBelow, L
      <4> QED BY <4>1, ReadyFacts, FS_Subset
    <3>4. \E l \in L : under[l] = place[hash]
      BY <1>8, <3>1, <3>3, ReadyFacts, ProbedMonotone
    <3>5. PICK k \in 1..b : under[names[k]] = c
      BY <1>1, <3>2, <3>4 DEF First
    <3>6. cells[k] = cells[i] /\ k \in 1..e
      <4>1. b <= e /\ b \in Nat /\ e \in Nat
        BY <1>3, <1>5 DEF e
      <4> QED BY <1>6, <1>8, <3>5, <4>1
    <3> QED BY <1>10, <2>1, <3>5, <3>6
  <2> QED BY <2>2, <2>3, <2>4 DEF Territory, L, U, i
<1>13. \A n, m \in 1..Len(order) : cells[b + n] = cells[b + m] => n = m
  <2> SUFFICES ASSUME NEW n \in 1..Len(order), NEW m \in 1..Len(order), cells[b + n] = cells[b + m]
               PROVE  n = m
    OBVIOUS
  <2>1. b + n = b + m
    BY <1>10, <1>11
  <2>2. b \in Nat
    BY <1>5
  <2> QED BY <2>1, <2>2
<1> QED BY <1>3, <1>4, <1>12, <1>13 DEF b, CellsAreGood
-----------------------------------------------------------------------------
\* The destination is as large as the hashes of all rows ask for, and there before anybody plans.
TableInv ==
  /\ table # Unallocated => /\ DOMAIN table = 0..CapacityToBuckets(Cardinality(ToSet(rows))) - 1
                            /\ DOMAIN writers = DOMAIN table
  /\ table = Unallocated => writers = Unallocated
  /\ \A t \in Threads : pc[t] \in {"plan", "write", "spinning", "done"} => table # Unallocated

\* Who has stopped accumulating has taken up all its batches; with those waiting, the rows have the
\* hashes of the input.
InputInv ==
  /\ \A t \in Threads : pc[t] \notin Accumulating => waiting[t] = <<>>
  /\ Uncrowded(ToSet(rows) \cup HashesOf(waiting))

\* Counting the places from a start is taking a remainder.
LEMMA DistanceIs ==
  ASSUME NEW hash \in Nat, NEW b \in Nat \ {0}, NEW p \in 0..b - 1
  PROVE  Distance(hash % b, p, b) = (p - hash) % b
<1> DEFINE e == hash % b
           d == p - e
<1>1. e \in 0..b - 1 /\ p \in Int /\ hash \in Int
  BY Modulo
<1>2. (p - e) % b = (p - hash) % b
  BY <1>1, ModuloDifference
<1> HIDE DEF e
<1>3. CASE e <= p
  <2>1. d \in 0..b - 1 /\ d \in Int
    BY <1>1, <1>3
  <2>2. d % b = d
    BY <2>1, Modulo
  <2> QED BY <1>2, <1>3, <2>2 DEF Distance, e
<1>4. CASE ~(e <= p)
  <2>1. d \in -b..-1 /\ d \in Int
    BY <1>1, <1>4
  <2>2. d % b = d + b
    BY <2>1, Modulo
  <2> QED BY <1>2, <1>4, <2>2 DEF Distance, e
<1> QED BY <1>3, <1>4

\* Hashes that are not crowded leave room.
LEMMA UncrowdedIsSparse ==
  ASSUME Uncrowded(Seen), Seen \in SUBSET Nat, Buckets \in Nat \ {0},
         Buckets = CapacityToBuckets(Cardinality(Seen))
  PROVE  Sparse(Seen, Starts, Reach, Buckets)
<1> DEFINE b == Buckets
<1>1. Min({Lanes, b}) = Reach
  <2>1. Lanes \in Int /\ b \in Int
    BY GroupAssumption
  <2> QED BY <2>1, MinOfTwo DEF Reach
<1>2. \A p \in 0..b - 1, m \in Reach..b : Cardinality({hash \in Seen : (p - hash) % b < m}) <= m
  BY <1>1 DEF Uncrowded
<1> SUFFICES ASSUME NEW p \in 0..b - 1, NEW m \in Reach..b
             PROVE  Cardinality(StartingIn(Seen, Starts, p, m, b)) <= m
  BY DEF Sparse
<1>3. \A hash \in Seen : hash \in Nat /\ Starts[hash] = hash % b
  BY DEF Starts
<1> HIDE DEF b
<1>4. \A hash \in Seen : Distance(Starts[hash], p, b) = (p - hash) % b
  <2>1. b \in Nat \ {0}
    BY DEF b
  <2> QED BY <1>3, <2>1, DistanceIs
<1>5. StartingIn(Seen, Starts, p, m, b) = {hash \in Seen : (p - hash) % b < m}
  BY <1>4 DEF StartingIn
<1> QED BY <1>2, <1>5

\* Once the destination is there, there is room for all.
LEMMA RoomyOnceAllocated ==
  ASSUME FewHashes, ControlInv, CountsInv, TableInv, InputInv, table # Unallocated
  PROVE  Roomy
<1> DEFINE n == Cardinality(ToSet(rows))
           b == CapacityToBuckets(n)
<1>1. arrived[2] = Threads
  BY DEF ControlInv, PhaseInv
<1>2. n \in Nat /\ n <= 2 ^ 29 /\ Seen = ToSet(rows)
  <2>1. Cardinality(Seen) \in Nat /\ LocalEntries \in Nat /\ Cardinality(Seen) <= LocalEntries /\ LocalEntries <= 2 ^ 29
    BY LocalFacts DEF CountsInv
  <2>2. Seen = ToSet(rows)
    BY DEF CountsInv, RowsInv
  <2>3. 29 \in Nat
    OBVIOUS
  <2>4. 2 ^ 29 \in Nat
    BY <2>3, PowerType
  <2> QED BY <2>1, <2>2, <2>4
<1> HIDE DEF n
<1>3. b \in Powers
  BY <1>2, CapacityFacts
<1>4. b \in Nat \ {0}
  BY <1>3, PowersArePositive
<1>5. DOMAIN table = 0..b - 1
  BY DEF TableInv, n
<1> HIDE DEF b
<1>6. Buckets = b
  <2>1. 0 \in Int /\ b - 1 \in Int /\ ~(0 > b - 1)
    BY <1>4
  <2>2. Cardinality(0..b - 1) = b - 1 - 0 + 1
    BY <2>1, FS_Interval
  <2> QED BY <1>4, <1>5, <2>2 DEF Buckets
<1>7. Buckets <= Cardinality(DOMAIN counts)
  BY DEF CountsInv, DestinationInv
<1>8. Ready
  BY <1>1, <1>3, <1>6, <1>7 DEF Ready
<1>9. HashesOf(waiting) = {}
  <2>1. \A t \in Threads : waiting[t] = <<>>
    BY <1>1 DEF ControlInv, PhaseInv, InputInv, AfterAllocation, Accumulating
  <2> QED BY <2>1 DEF HashesOf, ToSet
<1>10. Uncrowded(Seen)
  BY <1>2, <1>9 DEF InputInv
<1>11. Seen \in SUBSET Nat
  BY <1>8, CountersAre
<1>12. Sparse(Seen, Starts, Reach, Buckets)
  <2>1. Buckets = CapacityToBuckets(Cardinality(Seen))
    BY <1>2, <1>6 DEF b, n
  <2> QED BY <1>4, <1>6, <1>10, <1>11, <2>1, UncrowdedIsSparse
<1> QED BY <1>8, <1>12 DEF Roomy

\* The set of a sequence is its head and the set of the rest.
LEMMA HeadAndTail ==
  ASSUME NEW S, NEW seq \in Seq(S), seq # <<>>
  PROVE  /\ Head(seq) = seq[1] /\ Head(seq) \in S /\ Tail(seq) \in Seq(S)
         /\ ToSet(seq) = {Head(seq)} \cup ToSet(Tail(seq))
<1>1. /\ Len(seq) \in Nat \ {0} /\ Head(seq) = seq[1] /\ Head(seq) \in S /\ Tail(seq) \in Seq(S)
      /\ DOMAIN seq = 1..Len(seq)
      /\ DOMAIN Tail(seq) = 1..Len(seq) - 1 /\ \A k \in 1..Len(seq) - 1 : Tail(seq)[k] = seq[k + 1]
  OBVIOUS
<1>2. ASSUME NEW k \in DOMAIN seq PROVE seq[k] \in {Head(seq)} \cup ToSet(Tail(seq))
  <2>1. CASE k = 1
    BY <1>1, <2>1
  <2>2. CASE k # 1
    <3>1. k - 1 \in 1..Len(seq) - 1 /\ (k - 1) + 1 = k
      BY <1>1, <2>2
    <3>2. Tail(seq)[k - 1] = seq[k] /\ k - 1 \in DOMAIN Tail(seq)
      BY <1>1, <3>1
    <3> QED BY <3>2 DEF ToSet
  <2> QED BY <2>1, <2>2
<1>3. ASSUME NEW k \in DOMAIN Tail(seq) PROVE Tail(seq)[k] \in ToSet(seq)
  <2>1. k + 1 \in DOMAIN seq /\ Tail(seq)[k] = seq[k + 1]
    BY <1>1
  <2> QED BY <2>1 DEF ToSet
<1>4. Head(seq) \in ToSet(seq)
  BY <1>1 DEF ToSet
<1> QED BY <1>1, <1>2, <1>3, <1>4 DEF ToSet

\* Taking up a batch leaves the hashes of the input what they are.
LEMMA BatchKeepsInput ==
  ASSUME ControlInv, InputInv, NEW t \in Threads, AllocateBatch(t)
  PROVE  InputInv'
<1> DEFINE batch == Head(waiting[t])
<1>1. /\ pc[t] = "allocate" /\ pc' = [pc EXCEPT ![t] = "accumulate"]
      /\ rows' = rows \o batch /\ waiting' = [waiting EXCEPT ![t] = Tail(@)]
  BY DEF AllocateBatch, GoTo
<1>2. /\ pc \in [Threads -> Steps] /\ waiting \in [Threads -> Seq(Seq(Hashes))] /\ rows \in Seq(Hashes)
      /\ waiting[t] # <<>>
  BY <1>1 DEF ControlInv, ControlTypeOK, TrackerInv
<1>3. batch \in Seq(Hashes) /\ ToSet(waiting[t]) = {batch} \cup ToSet(Tail(waiting[t]))
  <2>1. waiting[t] \in Seq(Seq(Hashes))
    BY <1>2
  <2> QED BY <1>2, <2>1, HeadAndTail
<1> HIDE DEF batch
<1>4. ToSet(rows') = ToSet(rows) \cup ToSet(batch)
  BY <1>1, <1>2, <1>3, ConcatToSet
<1>5. \A u \in Threads : waiting'[u] = IF u = t THEN Tail(waiting[t]) ELSE waiting[u]
  BY <1>1, <1>2
<1>6. UNION {ToSet(waiting[u]) : u \in Threads} = {batch} \cup UNION {ToSet(waiting'[u]) : u \in Threads}
  <2>1. \A x, y : x \in ToSet(waiting[y]) /\ y \in Threads => x = batch \/ x \in ToSet(waiting'[y])
    BY <1>3, <1>5
  <2>2. \A x, y : x \in ToSet(waiting'[y]) /\ y \in Threads => x \in ToSet(waiting[y])
    BY <1>3, <1>5
  <2>3. batch \in ToSet(waiting[t])
    BY <1>3
  <2> QED BY <2>1, <2>2, <2>3
<1>7. HashesOf(waiting) = ToSet(batch) \cup HashesOf(waiting')
  BY <1>6 DEF HashesOf
<1>8. ToSet(rows') \cup HashesOf(waiting') = ToSet(rows) \cup HashesOf(waiting)
  BY <1>4, <1>7
<1>9. Uncrowded(ToSet(rows') \cup HashesOf(waiting'))
  BY <1>8 DEF InputInv
<1>10. \A u \in Threads : pc'[u] \notin Accumulating => waiting'[u] = <<>>
  BY <1>1, <1>2, <1>5 DEF InputInv, Accumulating
<1>11. HashesOf(waiting)' = HashesOf(waiting') /\ ToSet(rows)' = ToSet(rows')
  OBVIOUS
<1>12. Uncrowded(ToSet(rows) \cup HashesOf(waiting))'
  BY <1>9 DEF Uncrowded
<1> QED BY <1>10, <1>12 DEF InputInv

\* Every other step leaves rows and batches alone.
LEMMA InputStep ==
  ASSUME ControlInv, InputInv, [ConcurrentNext]_concurrentVars
  PROVE  InputInv'
<1> DEFINE Same == /\ rows' = rows /\ waiting' = waiting
                   /\ \A t \in Threads : pc'[t] \notin Accumulating => waiting[t] = <<>>
<1>1. ASSUME Same PROVE InputInv'
  <2>1. ToSet(rows') \cup HashesOf(waiting') = ToSet(rows) \cup HashesOf(waiting)
    BY <1>1
  <2>2. Uncrowded(ToSet(rows') \cup HashesOf(waiting'))
    BY <2>1 DEF InputInv
  <2>3. Uncrowded(ToSet(rows) \cup HashesOf(waiting))'
    BY <2>2 DEF Uncrowded
  <2> QED BY <1>1, <2>3 DEF InputInv
<1>2. CASE UNCHANGED concurrentVars
  BY <1>1, <1>2 DEF concurrentVars, builderVars, InputInv
<1>3. ASSUME NEW t \in Threads, ConcurrentStep(t) PROVE InputInv'
  <2>1. CASE AllocateBatch(t)
    BY <2>1, BatchKeepsInput
  <2>2. CASE ~AllocateBatch(t)
    <3>1. pc \in [Threads -> Steps] /\ \A u \in Threads : pc[u] \notin Accumulating => waiting[u] = <<>>
      BY DEF ControlInv, ControlTypeOK, InputInv
    <3> USE DEF GoTo, Accumulating
    <3>2. CASE LockTracker(t)
      BY <1>1, <3>1, <3>2 DEF LockTracker
    <3>3. CASE SendTables(t)
      BY <1>1, <3>1, <3>3 DEF SendTables
    <3>4. CASE CollectTables(t) \/ AllocateOverflow(t) \/ ReceiveOverflow(t) \/ CopyOverflow(t)
      BY <1>1, <3>1, <3>4 DEF CollectTables, AllocateOverflow, ReceiveOverflow, CopyOverflow
    <3>5. CASE AllocateCounts(t) \/ ReceiveCounts(t) \/ ArriveCopied(t) \/ Merge(t)
      BY <1>1, <3>1, <3>5 DEF AllocateCounts, ReceiveCounts, ArriveCopied, Arrive, Merge
    <3>6. CASE LockSenders(t) \/ MissSenders(t) \/ TakeSenders(t) \/ ArriveMerged(t) \/ AllocateDestination(t) \/ ReceiveDestination(t)
      BY <1>1, <3>1, <3>6 DEF LockSenders, MissSenders, TakeSenders, ArriveMerged, Arrive, AllocateDestination, ReceiveDestination
    <3>7. CASE PlanWrites(t) \/ PanicFewCounters(t) \/ WriteCell(t) \/ Return(t)
      BY <1>1, <3>1, <3>7 DEF PlanWrites, PanicFewCounters, WriteCell, Return
    <3> QED BY <1>3, <2>2, <3>2, <3>3, <3>4, <3>5, <3>6, <3>7 DEF ConcurrentStep
  <2> QED BY <2>1, <2>2
<1> QED BY <1>2, <1>3 DEF ConcurrentNext

\* The destination has its size once and for all.
LEMMA TableStep ==
  ASSUME FewHashes, ControlInv, CountsInv, TableInv, [ConcurrentNext]_concurrentVars
  PROVE  TableInv'
<1> DEFINE Same == /\ UNCHANGED <<rows, table, writers>>
                   /\ \A t \in Threads : pc'[t] \in {"plan", "write", "spinning", "done"} => table # Unallocated
<1>1. ASSUME Same PROVE TableInv'
  BY <1>1 DEF TableInv
<1>2. CASE UNCHANGED concurrentVars
  BY <1>1, <1>2 DEF concurrentVars, builderVars, partitionedVars, TableInv
<1>3. ASSUME NEW t \in Threads, ConcurrentStep(t) PROVE TableInv'
  <2>1. pc \in [Threads -> Steps]
        /\ \A u \in Threads : pc[u] \in {"plan", "write", "spinning", "done"} => table # Unallocated
    BY DEF ControlInv, ControlTypeOK, TableInv
  <2> USE DEF GoTo
  <2>2. CASE LockTracker(t) \/ SendTables(t)
    BY <1>1, <2>1, <2>2 DEF LockTracker, SendTables
  <2>3. CASE AllocateBatch(t)
    <3>1. /\ pc[t] = "allocate" /\ pc' = [pc EXCEPT ![t] = "accumulate"] /\ UNCHANGED <<table, writers>>
      BY <2>3 DEF AllocateBatch
    <3>2. table = Unallocated
      BY <3>1 DEF ControlInv, PhaseInv, AfterAllocation
    <3> QED BY <2>1, <3>1, <3>2 DEF TableInv
  <2>4. CASE CollectTables(t) \/ AllocateOverflow(t) \/ ReceiveOverflow(t) \/ CopyOverflow(t)
    BY <1>1, <2>1, <2>4 DEF CollectTables, AllocateOverflow, ReceiveOverflow, CopyOverflow, partitionedVars
  <2>5. CASE AllocateCounts(t) \/ ReceiveCounts(t) \/ ArriveCopied(t) \/ Merge(t)
    BY <1>1, <2>1, <2>5 DEF AllocateCounts, ReceiveCounts, ArriveCopied, Arrive, Merge, partitionedVars
  <2>6. CASE LockSenders(t) \/ MissSenders(t) \/ TakeSenders(t) \/ ArriveMerged(t)
    BY <1>1, <2>1, <2>6 DEF LockSenders, MissSenders, TakeSenders, ArriveMerged, Arrive, partitionedVars
  <2>7. CASE AllocateDestination(t)
    <3> DEFINE total == MapThenSumSet(LAMBDA c : counts[c], DOMAIN counts)
               b == CapacityToBuckets(total)
    <3>1. arrived[2] = Threads
      BY <2>7, PassedMeansAll DEF AllocateDestination, ControlInv
    <3>2. total = Cardinality(ToSet(rows))
      BY <3>1, AllMerged
    <3>3. \/ /\ table' = [i \in 0..b - 1 |-> None]
             /\ writers' = [i \in 0..b - 1 |-> {}]
             /\ pc' = [pc EXCEPT ![t] = "plan"]
          \/ /\ pc' = [pc EXCEPT ![t] = "panicked"]
             /\ UNCHANGED <<table, writers>>
      BY <2>7 DEF AllocateDestination
    <3>4. UNCHANGED rows
      BY <2>7 DEF AllocateDestination
    <3> HIDE DEF total
    <3>5. b \in Nat \ {0} /\ b = CapacityToBuckets(Cardinality(ToSet(rows)))
      BY <3>2, FewerThanCounters DEF CountsInv
    <3> HIDE DEF b
    <3>6. CASE /\ table' = [i \in 0..b - 1 |-> None] /\ writers' = [i \in 0..b - 1 |-> {}]
               /\ pc' = [pc EXCEPT ![t] = "plan"]
      <4>1. 0 \in DOMAIN table' /\ DOMAIN table' = 0..b - 1 /\ DOMAIN writers' = 0..b - 1
        BY <3>5, <3>6
      <4>2. table' # Unallocated
        <5>1. 0 \in DOMAIN table'
          BY <4>1
        <5> QED BY <5>1 DEF Unallocated
      <4>3. DOMAIN table' = 0..CapacityToBuckets(Cardinality(ToSet(rows'))) - 1 /\ DOMAIN writers' = DOMAIN table'
        BY <3>4, <3>5, <4>1
      <4> QED BY <4>2, <4>3 DEF TableInv
    <3>7. CASE pc' = [pc EXCEPT ![t] = "panicked"] /\ UNCHANGED <<table, writers>>
      BY <1>1, <2>1, <3>4, <3>7
    <3> QED BY <3>3, <3>6, <3>7
  <2>8. CASE ReceiveDestination(t)
    BY <1>1, <2>1, <2>8 DEF ReceiveDestination, partitionedVars
  <2>9. CASE PlanWrites(t) \/ PanicFewCounters(t) \/ Return(t)
    BY <1>1, <2>1, <2>9 DEF PlanWrites, PanicFewCounters, Return, partitionedVars
  <2>10. CASE WriteCell(t)
    <3>1. /\ UNCHANGED <<pc, rows>> /\ DOMAIN table' = DOMAIN table /\ DOMAIN writers' = DOMAIN writers
          /\ pc[t] = "write"
      BY <2>10 DEF WriteCell
    <3>2. table # Unallocated
      BY <2>1, <3>1
    <3>3. CapacityToBuckets(Cardinality(ToSet(rows))) \in Nat \ {0}
      BY FewerThanCounters DEF CountsInv
    <3>4. DOMAIN table = 0..CapacityToBuckets(Cardinality(ToSet(rows))) - 1
      BY <3>2 DEF TableInv
    <3> DEFINE b == CapacityToBuckets(Cardinality(ToSet(rows)))
    <3>5. 0 \in DOMAIN table'
      <4> HIDE DEF b
      <4>1. b \in Nat \ {0} /\ DOMAIN table = 0..b - 1
        BY <3>3, <3>4 DEF b
      <4> QED BY <3>1, <4>1
    <3>6. table' # Unallocated
      BY <3>5 DEF Unallocated
    <3> QED BY <3>1, <3>2, <3>6 DEF TableInv
  <2> QED BY <1>3, <2>2, <2>3, <2>4, <2>5, <2>6, <2>7, <2>8, <2>9, <2>10 DEF ConcurrentStep
<1> QED BY <1>2, <1>3 DEF ConcurrentNext

\* Both hold from the beginning.
LEMMA TableInit == ASSUME UncrowdedInputs PROVE ConcurrentInit => TableInv /\ InputInv
<1> SUFFICES ASSUME ConcurrentInit PROVE TableInv /\ InputInv
  OBVIOUS
<1>1. ToSet(rows) = {} /\ waiting \in Inputs /\ \A t \in Threads : pc[t] \in {"accumulate", "refused"}
  BY FirstSteps DEF ConcurrentInit, BuilderInit, ToSet
<1>2. Uncrowded(ToSet(rows) \cup HashesOf(waiting))
  <2>1. ToSet(rows) \cup HashesOf(waiting) = HashesOf(waiting)
    BY <1>1
  <2> QED BY <1>1, <2>1 DEF UncrowdedInputs
<1>3. InputInv
  BY <1>1, <1>2 DEF InputInv, Accumulating
<1>4. TableInv
  BY <1>1 DEF TableInv, ConcurrentInit
<1> QED BY <1>3, <1>4

THEOREM TableInvariant ==
  ASSUME FewHashes, UncrowdedInputs PROVE ConcurrentSpec => [](TableInv /\ InputInv)
<1>1. ConcurrentInit => TableInv /\ InputInv
  BY TableInit
<1>2. ControlInv /\ CountsInv /\ TableInv /\ InputInv /\ [ConcurrentNext]_concurrentVars => (TableInv /\ InputInv)'
  BY TableStep, InputStep
<1> QED BY <1>1, <1>2, ControlInvariant, CountsInvariant, PTL DEF ConcurrentSpec
-----------------------------------------------------------------------------
\* A plan for all hashes of a thread, in an order of them.
Entry(hash) == [hash |-> hash, head |-> MergedHead(hash)]
Planned(order, cells) == [n \in 1..Len(order) |-> [cell |-> cells[n], row |-> Entry(order[n])]]
GoodPlan(t, order, cells) ==
  /\ order \in Orders(t) /\ Stands(order, order, MergedHashes(t), Buckets)
  /\ \A n \in 1..Len(order) : /\ cells[n] \in Territory(t)
                              /\ \E j \in 0..Lanes - 1 : cells[n] = ProbedCell(order[n], j)
  /\ \A n, m \in 1..Len(order) : cells[n] = cells[m] => n = m

\* Every plan is one, and gets nobody stuck.
LEMMA PlansAreGood ==
  ASSUME Roomy, NEW t \in Threads, PlanWrites(t)
  PROVE  \E order, cells :
           /\ GoodPlan(t, order, cells)
           /\ plan' = [plan EXCEPT ![t] = [writes |-> Planned(order, cells), stuck |-> FALSE]]
<1>1. PICK order \in Orders(t), below \in {PretendedBelow(t)}, above \in {PretendedAbove(t)} :
        \E all \in {CellsFor(below \o order \o above)} :
         plan' = [plan EXCEPT ![t] =
            [writes |-> [n \in {k \in DOMAIN order : Len(below) + k <= Len(all)} |->
                           [cell |-> all[Len(below) + n],
                            row |-> [hash |-> order[n], head |-> MergedHead(order[n])]]],
             stuck |-> Len(all) < Len(below) + Len(order) + Len(above)]]
  BY DEF PlanWrites
<1> DEFINE all == CellsFor(below \o order \o above)
<1>1a. plan' = [plan EXCEPT ![t] =
            [writes |-> [n \in {k \in DOMAIN order : Len(below) + k <= Len(all)} |->
                           [cell |-> all[Len(below) + n],
                            row |-> [hash |-> order[n], head |-> MergedHead(order[n])]]],
             stuck |-> Len(all) < Len(below) + Len(order) + Len(above)]]
  BY <1>1
<1>2. below = PretendedBelow(t) /\ above = PretendedAbove(t) /\ all = CellsFor(below \o order \o above)
  OBVIOUS
<1> HIDE DEF all
<1>3. /\ Len(below) \in Nat /\ Len(order) \in Nat /\ Len(above) \in Nat
      /\ Len(all) = Len(below) + Len(order) + Len(above)
      /\ \A n \in 1..Len(order) :
           /\ all[Len(below) + n] \in Territory(t)
           /\ \E j \in 0..Lanes - 1 : all[Len(below) + n] = ProbedCell(order[n], j)
      /\ \A n, m \in 1..Len(order) : all[Len(below) + n] = all[Len(below) + m] => n = m
  <2>1. CellsAreGood(t, order, below, above, all)
    BY <1>2, PlanIsGood
  <2> QED BY <2>1 DEF CellsAreGood
<1>4. Stands(order, order, MergedHashes(t), Buckets)
  BY OrderStands DEF Roomy
<1> DEFINE cells == [n \in 1..Len(order) |-> all[Len(below) + n]]
<1>5. \A n \in 1..Len(order) : cells[n] = all[Len(below) + n]
  OBVIOUS
<1>6. GoodPlan(t, order, cells)
  <2> HIDE DEF cells
  <2> QED BY <1>3, <1>4, <1>5 DEF GoodPlan
<1>7. {k \in DOMAIN order : Len(below) + k <= Len(all)} = 1..Len(order)
  <2>1. DOMAIN order = 1..Len(order)
    BY <1>4 DEF Stands
  <2> QED BY <1>3, <2>1
<1>8. ~(Len(all) < Len(below) + Len(order) + Len(above))
  BY <1>3
<1>9. [n \in 1..Len(order) |-> [cell |-> all[Len(below) + n],
                                row |-> [hash |-> order[n], head |-> MergedHead(order[n])]]]
        = Planned(order, cells)
  BY <1>5 DEF Planned, Entry
<1> HIDE DEF cells
<1>10. plan' = [plan EXCEPT ![t] = [writes |-> Planned(order, cells), stuck |-> FALSE]]
  <2> DEFINE mine == {k \in DOMAIN order : Len(below) + k <= Len(all)}
             entry(n) == [cell |-> all[Len(below) + n], row |-> [hash |-> order[n], head |-> MergedHead(order[n])]]
             late == Len(all) < Len(below) + Len(order) + Len(above)
  <2>1. plan' = [plan EXCEPT ![t] = [writes |-> [n \in mine |-> entry(n)], stuck |-> late]]
    BY <1>1a
  <2>2. mine = 1..Len(order) /\ late = FALSE
    BY <1>7, <1>8
  <2>3. [n \in 1..Len(order) |-> entry(n)] = Planned(order, cells)
    BY <1>9
  <2> HIDE DEF mine, entry, late
  <2> QED BY <2>1, <2>2, <2>3
<1> QED BY <1>6, <1>10

\* What a thread may write.
Writable(t) == {[cell |-> c, row |-> Entry(hash)] : c \in Territory(t), hash \in MergedHashes(t)}

\* Who is writing has only its own buckets to write left, and nobody has written another's.
PlanInv ==
  /\ DOMAIN plan = Threads /\ \A t \in Threads : DOMAIN plan[t] = {"writes", "stuck"}
  /\ \A t \in Threads : pc[t] = "write" => plan[t].writes \in Seq(Writable(t))
  /\ \A i \in DOMAIN writers : \A t \in writers[i] : t \in Threads /\ i \in Territory(t)

\* What is a thread's to write does not change.
LEMMA SameTerritory ==
  ASSUME UNCHANGED <<local, shared>>, Buckets' = Buckets, NEW t
  PROVE  Territory(t)' = Territory(t) /\ MergedHashes(t)' = MergedHashes(t) /\ Writable(t)' = Writable(t)
<1>1. Seen' = Seen
  BY DEF Seen
<1>2. \A part : HashesBelow(part)' = HashesBelow(part)
  BY <1>1 DEF HashesBelow
<1>3. HashesBelow(High(t))' = HashesBelow(High(t)) /\ HashesBelow(Low(t))' = HashesBelow(Low(t))
  BY <1>2 DEF High, Low
<1>4. Starts' = Starts
  BY DEF Starts
<1>5. \A keys, p : Takes(keys, p)' <=> Takes(keys, p)
  BY <1>4 DEF Takes
<1>6. Territory(t)' = Territory(t)
  BY <1>3, <1>4 DEF Territory, Takes
<1>7. MergedHashes(t)' = MergedHashes(t)
  BY DEF MergedHashes
<1>8. \A hash : MergedHead(hash)' = MergedHead(hash)
  BY DEF MergedHead, Chain, Sources
<1>9. \A hash : Entry(hash)' = Entry(hash)
  BY <1>8 DEF Entry
<1>10. Writable(t)' = Writable(t)
  BY <1>6, <1>7, <1>9 DEF Writable
<1> QED BY <1>6, <1>7, <1>10

\* What a step that neither writes nor plans a write keeps.
LEMMA PlanKept ==
  ASSUME PlanInv, UNCHANGED <<plan, local, shared>>, Buckets' = Buckets,
         \A t \in Threads : pc'[t] = "write" => pc[t] = "write",
         writers' = writers \/ \A i \in DOMAIN writers' : writers'[i] = {}
  PROVE  PlanInv'
<1>1. \A t : Territory(t)' = Territory(t) /\ Writable(t)' = Writable(t)
  BY SameTerritory
<1>2. \A t \in Threads : pc'[t] = "write" => plan'[t].writes \in Seq(Writable(t)')
  BY <1>1 DEF PlanInv
<1>3. \A i \in DOMAIN writers' : \A t \in writers'[i] : t \in Threads /\ i \in Territory(t)'
  BY <1>1 DEF PlanInv
<1>4. DOMAIN plan' = Threads /\ \A t \in Threads : DOMAIN plan'[t] = {"writes", "stuck"}
  BY DEF PlanInv
<1> QED BY <1>2, <1>3, <1>4 DEF PlanInv

\* As long as there is no destination, there is nothing to keep.
LEMMA PlanEmpty ==
  ASSUME PlanInv, TableInv, table = Unallocated, UNCHANGED <<plan, writers>>,
         \A t \in Threads : pc'[t] = "write" => pc[t] = "write"
  PROVE  PlanInv'
<1>1. DOMAIN writers = {}
  BY DEF TableInv, Unallocated
<1>2. \A t \in Threads : pc'[t] # "write"
  BY DEF TableInv
<1>3. DOMAIN plan' = Threads /\ \A t \in Threads : DOMAIN plan'[t] = {"writes", "stuck"}
  BY DEF PlanInv
<1> QED BY <1>1, <1>2, <1>3 DEF PlanInv

LEMMA PlanStep ==
  ASSUME FewHashes, ControlInv, CountsInv, TableInv, InputInv, PlanInv, [ConcurrentNext]_concurrentVars
  PROVE  PlanInv'
<1> USE DEF GoTo
<1>1. CASE UNCHANGED concurrentVars
  BY <1>1, PlanKept DEF concurrentVars, builderVars, partitionedVars, Buckets
<1>2. ASSUME NEW t \in Threads, ConcurrentStep(t) PROVE PlanInv'
  <2>1. pc \in [Threads -> Steps]
    BY DEF ControlInv, ControlTypeOK
  <2>2. CASE LockTracker(t)
    BY <2>1, <2>2, PlanKept DEF LockTracker, Buckets
  <2>3. CASE AllocateBatch(t) \/ SendTables(t)
    <3>1. pc[t] \in {"allocate", "accumulate"} /\ pc' = [pc EXCEPT ![t] = IF pc[t] = "allocate" THEN "accumulate" ELSE "collect"]
          /\ UNCHANGED <<plan, writers>>
      BY <2>3 DEF AllocateBatch, SendTables
    <3>2. table = Unallocated
      BY <3>1 DEF ControlInv, PhaseInv, AfterAllocation
    <3>3. \A u \in Threads : pc'[u] = "write" => pc[u] = "write"
      BY <2>1, <3>1
    <3> QED BY <3>1, <3>2, <3>3, PlanEmpty
  <2>4. CASE CollectTables(t) \/ AllocateOverflow(t) \/ ReceiveOverflow(t) \/ CopyOverflow(t)
    BY <2>1, <2>4, PlanKept DEF CollectTables, AllocateOverflow, ReceiveOverflow, CopyOverflow, partitionedVars, Buckets
  <2>5. CASE AllocateCounts(t) \/ ReceiveCounts(t) \/ ArriveCopied(t) \/ Merge(t)
    BY <2>1, <2>5, PlanKept DEF AllocateCounts, ReceiveCounts, ArriveCopied, Arrive, Merge, partitionedVars, Buckets
  <2>6. CASE LockSenders(t) \/ MissSenders(t) \/ TakeSenders(t) \/ ArriveMerged(t)
    BY <2>1, <2>6, PlanKept
    DEF LockSenders, MissSenders, TakeSenders, ArriveMerged, Arrive, partitionedVars, Buckets
  <2>7. CASE AllocateDestination(t)
    <3>1. /\ UNCHANGED <<plan, local, shared, rows>>
          /\ \/ \A i \in DOMAIN writers' : writers'[i] = {}
             \/ UNCHANGED <<table, writers>>
          /\ \A u \in Threads : pc'[u] = "write" => pc[u] = "write"
      BY <2>1, <2>7 DEF AllocateDestination
    <3>2. TableInv'
      BY TableStep
    <3>3. CASE table = Unallocated
      <4>1. \A u \in Threads : pc'[u] # "write"
        BY <3>1, <3>3 DEF TableInv
      <4>2. \A i \in DOMAIN writers' : writers'[i] = {}
        BY <3>1, <3>3 DEF TableInv, Unallocated
      <4>3. DOMAIN plan' = Threads /\ \A u \in Threads : DOMAIN plan'[u] = {"writes", "stuck"}
        BY <3>1 DEF PlanInv
      <4> QED BY <4>1, <4>2, <4>3 DEF PlanInv
    <3>4. CASE table # Unallocated
      <4>1. table' # Unallocated
        <5>1. CapacityToBuckets(Cardinality(ToSet(rows))) \in Nat \ {0}
          BY FewerThanCounters DEF CountsInv
        <5>2. CASE UNCHANGED table
          BY <3>4, <5>2
        <5>3. CASE ~UNCHANGED table
          <6> DEFINE b == CapacityToBuckets(MapThenSumSet(LAMBDA c : counts[c], DOMAIN counts))
          <6>1. table' = [i \in 0..b - 1 |-> None]
            BY <2>7, <5>3 DEF AllocateDestination
          <6>2. arrived[2] = Threads
            BY <3>4 DEF ControlInv, PhaseInv
          <6>3. b = CapacityToBuckets(Cardinality(ToSet(rows)))
            BY <6>2, AllMerged
          <6> HIDE DEF b
          <6>4. 0 \in DOMAIN table'
            BY <5>1, <6>1, <6>3
          <6> QED BY <6>4 DEF Unallocated
        <5> QED BY <5>2, <5>3
      <4>2. DOMAIN table' = DOMAIN table
        BY <3>1, <3>2, <3>4, <4>1 DEF TableInv
      <4>3. Buckets' = Buckets
        BY <4>2 DEF Buckets
      <4> QED BY <3>1, <4>3, PlanKept
    <3> QED BY <3>3, <3>4
  <2>8. CASE ReceiveDestination(t)
    BY <2>1, <2>8, PlanKept DEF ReceiveDestination, partitionedVars, Buckets
  <2>9. CASE PlanWrites(t)
    <3>1. /\ pc[t] = "plan" /\ pc' = [pc EXCEPT ![t] = "write"]
          /\ UNCHANGED <<local, shared, table, writers>>
      BY <2>9 DEF PlanWrites
    <3>2. table # Unallocated
      BY <3>1 DEF TableInv
    <3>3. Roomy
      BY <3>2, RoomyOnceAllocated
    <3>4. PICK order, cells :
            /\ GoodPlan(t, order, cells)
            /\ plan' = [plan EXCEPT ![t] = [writes |-> Planned(order, cells), stuck |-> FALSE]]
      BY <2>9, <3>3, PlansAreGood
    <3>5. Planned(order, cells) \in Seq(Writable(t))
      <4>1. /\ Len(order) \in Nat /\ order \in Seq(MergedHashes(t))
            /\ \A n \in 1..Len(order) : cells[n] \in Territory(t)
        BY <3>4 DEF GoodPlan, Stands
      <4>2. \A n \in 1..Len(order) : order[n] \in MergedHashes(t)
        BY <4>1
      <4>3. \A n \in 1..Len(order) : [cell |-> cells[n], row |-> Entry(order[n])] \in Writable(t)
        BY <4>1, <4>2 DEF Writable
      <4>4. Planned(order, cells) \in [1..Len(order) -> Writable(t)]
        BY <4>3 DEF Planned
      <4> QED BY <4>1, <4>4
    <3>6. Buckets' = Buckets
      BY <3>1 DEF Buckets
    <3>7. \A u : Territory(u)' = Territory(u) /\ Writable(u)' = Writable(u)
      BY <3>1, <3>6, SameTerritory
    <3>8. /\ DOMAIN plan' = Threads /\ \A u \in Threads : DOMAIN plan'[u] = {"writes", "stuck"}
          /\ \A u \in Threads : u # t => plan'[u] = plan[u]
          /\ plan'[t].writes = Planned(order, cells)
      BY <3>4 DEF PlanInv
    <3>9. \A u \in Threads : pc'[u] = "write" => plan'[u].writes \in Seq(Writable(u)')
      BY <2>1, <3>1, <3>5, <3>7, <3>8 DEF PlanInv
    <3>10. \A i \in DOMAIN writers' : \A u \in writers'[i] : u \in Threads /\ i \in Territory(u)'
      BY <3>1, <3>7 DEF PlanInv
    <3> QED BY <3>8, <3>9, <3>10 DEF PlanInv
  <2>10. CASE PanicFewCounters(t) \/ Return(t)
    BY <2>1, <2>10, PlanKept DEF PanicFewCounters, Return, partitionedVars, Buckets
  <2>11. CASE WriteCell(t)
    <3> DEFINE w == Head(plan[t].writes)
    <3>1. /\ pc[t] = "write" /\ plan[t].writes # <<>> /\ UNCHANGED <<pc, local, shared>>
          /\ DOMAIN table' = DOMAIN table
          /\ writers' = [writers EXCEPT ![w.cell] = @ \cup {t}]
          /\ plan' = [plan EXCEPT ![t].writes = Tail(@)]
      BY <2>11 DEF WriteCell
    <3>2. plan[t].writes \in Seq(Writable(t))
      BY <3>1 DEF PlanInv
    <3>3. w \in Writable(t) /\ Tail(plan[t].writes) \in Seq(Writable(t))
      BY <3>1, <3>2
    <3>4. w.cell \in Territory(t)
      BY <3>3 DEF Writable
    <3> HIDE DEF w
    <3>5. Buckets' = Buckets
      BY <3>1 DEF Buckets
    <3>6. \A u : Territory(u)' = Territory(u) /\ Writable(u)' = Writable(u)
      BY <3>1, <3>5, SameTerritory
    <3>7. /\ DOMAIN plan' = Threads /\ \A u \in Threads : DOMAIN plan'[u] = {"writes", "stuck"}
          /\ \A u \in Threads : u # t => plan'[u] = plan[u]
          /\ plan'[t].writes = Tail(plan[t].writes)
      BY <3>1 DEF PlanInv
    <3>8. \A u \in Threads : pc'[u] = "write" => plan'[u].writes \in Seq(Writable(u)')
      BY <3>1, <3>3, <3>6, <3>7 DEF PlanInv
    <3>9. \A i \in DOMAIN writers' : \A u \in writers'[i] : u \in Threads /\ i \in Territory(u)'
      <4> SUFFICES ASSUME NEW i \in DOMAIN writers', NEW u \in writers'[i]
                   PROVE  u \in Threads /\ i \in Territory(u)
        BY <3>6
      <4>1. i \in DOMAIN writers /\ (u \in writers[i] \/ (i = w.cell /\ u = t))
        BY <3>1
      <4> QED BY <3>4, <4>1 DEF PlanInv
    <3> QED BY <3>7, <3>8, <3>9 DEF PlanInv
  <2> QED BY <1>2, <2>2, <2>3, <2>4, <2>5, <2>6, <2>7, <2>8, <2>9, <2>10, <2>11 DEF ConcurrentStep
<1> QED BY <1>1, <1>2 DEF ConcurrentNext

LEMMA PlanInit == ConcurrentInit => PlanInv
BY FirstSteps DEF ConcurrentInit, BuilderInit, PlanInv, Unallocated

\* Threads write only buckets that no other thread's hashes take.
THEOREM PlanInvariant == ASSUME FewHashes, UncrowdedInputs PROVE ConcurrentSpec => []PlanInv
<1>1. ControlInv /\ CountsInv /\ TableInv /\ InputInv /\ PlanInv /\ [ConcurrentNext]_concurrentVars => PlanInv'
  BY PlanStep
<1> QED BY <1>1, PlanInit, ControlInvariant, CountsInvariant, TableInvariant, PTL DEF ConcurrentSpec

\* No bucket has two writers, if the input's hashes are not crowded.
THEOREM OneWriter == ASSUME FewHashes, UncrowdedInputs PROVE ConcurrentSpec => []OneWriterPerBucket
<1>1. ControlInv /\ CountsInv /\ TableInv /\ InputInv /\ PlanInv => OneWriterPerBucket
  <2> SUFFICES ASSUME ControlInv, CountsInv, TableInv, InputInv, PlanInv, NEW i \in DOMAIN writers
               PROVE  Cardinality(writers[i]) <= 1
    BY DEF OneWriterPerBucket
  <2>1. table # Unallocated
    BY DEF TableInv, Unallocated
  <2>2. Roomy
    BY <2>1, RoomyOnceAllocated
  <2>3. ASSUME NEW t \in writers[i], NEW u \in writers[i] PROVE t = u
    <3>1. t \in Threads /\ u \in Threads /\ i \in Territory(t) /\ i \in Territory(u)
      BY DEF PlanInv
    <3>2. ~(t < u) /\ ~(u < t)
      BY <2>2, <3>1, TerritoriesDisjoint
    <3>3. t \in Int /\ u \in Int
      BY <3>1, BuilderAssumption DEF Threads
    <3> QED BY <3>2, <3>3
  <2>4. CASE writers[i] = {}
    BY <2>4, FS_EmptySet
  <2>5. CASE writers[i] # {}
    <3>1. PICK t : writers[i] = {t}
      BY <2>3, <2>5
    <3> QED BY <3>1, FS_Singleton
  <2> QED BY <2>4, <2>5
<1> QED BY <1>1, ControlInvariant, CountsInvariant, TableInvariant, PlanInvariant, PTL
-----------------------------------------------------------------------------
(* The cells of the destination *)

\* A bucket for each hash of a thread, all of them the thread's and among the first
\* lanes of the probe.
Housed(t, place) ==
  /\ \A hash \in MergedHashes(t) : /\ place[hash] \in Territory(t)
                                   /\ \E j \in 0..Lanes - 1 : place[hash] = ProbedCell(hash, j)
  /\ \A hash, other \in MergedHashes(t) : place[hash] = place[other] => hash = other

\* Each is still to be written or holds the hash's entry; the thread's others are empty.
Left(t, hash) == \E n \in 1..Len(plan[t].writes) : plan[t].writes[n].row = Entry(hash)
Filled(t, place) ==
  /\ Housed(t, place)
  /\ \A n \in 1..Len(plan[t].writes) :
       \E hash \in MergedHashes(t) : plan[t].writes[n] = [cell |-> place[hash], row |-> Entry(hash)]
  /\ \A m, n \in 1..Len(plan[t].writes) : plan[t].writes[m].row = plan[t].writes[n].row => m = n
  /\ \A hash \in MergedHashes(t) : table[place[hash]] = IF Left(t, hash) THEN None ELSE Entry(hash)
  /\ \A i \in Territory(t) : table[i] # None => \E hash \in MergedHashes(t) : i = place[hash]

\* Nobody finds no free cell, who has planned fills its buckets, and who has not has
\* left them empty.
PlacedInv ==
  /\ \A t \in Threads : plan[t].stuck = FALSE /\ pc[t] # "spinning"
  /\ \A t \in Threads : pc[t] = "done" => plan[t].writes = <<>>
  /\ table # Unallocated =>
       /\ claimant \in Threads /\ pc[claimant] \in AfterAllocation
       /\ \A t \in Threads : IF pc[t] \in {"write", "done"} THEN \E place : Filled(t, place)
                             ELSE \A i \in Territory(t) : table[i] = None
       /\ \A i \in DOMAIN table : table[i] # None => \E t \in Threads : i \in Territory(t)

LEMMA SameFilled ==
  ASSUME NEW t, NEW place, Filled(t, place), UNCHANGED <<local, shared>>, Buckets' = Buckets,
         plan'[t] = plan[t], \A i \in Territory(t) : table'[i] = table[i]
  PROVE  Filled(t, place)'
<1>1. Territory(t)' = Territory(t) /\ MergedHashes(t)' = MergedHashes(t)
  BY SameTerritory
<1>2. \A hash : Entry(hash)' = Entry(hash)
  BY DEF Entry, MergedHead, Chain, Sources
<1>3. \A hash : Left(t, hash)' <=> Left(t, hash)
  BY <1>2 DEF Left
<1>4. \A hash, j : ProbedCell(hash, j)' = ProbedCell(hash, j)
  BY DEF ProbedCell, GroupStart
<1>5. Housed(t, place)'
  BY <1>1, <1>4 DEF Housed, Filled
<1>6. \A n \in 1..Len(plan'[t].writes) :
        \E hash \in MergedHashes(t)' : plan'[t].writes[n] = [cell |-> place[hash], row |-> Entry(hash)']
  BY <1>1, <1>2 DEF Filled
<1>7. \A m, n \in 1..Len(plan'[t].writes) : plan'[t].writes[m].row = plan'[t].writes[n].row => m = n
  BY DEF Filled
<1>8. ASSUME NEW hash \in MergedHashes(t)'
      PROVE  table'[place[hash]] = IF Left(t, hash)' THEN None ELSE Entry(hash)'
  <2>1. place[hash] \in Territory(t)
    BY <1>1 DEF Filled, Housed
  <2>2. table[place[hash]] = IF Left(t, hash) THEN None ELSE Entry(hash)
    BY <1>1 DEF Filled
  <2> QED BY <1>2, <1>3, <2>1, <2>2
<1>9. \A i \in Territory(t)' : table'[i] # None => \E hash \in MergedHashes(t)' : i = place[hash]
  BY <1>1 DEF Filled
<1> QED BY <1>5, <1>6, <1>7, <1>8, <1>9 DEF Filled

\* What neither plans nor writes nor allocates the destination keeps.
LEMMA PlacedKept ==
  ASSUME PlacedInv, UNCHANGED <<plan, table, local, shared>>,
         \A t \in Threads : pc'[t] \in {"write", "done"} <=> pc[t] \in {"write", "done"},
         \A t \in Threads : pc'[t] = "done" => plan[t].writes = <<>>,
         \A t \in Threads : pc'[t] # "spinning",
         \A t \in Threads : pc[t] \in AfterAllocation => pc'[t] \in AfterAllocation,
         claimant \in Threads => claimant' = claimant
  PROVE  PlacedInv'
<1>1. Buckets' = Buckets
  BY DEF Buckets
<1>2. \A t : Territory(t)' = Territory(t)
  BY <1>1, SameTerritory
<1>3. ASSUME table # Unallocated
      PROVE  claimant' \in Threads /\ pc'[claimant'] \in AfterAllocation
  BY <1>3 DEF PlacedInv
<1>4. ASSUME table # Unallocated, NEW t \in Threads, pc'[t] \in {"write", "done"}
      PROVE  \E place : Filled(t, place)'
  <2>1. PICK place : Filled(t, place)
    BY <1>4 DEF PlacedInv
  <2>2. Filled(t, place)'
    BY <1>1, <2>1, SameFilled
  <2> QED BY <2>2
<1>5. ASSUME table # Unallocated, NEW t \in Threads, pc'[t] \notin {"write", "done"}
      PROVE  \A i \in Territory(t)' : table'[i] = None
  BY <1>2, <1>5 DEF PlacedInv
<1>6. ASSUME table # Unallocated
      PROVE  \A i \in DOMAIN table' : table'[i] # None => \E t \in Threads : i \in Territory(t)'
  BY <1>2, <1>6 DEF PlacedInv
<1>7. \A t \in Threads : plan'[t].stuck = FALSE /\ pc'[t] # "spinning"
  BY DEF PlacedInv
<1>8. \A t \in Threads : pc'[t] = "done" => plan'[t].writes = <<>>
  OBVIOUS
<1> QED BY <1>3, <1>4, <1>5, <1>6, <1>7, <1>8 DEF PlacedInv

\* A plan has a bucket for every hash of the thread, none of them written yet.
LEMMA PlanFills ==
  ASSUME NEW t, NEW order, NEW cells, GoodPlan(t, order, cells), UNCHANGED <<local, shared, table>>,
         plan'[t].writes = Planned(order, cells), \A i \in Territory(t) : table[i] = None
  PROVE  \E place : Filled(t, place)'
<1> DEFINE N == Len(order)
           H == MergedHashes(t)
           index(hash) == CHOOSE k \in 1..N : order[k] = hash
<1>1. /\ N \in Nat /\ order \in Seq(H)
      /\ \A k, l \in 1..N : order[k] = order[l] => k = l
      /\ \A hash \in H : \E k \in 1..N : order[k] = hash
      /\ \A n \in 1..N : cells[n] \in Territory(t) /\ \E j \in 0..Lanes - 1 : cells[n] = ProbedCell(order[n], j)
      /\ \A n, m \in 1..N : cells[n] = cells[m] => n = m
  BY DEF GoodPlan, Stands
<1>2. \A k \in 1..N : order[k] \in H
  BY <1>1
<1>0. PICK place : place = [hash \in H |-> cells[index(hash)]]
  OBVIOUS
<1>3. \A hash \in H : index(hash) \in 1..N /\ order[index(hash)] = hash /\ place[hash] = cells[index(hash)]
  BY <1>0, <1>1
<1>4. \A n \in 1..N : index(order[n]) = n
  BY <1>1, <1>2, <1>3
<1> HIDE DEF index
<1>5. Buckets' = Buckets /\ Territory(t)' = Territory(t) /\ MergedHashes(t)' = H
  <2>1. Buckets' = Buckets
    BY DEF Buckets
  <2> QED BY <2>1, SameTerritory
<1>6. \A hash : Entry(hash)' = Entry(hash) /\ Entry(hash).hash = hash
  BY DEF Entry, MergedHead, Chain, Sources
<1>7. \A hash, j : ProbedCell(hash, j)' = ProbedCell(hash, j)
  BY <1>5 DEF ProbedCell, GroupStart
<1> HIDE DEF H, N
<1>8. Housed(t, place)'
  <2>1. ASSUME NEW hash \in H
        PROVE  place[hash] \in Territory(t) /\ \E j \in 0..Lanes - 1 : place[hash] = ProbedCell(hash, j)'
    BY <1>1, <1>3, <1>7
  <2>2. ASSUME NEW hash \in H, NEW other \in H, place[hash] = place[other] PROVE hash = other
    <3>1. index(hash) \in 1..N /\ index(other) \in 1..N /\ cells[index(hash)] = cells[index(other)]
      BY <1>3, <2>2
    <3>2. index(hash) = index(other)
      BY <1>1, <3>1
    <3> QED BY <1>3, <3>2
  <2> QED BY <1>5, <2>1, <2>2 DEF Housed
<1> DEFINE W == plan'[t].writes
<1>9. Len(W) = N /\ \A n \in 1..N : W[n] = [cell |-> cells[n], row |-> Entry(order[n])]
  <2>1. W = [n \in 1..N |-> [cell |-> cells[n], row |-> Entry(order[n])]]
    BY DEF Planned, N
  <2> HIDE DEF W
  <2> QED BY <1>1, <2>1
<1> HIDE DEF W
<1>10. ASSUME NEW n \in 1..Len(W)
       PROVE  \E hash \in H : W[n] = [cell |-> place[hash], row |-> Entry(hash)']
  <2>1. n \in 1..N /\ order[n] \in H /\ place[order[n]] = cells[n]
    BY <1>2, <1>3, <1>4, <1>9
  <2> QED BY <1>6, <1>9, <2>1
<1>11. ASSUME NEW m \in 1..Len(W), NEW n \in 1..Len(W), W[m].row = W[n].row PROVE m = n
  <2>1. m \in 1..N /\ n \in 1..N /\ W[m].row = Entry(order[m]) /\ W[n].row = Entry(order[n])
    BY <1>9
  <2>2. order[m] = order[n]
    BY <1>6, <1>11, <2>1
  <2> QED BY <1>1, <2>1, <2>2
<1>12. ASSUME NEW hash \in H PROVE Left(t, hash)' /\ table'[place[hash]] = None
  <2>1. index(hash) \in 1..Len(W) /\ W[index(hash)].row = Entry(hash)
    BY <1>3, <1>9
  <2>2. Left(t, hash)'
    BY <1>6, <2>1 DEF Left, W
  <2>3. place[hash] \in Territory(t)
    BY <1>1, <1>3
  <2> QED BY <2>2, <2>3
<1>13. \A i \in Territory(t) : table'[i] = None
  OBVIOUS
<1>14. Filled(t, place)'
  BY <1>5, <1>8, <1>10, <1>11, <1>12, <1>13 DEF Filled, W
<1> QED BY <1>14

\* Writing the next of them.
LEMMA WriteFills ==
  ASSUME Roomy, PlanInv, NEW t \in Threads, NEW place, Filled(t, place), WriteCell(t), DOMAIN table = 0..Buckets - 1
  PROVE  /\ Filled(t, place)'
         /\ \E i \in Territory(t) : \A j \in DOMAIN table : j # i => table'[j] = table[j]
<1> DEFINE W == plan[t].writes
           w == Head(W)
<1>1. /\ pc[t] = "write" /\ W # <<>> /\ UNCHANGED <<pc, local, shared>>
      /\ table' = [table EXCEPT ![w.cell] = w.row]
      /\ plan' = [plan EXCEPT ![t].writes = Tail(@)]
  BY DEF WriteCell
<1>2. W \in Seq(Writable(t)) /\ DOMAIN plan = Threads /\ DOMAIN plan[t] = {"writes", "stuck"}
  BY <1>1 DEF PlanInv
<1>3. plan'[t].writes = Tail(W) /\ Len(W) \in Nat /\ 1 \in 1..Len(W) /\ Len(Tail(W)) = Len(W) - 1
      /\ w = W[1] /\ \A n \in 1..Len(W) - 1 : Tail(W)[n] = W[n + 1]
  BY <1>1, <1>2
<1>4. PICK h \in MergedHashes(t) : w = [cell |-> place[h], row |-> Entry(h)]
  BY <1>3 DEF Filled
<1>5. place[h] \in Territory(t) /\ Territory(t) \subseteq 0..Buckets - 1
  BY DEF Filled, Housed, Territory
<1>6. /\ DOMAIN table' = DOMAIN table /\ table'[place[h]] = Entry(h)
      /\ \A j \in DOMAIN table : j # place[h] => table'[j] = table[j]
  BY <1>1, <1>4, <1>5
<1>7. Buckets' = Buckets /\ Territory(t)' = Territory(t) /\ MergedHashes(t)' = MergedHashes(t)
  <2>1. Buckets' = Buckets
    BY <1>6 DEF Buckets
  <2> QED BY <1>1, <2>1, SameTerritory
<1>8. \A hash : Entry(hash)' = Entry(hash) /\ Entry(hash).hash = hash
  BY <1>1 DEF Entry, MergedHead, Chain, Sources
<1>9. \A hash, j : ProbedCell(hash, j)' = ProbedCell(hash, j)
  BY <1>7 DEF ProbedCell, GroupStart
<1>10. Housed(t, place)'
  BY <1>7, <1>9 DEF Housed, Filled
<1> DEFINE V == plan'[t].writes
<1>11. Len(V) = Len(W) - 1 /\ \A n \in 1..Len(V) : V[n] = W[n + 1] /\ n + 1 \in 1..Len(W)
  BY <1>3
<1>12. /\ \A n \in 1..Len(W) : \E hash \in MergedHashes(t) : W[n] = [cell |-> place[hash], row |-> Entry(hash)]
       /\ \A m, n \in 1..Len(W) : W[m].row = W[n].row => m = n
       /\ \A hash \in MergedHashes(t) : table[place[hash]] = IF Left(t, hash) THEN None ELSE Entry(hash)
       /\ \A i \in Territory(t) : table[i] # None => \E hash \in MergedHashes(t) : i = place[hash]
  BY DEF Filled
<1>13. \A hash : Left(t, hash) <=> \E n \in 1..Len(W) : W[n].row = Entry(hash)
  BY DEF Left
<1>14. \A hash : Left(t, hash)' <=> \E n \in 1..Len(V) : V[n].row = Entry(hash)
  BY <1>8 DEF Left
<1>15. W[1].row = Entry(h)
  BY <1>3, <1>4
<1> HIDE DEF V, W, w
<1>16. ASSUME NEW n \in 1..Len(V)
       PROVE  \E hash \in MergedHashes(t)' : V[n] = [cell |-> place[hash], row |-> Entry(hash)']
  <2>1. V[n] = W[n + 1] /\ n + 1 \in 1..Len(W)
    BY <1>11
  <2> QED BY <1>7, <1>8, <1>12, <2>1
<1>17. ASSUME NEW m \in 1..Len(V), NEW n \in 1..Len(V), V[m].row = V[n].row PROVE m = n
  <2>1. V[m] = W[m + 1] /\ V[n] = W[n + 1] /\ m + 1 \in 1..Len(W) /\ n + 1 \in 1..Len(W)
    BY <1>11
  <2>2. m + 1 = n + 1
    BY <1>12, <1>17, <2>1
  <2> QED BY <2>2
<1>18. ASSUME NEW hash \in MergedHashes(t)
       PROVE  table'[place[hash]] = IF Left(t, hash)' THEN None ELSE Entry(hash)
  <2>1. CASE hash = h
    <3>1. ~Left(t, h)'
      <4> SUFFICES ASSUME NEW n \in 1..Len(V), V[n].row = Entry(h) PROVE FALSE
        BY <1>14
      <4>1. V[n] = W[n + 1] /\ n + 1 \in 1..Len(W) /\ n + 1 # 1
        BY <1>11
      <4> QED BY <1>3, <1>12, <1>15, <4>1
    <3> QED BY <1>6, <2>1, <3>1
  <2>2. CASE hash # h
    <3>1. place[hash] # place[h] /\ place[hash] \in DOMAIN table
      <4>1. place[hash] \in Territory(t)
        BY DEF Filled, Housed
      <4>2. place[hash] # place[h]
        BY <2>2 DEF Filled, Housed
      <4> QED BY <1>5, <4>1, <4>2
    <3>2. Left(t, hash)' <=> Left(t, hash)
      <4>1. ASSUME NEW n \in 1..Len(W), W[n].row = Entry(hash) PROVE Left(t, hash)'
        <5>1. n # 1
          BY <1>8, <1>15, <2>2, <4>1
        <5>2. n - 1 \in 1..Len(V) /\ (n - 1) + 1 = n
          BY <1>3, <1>11, <5>1
        <5>3. V[n - 1] = W[n]
          BY <1>11, <5>2
        <5> QED BY <1>14, <4>1, <5>2, <5>3
      <4>2. ASSUME NEW n \in 1..Len(V), V[n].row = Entry(hash) PROVE Left(t, hash)
        BY <1>11, <1>13, <4>2
      <4> QED BY <1>13, <1>14, <4>1, <4>2
    <3> QED BY <1>6, <1>12, <3>1, <3>2
  <2> QED BY <2>1, <2>2
<1>19. ASSUME NEW i \in Territory(t), table'[i] # None PROVE \E hash \in MergedHashes(t) : i = place[hash]
  <2>1. CASE i = place[h]
    BY <2>1
  <2>2. CASE i # place[h]
    <3>1. i \in DOMAIN table
      BY <1>5
    <3> QED BY <1>6, <1>12, <1>19, <2>2, <3>1
  <2> QED BY <2>1, <2>2
<1>20. \A hash \in MergedHashes(t)' : table'[place[hash]] = IF Left(t, hash)' THEN None ELSE Entry(hash)'
  BY <1>7, <1>8, <1>18
<1>21. \A i \in Territory(t)' : table'[i] # None => \E hash \in MergedHashes(t)' : i = place[hash]
  BY <1>7, <1>19
<1>22. Filled(t, place)'
  BY <1>10, <1>16, <1>17, <1>20, <1>21 DEF Filled, V
<1> QED BY <1>5, <1>6, <1>22

\* The places of the destination.
LEMMA TableDomain ==
  ASSUME FewHashes, ControlInv, CountsInv, TableInv, table # Unallocated
  PROVE  DOMAIN table = 0..Buckets - 1
<1> DEFINE b == CapacityToBuckets(Cardinality(ToSet(rows)))
<1>1. b \in Nat \ {0} /\ DOMAIN table = 0..b - 1
  BY FewerThanCounters DEF CountsInv, TableInv
<1> HIDE DEF b
<1>2. Cardinality(0..b - 1) = b
  BY <1>1, FS_Interval
<1> QED BY <1>1, <1>2 DEF Buckets

LEMMA PlacedInit == ConcurrentInit => PlacedInv
BY FirstSteps DEF ConcurrentInit, BuilderInit, PlacedInv

\* The destination is empty when it is allocated, which happens once.
LEMMA AllocationPlaces ==
  ASSUME FewHashes, ControlInv, CountsInv, TableInv, PlacedInv, NEW t \in Threads, AllocateDestination(t)
  PROVE  PlacedInv'
<1> DEFINE b == CapacityToBuckets(MapThenSumSet(LAMBDA c : counts[c], DOMAIN counts))
<1>1. /\ pc[t] = "destination" /\ claimant = t /\ UNCHANGED <<plan, claimant>>
      /\ \/ table' = [i \in 0..b - 1 |-> None] /\ pc' = [pc EXCEPT ![t] = "plan"]
         \/ UNCHANGED table /\ pc' = [pc EXCEPT ![t] = "panicked"]
  BY DEF AllocateDestination, GoTo
<1>2. arrived[2] = Threads
  BY PassedMeansAll DEF AllocateDestination, ControlInv
<1>3. b \in Nat \ {0}
  <2>1. MapThenSumSet(LAMBDA c : counts[c], DOMAIN counts) = Cardinality(ToSet(rows))
    BY <1>2, AllMerged
  <2>2. b = CapacityToBuckets(Cardinality(ToSet(rows)))
    BY <2>1
  <2> QED BY <2>2, FewerThanCounters DEF CountsInv
<1> HIDE DEF b
<1>4. pc \in [Threads -> Steps] /\ table = Unallocated
  <2>1. pc[claimant] \notin AfterAllocation
    BY <1>1 DEF AfterAllocation
  <2> QED BY <2>1 DEF ControlInv, ControlTypeOK, PlacedInv
<1>5. \A u \in Threads : pc'[u] \notin {"write", "done", "spinning"}
  <2>1. \A u \in Threads : pc[u] \notin {"write", "done", "spinning"}
    BY <1>4 DEF TableInv
  <2> QED BY <1>1, <1>4, <2>1
<1>6. \A u \in Threads : plan'[u].stuck = FALSE /\ pc'[u] # "spinning"
  BY <1>1, <1>5 DEF PlacedInv
<1>7. CASE UNCHANGED table
  BY <1>4, <1>5, <1>6, <1>7 DEF PlacedInv
<1>8. CASE table' = [i \in 0..b - 1 |-> None] /\ pc' = [pc EXCEPT ![t] = "plan"]
  <2>1. DOMAIN table' = 0..b - 1 /\ \A i \in 0..b - 1 : table'[i] = None
    BY <1>8
  <2>2. Buckets' = b
    BY <1>3, <2>1, FS_Interval DEF Buckets
  <2>3. \A u \in Threads : \A i \in Territory(u)' : table'[i] = None
    BY <2>1, <2>2 DEF Territory
  <2>4. claimant' \in Threads /\ pc'[claimant'] \in AfterAllocation
    BY <1>1, <1>4, <1>8 DEF AfterAllocation
  <2> QED BY <1>5, <1>6, <2>1, <2>3, <2>4 DEF PlacedInv
<1> QED BY <1>1, <1>7, <1>8

\* Who plans finds room for all its hashes.
LEMMA PlanningPlaces ==
  ASSUME FewHashes, ControlInv, CountsInv, TableInv, InputInv, PlanInv, PlacedInv, NEW t \in Threads, PlanWrites(t)
  PROVE  PlacedInv'
<1>1. /\ pc[t] = "plan" /\ pc' = [pc EXCEPT ![t] = "write"]
      /\ UNCHANGED <<local, shared, table, claimant>>
  BY DEF PlanWrites, GoTo
<1>2. table # Unallocated
  BY <1>1 DEF TableInv
<1>3. Roomy
  BY <1>2, RoomyOnceAllocated
<1>4. PICK order, cells :
        /\ GoodPlan(t, order, cells)
        /\ plan' = [plan EXCEPT ![t] = [writes |-> Planned(order, cells), stuck |-> FALSE]]
  BY <1>3, PlansAreGood
<1>5. /\ plan'[t].writes = Planned(order, cells) /\ plan'[t].stuck = FALSE
      /\ \A u \in Threads : u # t => plan'[u] = plan[u]
  BY <1>4 DEF PlanInv
<1>6. pc \in [Threads -> Steps] /\ \A u \in Threads : pc'[u] = IF u = t THEN "write" ELSE pc[u]
  BY <1>1 DEF ControlInv, ControlTypeOK
<1>7. Buckets' = Buckets
  BY <1>1 DEF Buckets
<1>8. \A u : Territory(u)' = Territory(u)
  BY <1>1, <1>7, SameTerritory
<1>9. \E place : Filled(t, place)'
  <2>1. \A i \in Territory(t) : table[i] = None
    BY <1>1, <1>2 DEF PlacedInv
  <2> QED BY <1>1, <1>4, <1>5, <2>1, PlanFills
<1>10. ASSUME NEW u \in Threads, u # t, pc'[u] \in {"write", "done"} PROVE \E place : Filled(u, place)'
  <2>1. PICK place : Filled(u, place)
    BY <1>2, <1>6, <1>10 DEF PlacedInv
  <2>2. Filled(u, place)'
    BY <1>1, <1>5, <1>7, <1>10, <2>1, SameFilled
  <2> QED BY <2>2
<1>11. ASSUME NEW u \in Threads, pc'[u] \notin {"write", "done"} PROVE \A i \in Territory(u)' : table'[i] = None
  BY <1>1, <1>2, <1>6, <1>8, <1>11 DEF PlacedInv
<1>12. \A i \in DOMAIN table' : table'[i] # None => \E u \in Threads : i \in Territory(u)'
  BY <1>1, <1>2, <1>8 DEF PlacedInv
<1>13. claimant' \in Threads /\ pc'[claimant'] \in AfterAllocation
  BY <1>1, <1>2, <1>6 DEF PlacedInv, AfterAllocation
<1>14. /\ \A u \in Threads : plan'[u].stuck = FALSE /\ pc'[u] # "spinning"
       /\ \A u \in Threads : pc'[u] = "done" => plan'[u].writes = <<>>
  BY <1>5, <1>6 DEF PlacedInv
<1> QED BY <1>9, <1>10, <1>11, <1>12, <1>13, <1>14 DEF PlacedInv

\* Who writes touches no other thread's buckets.
LEMMA WritingPlaces ==
  ASSUME FewHashes, ControlInv, CountsInv, TableInv, InputInv, PlanInv, PlacedInv, NEW t \in Threads, WriteCell(t)
  PROVE  PlacedInv'
<1>1. /\ pc[t] = "write" /\ UNCHANGED <<pc, local, shared, claimant>>
      /\ plan' = [plan EXCEPT ![t].writes = Tail(@)]
      /\ DOMAIN table' = DOMAIN table
  BY DEF WriteCell
<1>2. table # Unallocated
  BY <1>1 DEF TableInv
<1>3. Roomy /\ DOMAIN table = 0..Buckets - 1
  BY <1>2, RoomyOnceAllocated, TableDomain
<1>4. /\ plan'[t].stuck = plan[t].stuck
      /\ \A u \in Threads : u # t => plan'[u] = plan[u]
  BY <1>1 DEF PlanInv
<1>5. PICK place : Filled(t, place)
  BY <1>1, <1>2 DEF PlacedInv
<1>6. /\ Filled(t, place)'
      /\ \E i \in Territory(t) : \A j \in DOMAIN table : j # i => table'[j] = table[j]
  BY <1>3, <1>5, WriteFills
<1>7. PICK i \in Territory(t) : \A j \in DOMAIN table : j # i => table'[j] = table[j]
  BY <1>6
<1>8. Buckets' = Buckets
  BY <1>1 DEF Buckets
<1>9. \A u : Territory(u)' = Territory(u)
  BY <1>1, <1>8, SameTerritory
<1>10. ASSUME NEW u \in Threads, u # t PROVE \A j \in Territory(u) : table'[j] = table[j]
  <2>1. Territory(u) \cap Territory(t) = {}
    <3>1. t < u \/ u < t
      BY <1>10, BuilderAssumption DEF Threads
    <3> QED BY <1>3, <3>1, TerritoriesDisjoint
  <2>2. Territory(u) \subseteq 0..Buckets - 1
    BY DEF Territory
  <2> QED BY <1>3, <1>7, <2>1, <2>2
<1>11. ASSUME NEW u \in Threads, u # t, pc[u] \in {"write", "done"} PROVE \E other : Filled(u, other)'
  <2>1. PICK other : Filled(u, other)
    BY <1>2, <1>11 DEF PlacedInv
  <2>2. Filled(u, other)'
    BY <1>1, <1>4, <1>8, <1>10, <1>11, <2>1, SameFilled
  <2> QED BY <2>2
<1>12. ASSUME NEW u \in Threads, pc[u] \notin {"write", "done"} PROVE \A j \in Territory(u) : table'[j] = None
  <2>1. u # t
    BY <1>1, <1>12
  <2>2. \A j \in Territory(u) : table[j] = None
    BY <1>2, <1>12 DEF PlacedInv
  <2> QED BY <1>10, <2>1, <2>2
<1>13. \A j \in DOMAIN table' : table'[j] # None => \E u \in Threads : j \in Territory(u)
  BY <1>1, <1>2, <1>7 DEF PlacedInv
<1>14. /\ \A u \in Threads : plan'[u].stuck = FALSE /\ pc'[u] # "spinning"
       /\ \A u \in Threads : pc'[u] = "done" => plan'[u].writes = <<>>
  BY <1>1, <1>4 DEF PlacedInv
<1>15. claimant' \in Threads /\ pc'[claimant'] \in AfterAllocation
  BY <1>1, <1>2 DEF PlacedInv
<1>16. \A u \in Threads : IF pc'[u] \in {"write", "done"} THEN \E other : Filled(u, other)'
                          ELSE \A j \in Territory(u)' : table'[j] = None
  BY <1>1, <1>6, <1>9, <1>11, <1>12
<1>17. \A j \in DOMAIN table' : table'[j] # None => \E u \in Threads : j \in Territory(u)'
  BY <1>9, <1>13
<1> QED BY <1>14, <1>15, <1>16, <1>17 DEF PlacedInv

\* The other steps change neither plans nor the destination.
LEMMA PlacedStep ==
  ASSUME FewHashes, ControlInv, CountsInv, TableInv, InputInv, PlanInv, PlacedInv, [ConcurrentNext]_concurrentVars
  PROVE  PlacedInv'
<1>0. /\ pc \in [Threads -> Steps] /\ None \notin Threads
      /\ \A u \in Threads : pc[u] # "spinning" /\ plan[u].stuck = FALSE /\ (pc[u] = "done" => plan[u].writes = <<>>)
  BY GroupAssumption DEF ControlInv, ControlTypeOK, PlacedInv
<1> USE DEF GoTo
<1>1. CASE UNCHANGED concurrentVars
  <2>1. UNCHANGED <<pc, plan, table, local, shared, claimant>>
    BY <1>1 DEF concurrentVars, builderVars, partitionedVars
  <2> QED BY <1>0, <2>1, PlacedKept
<1>2. ASSUME NEW t \in Threads, ConcurrentStep(t) PROVE PlacedInv'
  <2> DEFINE Same == /\ UNCHANGED <<plan, table, local, shared>>
                     /\ claimant \in Threads => claimant' = claimant
                     /\ \A u \in Threads : u # t => pc'[u] = pc[u]
                     /\ pc'[t] \in {"write", "done"} <=> pc[t] \in {"write", "done"}
                     /\ pc'[t] = "done" => plan[t].writes = <<>>
                     /\ pc'[t] # "spinning"
                     /\ pc[t] \in AfterAllocation => pc'[t] \in AfterAllocation
  <2>1. ASSUME Same PROVE PlacedInv'
    <3>1. /\ \A u \in Threads : pc'[u] \in {"write", "done"} <=> pc[u] \in {"write", "done"}
          /\ \A u \in Threads : pc'[u] = "done" => plan[u].writes = <<>>
          /\ \A u \in Threads : pc'[u] # "spinning"
          /\ \A u \in Threads : pc[u] \in AfterAllocation => pc'[u] \in AfterAllocation
      BY <1>0, <2>1
    <3> QED BY <2>1, <3>1, PlacedKept
  <2>2. CASE AllocateBatch(t) \/ SendTables(t)
    <3>1. /\ pc[t] \in Accumulating /\ UNCHANGED <<table, plan>>
          /\ pc' = [pc EXCEPT ![t] = "accumulate"] \/ pc' = [pc EXCEPT ![t] = "collect"]
      BY <2>2 DEF AllocateBatch, SendTables, Accumulating
    <3>2. arrived[2] # Threads
      BY <3>1 DEF ControlInv, PhaseInv, AfterAllocation, Accumulating
    <3>3. table = Unallocated
      BY <3>2 DEF ControlInv, PhaseInv
    <3>4. \A u \in Threads : pc'[u] # "spinning" /\ (pc'[u] = "done" => pc[u] = "done")
      BY <1>0, <3>1
    <3>5. table' = Unallocated /\ \A u \in Threads : plan'[u].stuck = FALSE /\ (pc'[u] = "done" => plan'[u].writes = <<>>)
      BY <1>0, <3>1, <3>3, <3>4
    <3> QED BY <3>4, <3>5 DEF PlacedInv
  <2>3. CASE AllocateDestination(t)
    BY <2>3, AllocationPlaces
  <2>4. CASE PlanWrites(t)
    BY <2>4, PlanningPlaces
  <2>5. CASE WriteCell(t)
    BY <2>5, WritingPlaces
  <2> USE DEF AfterAllocation, partitionedVars
  <2>6. CASE LockTracker(t) \/ CollectTables(t) \/ AllocateOverflow(t) \/ ReceiveOverflow(t) \/ CopyOverflow(t)
    BY <1>0, <2>1, <2>6 DEF LockTracker, CollectTables, AllocateOverflow, ReceiveOverflow, CopyOverflow
  <2>7. CASE AllocateCounts(t) \/ ReceiveCounts(t) \/ ArriveCopied(t) \/ Merge(t) \/ ArriveMerged(t)
    BY <1>0, <2>1, <2>7 DEF AllocateCounts, ReceiveCounts, ArriveCopied, Arrive, Merge, ArriveMerged
  <2>8. CASE LockSenders(t) \/ MissSenders(t) \/ TakeSenders(t) \/ ReceiveDestination(t)
    BY <1>0, <2>1, <2>8 DEF LockSenders, MissSenders, TakeSenders, ReceiveDestination
  <2>9. CASE PanicFewCounters(t) \/ Return(t)
    BY <1>0, <2>1, <2>9 DEF PanicFewCounters, Return
  <2> QED BY <1>2, <2>2, <2>3, <2>4, <2>5, <2>6, <2>7, <2>8, <2>9 DEF ConcurrentStep
<1> QED BY <1>1, <1>2 DEF ConcurrentNext

\* write_partition finds a bucket for each hash of its thread without leaving a gap
\* that a lookup would stop at, and the destination has entries of those only.
THEOREM PlacedInvariant == ASSUME FewHashes, UncrowdedInputs PROVE ConcurrentSpec => []PlacedInv
<1>1. ControlInv /\ CountsInv /\ TableInv /\ InputInv /\ PlanInv /\ PlacedInv /\ [ConcurrentNext]_concurrentVars => PlacedInv'
  BY PlacedStep
<1> QED BY <1>1, PlacedInit, ControlInvariant, CountsInvariant, TableInvariant, PlanInvariant, PTL DEF ConcurrentSpec

-----------------------------------------------------------------------------
(* The lookup *)

\* The lanes a hash may be placed in are within the window looked at first.
LEMMA InFirstWindow ==
  ASSUME Buckets \in Nat \ {0}, NEW hash \in Nat, NEW j \in 0..Lanes - 1
  PROVE  ProbedCell(hash, j) \in Window(hash, 0)
<1>1. Lanes \in 1..Width /\ Width \in Nat
  BY GroupAssumption
<1>2. GroupStart(hash, 0) = hash % Buckets
  <2>1. (0 * (0 + 1)) \div 2 = 0
    OBVIOUS
  <2>2. hash + Width * 0 = hash
    BY <1>1
  <2> QED BY <2>1, <2>2 DEF GroupStart
<1>3. ProbedCell(hash, j) = (GroupStart(hash, 0) + j) % Buckets
  BY <1>2, FirstLanes
<1>4. j \in 0..Width - 1
  BY <1>1
<1> QED BY <1>3, <1>4 DEF Window

\* The entry of a hash is one.
LEMMA EntryIsThere ==
  ASSUME ControlInv, CountsInv, LocalInv, ToSet(shared) = Threads, NEW hash \in Seen
  PROVE  Entry(hash) # None /\ Entry(hash).hash = hash /\ Entry(hash).head = MergedHead(hash)
<1>1. Len(shared) \in Nat /\ DOMAIN shared = 1..Len(shared) /\ Len(rows) \in Nat
  BY DEF ControlInv, ControlTypeOK
<1>2. Sources(hash) \in SUBSET (0..Len(shared))
  BY <1>1 DEF Sources
<1>3. Sources(hash) # {}
  <2>1. PICK t \in Threads : hash \in DOMAIN local[t]
    BY DEF Seen
  <2>2. PICK n \in DOMAIN shared : shared[n] = t
    BY DEF ToSet
  <2> QED BY <2>1, <2>2 DEF Sources
<1>4. Max(Sources(hash)) \in Sources(hash)
  BY <1>1, <1>2, <1>3, MaxIs
<1>5. PICK n : n = Max(Sources(hash))
  OBVIOUS
<1>6. MergedHead(hash) \in Mine(shared[n], hash)
  BY <1>4, <1>5, ChainIs DEF MergedHead, Spans
<1>7. MergedHead(hash) \in Nat
  BY <1>1, <1>6 DEF Mine, RowsOf
<1>8. hash \in Hashes
  BY DEF Seen, CountsInv, RowsInv
<1>9. Entry(hash) \in [hash : Hashes, head : Nat]
  BY <1>7, <1>8 DEF Entry
<1> QED BY <1>9, GroupAssumption DEF Entry

\* Once every call of run has returned, a hash that has rows is found in one bucket, and a
\* hash that has none in none.
LEMMA FoundOnce ==
  ASSUME FewHashes, ControlInv, CountsInv, LocalInv, TableInv, InputInv, PlacedInv,
         \A t \in Threads : pc[t] = "done", NEW hash
  PROVE  /\ hash \in Seen => \E i : Found(hash) = {i} /\ table[i] = Entry(hash)
         /\ hash \notin Seen => Found(hash) = {}
<1>1. 0 \in Threads /\ None \notin Threads
  BY ThreadsAre, GroupAssumption
<1>2. table # Unallocated
  BY <1>1 DEF TableInv
<1>3. arrived[2] = Threads /\ ToSet(shared) = Threads
  BY <1>1, <1>2 DEF ControlInv, PhaseInv, Accumulating
<1>4. Roomy /\ DOMAIN table = 0..Buckets - 1
  BY <1>2, RoomyOnceAllocated, TableDomain
<1>5. Buckets \in Nat \ {0} /\ Seen \in SUBSET Nat
  BY <1>4, ReadyFacts
<1>6. Merged = Seen /\ \A t : MergedHashes(t) \subseteq Seen
  BY <1>3, AllMerged DEF MergedHashes, Seen
<1>7. \A t \in Threads : \E place : Filled(t, place)
  BY <1>2 DEF PlacedInv
<1>8. ASSUME NEW t \in Threads, NEW place, Filled(t, place), NEW other \in MergedHashes(t)
      PROVE  place[other] \in DOMAIN table /\ table[place[other]] = Entry(other)
  <2>1. plan[t].writes = <<>>
    BY DEF PlacedInv
  <2>2. ~Left(t, other)
    BY <2>1 DEF Left
  <2>3. place[other] \in Territory(t)
    BY <1>8 DEF Filled, Housed
  <2> QED BY <1>4, <1>8, <2>2, <2>3 DEF Filled, Territory
<1>9. ASSUME NEW i \in Found(hash), NEW t \in Threads, i \in Territory(t), NEW place, Filled(t, place)
      PROVE  hash \in MergedHashes(t) /\ i = place[hash]
  <2>1. table[i] # None /\ table[i].hash = hash
    BY DEF Found
  <2>2. PICK other \in MergedHashes(t) : i = place[other]
    BY <1>9, <2>1 DEF Filled
  <2>3. table[i] = Entry(other)
    BY <1>8, <1>9, <2>2
  <2>4. other = hash
    BY <1>3, <1>6, <2>1, <2>3, EntryIsThere
  <2> QED BY <2>2, <2>4
<1>10. ASSUME NEW i \in Found(hash) PROVE \E t \in Threads : i \in Territory(t)
  BY <1>2 DEF Found, PlacedInv
<1>11. ASSUME hash \notin Seen PROVE Found(hash) = {}
  <2> SUFFICES ASSUME NEW i \in Found(hash) PROVE FALSE
    OBVIOUS
  <2>1. PICK t \in Threads : i \in Territory(t)
    BY <1>10
  <2>2. PICK place : Filled(t, place)
    BY <1>7
  <2> QED BY <1>6, <1>9, <1>11, <2>1, <2>2
<1>12. ASSUME hash \in Seen PROVE \E i : Found(hash) = {i} /\ table[i] = Entry(hash)
  <2>1. PICK t \in Threads : hash \in MergedHashes(t)
    BY <1>6, <1>12 DEF Merged
  <2>2. PICK place : Filled(t, place)
    BY <1>7
  <2>3. PICK i : i = place[hash]
    OBVIOUS
  <2>4. i \in DOMAIN table /\ table[i] = Entry(hash)
    BY <1>8, <2>1, <2>2, <2>3
  <2>5. table[i] # None /\ table[i].hash = hash
    BY <1>3, <1>12, <2>4, EntryIsThere
  <2>6. i \in Found(hash)
    <3>1. PICK j \in 0..Lanes - 1 : i = ProbedCell(hash, j)
      BY <2>1, <2>2, <2>3 DEF Filled, Housed
    <3>2. i \in Window(hash, 0)
      BY <1>5, <1>12, <3>1, InFirstWindow
    <3>3. 0 \in 0..Buckets - 1 /\ \A m \in 0..0 - 1 : ~Stops(hash, m)
      BY <1>5
    <3> QED BY <2>4, <2>5, <3>2, <3>3 DEF Found
  <2>7. ASSUME NEW k \in Found(hash) PROVE k = i
    <3>1. PICK u \in Threads : k \in Territory(u)
      BY <1>10
    <3>2. PICK other : Filled(u, other)
      BY <1>7
    <3>3. hash \in MergedHashes(u)
      BY <1>9, <3>1, <3>2
    <3>4. u = t
      <4>1. TablePartitions \in Nat
        BY PartitionCount, PowersArePositive DEF FewHashes
      <4> QED BY <2>1, <3>3, <4>1, HashesHaveOneOwner
    <3> QED BY <1>9, <2>2, <2>3, <3>1, <3>4
  <2>8. Found(hash) = {i}
    BY <2>6, <2>7
  <2> QED BY <2>4, <2>8
<1> QED BY <1>11, <1>12

\* So it has the rows of each hash.
LEMMA LookupComplete ==
  ASSUME FewHashes, ControlInv, CountsInv, BuffersAreDisjoint, LocalInv, LinkInv, TableInv, InputInv, PlacedInv,
         \A t \in Threads : pc[t] = "done", NEW hash
  PROVE  LookedUp(hash) = {i - 1 : i \in AllOf(hash)}
<1>1. 0 \in Threads
  BY ThreadsAre
<1>2. arrived[2] = Threads /\ ToSet(shared) = Threads
  BY <1>1 DEF ControlInv, PhaseInv, Accumulating, AfterAllocation
<1>3. CASE hash \in Seen
  <2>1. PICK i : Found(hash) = {i} /\ table[i] = Entry(hash)
    BY <1>3, FoundOnce
  <2>2. table[i].head = MergedHead(hash)
    BY <1>2, <1>3, <2>1, EntryIsThere
  <2>3. LookedUp(hash) = ChainOf(MergedHead(hash))
    BY <2>1, <2>2 DEF LookedUp
  <2> QED BY <1>2, <1>3, <2>3, ChainsComplete
<1>4. CASE hash \notin Seen
  <2>1. Found(hash) = {}
    BY <1>4, FoundOnce
  <2>2. LookedUp(hash) = {}
    BY <2>1 DEF LookedUp
  <2>3. AllOf(hash) = {}
    <3>1. DOMAIN rows = 1..Len(rows)
      BY DEF ControlInv, ControlTypeOK
    <3>2. \A i \in 1..Len(rows) : rows[i] \in Seen
      BY <3>1 DEF CountsInv, RowsInv, ToSet
    <3> QED BY <1>4, <3>2 DEF AllOf
  <2> QED BY <2>2, <2>3
<1> QED BY <1>3, <1>4

\* What holds throughout, and that rows are found.
PartitionedInv == /\ ControlInv /\ BuffersAreDisjoint /\ CountsInv /\ LocalInv /\ LinkInv
                  /\ TableInv /\ InputInv /\ PlanInv /\ PlacedInv

\* What the phases of run keep, from the batches to the destination.
THEOREM PartitionedInvariant == ASSUME FewHashes, UncrowdedInputs PROVE ConcurrentSpec => []PartitionedInv
BY ControlInvariant, BuffersDisjoint, CountsInvariant, LocalInvariant, LinkInvariant, TableInvariant,
   PlanInvariant, PlacedInvariant, PTL DEF PartitionedInv

\* Every row that a batch brought is among the answers of lookup for its hash, once
\* every call of run has returned, if the input's hashes are not crowded.
THEOREM EveryRowIsFound == ASSUME FewHashes, UncrowdedInputs PROVE ConcurrentSpec => []RowsAreFound
<1>1. PartitionedInv => RowsAreFound
  <2> SUFFICES ASSUME PartitionedInv, \A t \in Threads : pc[t] = "done", NEW n \in DOMAIN rows
               PROVE  n - 1 \in LookedUp(rows[n])
    BY DEF RowsAreFound
  <2>1. PICK hash : hash = rows[n]
    OBVIOUS
  <2>2. n \in AllOf(hash)
    BY <2>1 DEF AllOf, PartitionedInv, ControlInv, ControlTypeOK
  <2>3. LookedUp(hash) = {i - 1 : i \in AllOf(hash)}
    BY LookupComplete DEF PartitionedInv
  <2> QED BY <2>1, <2>2, <2>3
<1> QED BY <1>1, PartitionedInvariant, PTL

\* A thread that finds no free cell goes round the table for ever.
NobodySpins == \A t \in Threads : pc[t] # "spinning"

\* write_partition's search for a free bucket always ends, if the hashes are not crowded.
THEOREM AllFindCells == ASSUME FewHashes, UncrowdedInputs PROVE ConcurrentSpec => []NobodySpins
<1>1. PlacedInv => NobodySpins
  BY DEF PlacedInv, NobodySpins
<1> QED BY <1>1, PlacedInvariant, PTL
=============================================================================
