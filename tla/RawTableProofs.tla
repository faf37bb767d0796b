--------------------------- MODULE RawTableProofs ---------------------------
(***************************************************************************)
(* Theorems about the raw table and the calls on it, for the variants with *)
(* the original encoding of control bytes whose hash function panics only  *)
(* if elements have a drop function (the runs `hasher_panic` and           *)
(* `extra_bit` show that the others are not sound).                        *)
(***************************************************************************)
EXTENDS TableCalls, NumberLemmas

\* The variants the theorems are about.
SoundVariants ==
  \A b \in Builds : b.encoding = "highBit" /\ (b.hasherPanics => b.needsDrop)

------------------------------------------------------------------------------
(* Bytes and sizes *)

Bytes == 0..127 \cup {128, 255}
BucketCounts == {1} \cup {2 ^ k : k \in 2..30}

\* The encoding, spelled out.
LEMMA ByteFacts ==
  ASSUME SoundVariants, build \in Builds
  PROVE  /\ Width \in {4, 8, 16}
         /\ EMPTY = 255 /\ DELETED = 128
         /\ \A x \in Bytes : IsFull(x) <=> x \in 0..127
         /\ \A x \in Bytes : Converted(x) = IF x \in 0..127 THEN DELETED ELSE EMPTY
         /\ \A hash \in Hashes : Tag(hash) \in 0..127
         /\ build.hasherPanics => build.needsDrop
<1>1. build.encoding = "highBit" /\ build.width \in {4, 8, 16}
      /\ (build.hasherPanics => build.needsDrop)
  BY BuildAssumption DEF SoundVariants
<1>2. \A x \in Bytes : IsFull(x) <=> x \in 0..127
  BY <1>1 DEF IsFull, Bytes
<1>3. EMPTY = 255 /\ DELETED = 128
  BY <1>1 DEF EMPTY, DELETED
<1>4. \A x \in Bytes : Converted(x) = IF x \in 0..127 THEN DELETED ELSE EMPTY
  BY <1>2, <1>3 DEF Converted
<1>5. ASSUME NEW hash \in Hashes PROVE Tag(hash) \in 0..127
  <2>1. hash.top \in 0..255
    BY HashAssumption
  <2>2. hash.top \div 2 \in 0..127
    BY <2>1
  <2> QED BY <1>1, <2>2 DEF Tag, HighBitTag
<1> QED BY <1>1, <1>2, <1>3, <1>4, <1>5 DEF Width

\* The first powers of two.
LEMMA SmallPowers == 2 ^ 0 = 1 /\ 2 ^ 1 = 2 /\ 2 ^ 2 = 4 /\ 2 ^ 3 = 8 /\ 2 ^ 4 = 16
<1>1. 2 ^ 0 = 1
  OBVIOUS
<1>2. 2 ^ (0 + 1) = 2 * 2 ^ 0 /\ 2 ^ (1 + 1) = 2 * 2 ^ 1 /\ 2 ^ (2 + 1) = 2 * 2 ^ 2
      /\ 2 ^ (3 + 1) = 2 * 2 ^ 3
  BY PowerStep
<1>3. 0 + 1 = 1 /\ 1 + 1 = 2 /\ 2 + 1 = 3 /\ 3 + 1 = 4
  OBVIOUS
<1> QED BY <1>1, <1>2, <1>3

\* A power of two that is not smaller is a multiple.
LEMMA PowerRest ==
  ASSUME NEW m \in Nat, NEW k \in Nat, m <= k
  PROVE  k - m \in Nat /\ 2 ^ k = 2 ^ m * 2 ^ (k - m)
<1>1. k - m \in Nat /\ m + (k - m) = k
  OBVIOUS
<1> QED BY <1>1, PowerSum

\* A table is smaller than a window, of which it is then a part, or it is a power of
\* two of windows.
LEMMA SizeFacts ==
  ASSUME NEW b \in BucketCounts, NEW w \in {4, 8, 16}
  PROVE  /\ b \in Nat \ {0}
         /\ b < w => b \in {1, 4, 8} /\ w % b = 0
         /\ b >= w => \E j \in Nat : b = w * 2 ^ j
         /\ BucketMaskToCapacity(b) \in 0..b - 1
<1>1. b \in Nat \ {0}
  BY PowerType DEF BucketCounts
<1>2. BucketMaskToCapacity(b) \in 0..b - 1
  BY <1>1 DEF BucketMaskToCapacity
<1>3. CASE b = 1
  <2>1. 4 % 1 = 0 /\ 8 % 1 = 0 /\ 16 % 1 = 0
    OBVIOUS
  <2>2. w % b = 0 /\ b < w
    BY <1>3, <2>1
  <2> QED BY <1>1, <1>2, <1>3, <2>2
<1>4. CASE b # 1
  <2>1. PICK k \in 2..30 : b = 2 ^ k
    BY <1>4 DEF BucketCounts
  <2>2. k \in Nat /\ (k = 2 \/ k = 3 \/ k >= 4)
    OBVIOUS
  <2>3. CASE w = 4
    <3>1. k - 2 \in Nat /\ b = 4 * 2 ^ (k - 2) /\ 2 ^ (k - 2) \in Nat \ {0}
      <4>1. 2 \in Nat /\ 2 <= k
        BY <2>2
      <4>2. k - 2 \in Nat /\ 2 ^ k = 2 ^ 2 * 2 ^ (k - 2)
        BY <2>2, <4>1, PowerRest
      <4> QED BY <2>1, <4>2, SmallPowers, PowerType
    <3> QED BY <1>1, <1>2, <2>3, <3>1
  <2>4. CASE w = 8
    <3>1. CASE k = 2
      BY <1>1, <1>2, <2>1, <2>4, <3>1, SmallPowers
    <3>2. CASE k >= 3
      <4>1. k - 3 \in Nat /\ b = 8 * 2 ^ (k - 3) /\ 2 ^ (k - 3) \in Nat \ {0}
        <5>1. 3 \in Nat /\ 3 <= k
          BY <2>2, <3>2
        <5>2. k - 3 \in Nat /\ 2 ^ k = 2 ^ 3 * 2 ^ (k - 3)
          BY <2>2, <5>1, PowerRest
        <5> QED BY <2>1, <5>2, SmallPowers, PowerType
      <4> QED BY <1>1, <1>2, <2>4, <4>1
    <3> QED BY <2>2, <3>1, <3>2
  <2>5. CASE w = 16
    <3>1. CASE k = 2 \/ k = 3
      <4>1. 16 % 4 = 0 /\ 16 % 8 = 0
        OBVIOUS
      <4>2. CASE k = 2
        BY <1>1, <1>2, <2>1, <2>5, <4>1, <4>2, SmallPowers
      <4>3. CASE k = 3
        BY <1>1, <1>2, <2>1, <2>5, <4>1, <4>3, SmallPowers
      <4> QED BY <3>1, <4>2, <4>3
    <3>2. CASE k >= 4
      <4>1. k - 4 \in Nat /\ b = 16 * 2 ^ (k - 4) /\ 2 ^ (k - 4) \in Nat \ {0}
        <5>1. 4 \in Nat /\ 4 <= k
          BY <2>2, <3>2
        <5>2. k - 4 \in Nat /\ 2 ^ k = 2 ^ 4 * 2 ^ (k - 4)
          BY <2>2, <5>1, PowerRest
        <5> QED BY <2>1, <5>2, SmallPowers, PowerType
      <4> QED BY <1>1, <1>2, <2>5, <4>1
    <3> QED BY <2>2, <3>1, <3>2
  <2> QED BY <2>3, <2>4, <2>5
<1> QED BY <1>3, <1>4

------------------------------------------------------------------------------
(* The windows of a probe *)

\* The buckets that the n-th window of a probe shows, in a table of b buckets.
Stride(hash, n) ==
  IF build.probing = "triangular" THEN Triangle(n) ELSE n * (2 * Tag(hash) + 1)
PositionIn(b, hash, n) == (hash.low + Width * Stride(hash, n)) % b
WindowIn(b, hash, n) == {(PositionIn(b, hash, n) + k) % b : k \in Offsets}
ProbesIn(b) == IF b > Width THEN 0..(b \div Width) - 1 ELSE {0}

\* Counted in windows from the home position of the hash, where bucket i is.
GroupIn(b, hash, i) == ((i - hash.low) % b) \div Width

LEMMA StrideType ==
  ASSUME SoundVariants, build \in Builds, NEW hash \in Hashes, NEW n \in Nat
  PROVE  /\ Stride(hash, n) \in Nat
         /\ Width * Stride(hash, n) \in Nat
         /\ hash.low \in Nat
         /\ n = 0 => Stride(hash, n) = 0
<1>1. Tag(hash) \in 0..127 /\ Width \in Nat
  BY ByteFacts
<1>2. n * (2 * Tag(hash) + 1) \in Nat /\ (n = 0 => n * (2 * Tag(hash) + 1) = 0)
  BY <1>1
<1>3. Triangle(n) \in Nat /\ (n = 0 => Triangle(n) = 0)
  BY TriangleType
<1>4. Stride(hash, n) \in Nat /\ (n = 0 => Stride(hash, n) = 0)
  BY <1>2, <1>3 DEF Stride
<1>5. hash.low \in Nat
  BY HashAssumption
<1> QED BY <1>1, <1>4, <1>5

LEMMA PositionType ==
  ASSUME SoundVariants, build \in Builds, NEW b \in Nat \ {0}, NEW hash \in Hashes, NEW n \in Nat
  PROVE  /\ PositionIn(b, hash, n) \in 0..b - 1
         /\ WindowIn(b, hash, n) \subseteq 0..b - 1
<1>1. hash.low + Width * Stride(hash, n) \in Int
  BY StrideType
<1>2. PositionIn(b, hash, n) \in 0..b - 1
  <2> DEFINE x == hash.low + Width * Stride(hash, n)
  <2> HIDE DEF x
  <2>1. x % b \in 0..b - 1
    BY <1>1, Modulo DEF x
  <2> QED BY <2>1 DEF PositionIn, x
<1>3. ASSUME NEW k \in Offsets PROVE (PositionIn(b, hash, n) + k) % b \in 0..b - 1
  <2>1. PositionIn(b, hash, n) + k \in Int
    BY <1>2, ByteFacts DEF Offsets
  <2> QED BY <2>1, Modulo
<1> QED BY <1>2, <1>3 DEF WindowIn

\* Position as the model computes it.
LEMMA PositionIs ==
  ASSUME SoundVariants, build \in Builds, NEW t, NEW hash \in Hashes, NEW n \in Nat
  PROVE  Position(t, hash, n) = PositionIn(t.buckets, hash, n)
<1>1. TriangularStride(n) = Width * Triangle(n)
  BY DEF TriangularStride, Triangle
<1>2. DoubleHashStride(hash, n) = Width * (n * (2 * Tag(hash) + 1))
  <2>1. Tag(hash) \in Nat /\ Width \in Nat
    BY ByteFacts
  <2>2. n * (2 * Tag(hash) + 1) * Width = Width * (n * (2 * Tag(hash) + 1))
    <3> DEFINE x == n * (2 * Tag(hash) + 1)
    <3>1. x \in Nat
      BY <2>1
    <3> HIDE DEF x
    <3>2. x * Width = Width * x
      BY <2>1, <3>1
    <3> QED BY <3>2 DEF x
  <2> QED BY <2>2 DEF DoubleHashStride
<1> QED BY <1>1, <1>2 DEF Position, PositionIn, Stride

\* A table of several windows is divided into them: the n-th window of a probe is one
\* of its groups, counted from the home position.
LEMMA WindowIsGroup ==
  ASSUME SoundVariants, build \in Builds, NEW b \in Nat \ {0}, NEW m \in Nat \ {0},
         b = Width * m, NEW hash \in Hashes, NEW n \in Nat, NEW i \in 0..b - 1
  PROVE  i \in WindowIn(b, hash, n) <=> GroupIn(b, hash, i) = Stride(hash, n) % m
<1> DEFINE low == hash.low
           s == Stride(hash, n)
           p == PositionIn(b, hash, n)
           r == (i - low) % b
<1>1. low \in Int /\ s \in Int /\ Width \in Nat \ {0} /\ i \in Int
  BY StrideType, ByteFacts
<1>2. s \div m \in Int /\ s % m \in 0..m - 1 /\ s = m * (s \div m) + (s % m)
  <2> HIDE DEF s
  <2> QED BY <1>1, Quotient
<1>3. Width * s \in Int /\ Width * s = b * (s \div m) + Width * (s % m)
  <2> DEFINE q == s \div m
             e == s % m
  <2>1. q \in Int /\ e \in Int /\ s = m * q + e
    BY <1>2
  <2> HIDE DEF q, e, s
  <2>2. Width * s = Width * (m * q) + Width * e
    <3> DEFINE x == m * q
    <3>1. x \in Int
      BY <2>1
    <3> HIDE DEF x
    <3> QED BY <1>1, <2>1, <3>1 DEF x
  <2>3. Width * (m * q) = (Width * m) * q
    BY <1>1, <2>1
  <2> QED BY <1>1, <2>1, <2>2, <2>3 DEF q, e
<1>4. ASSUME NEW k \in Offsets
      PROVE  /\ k \in 0..Width - 1 /\ Width * (s % m) + k \in 0..b - 1
             /\ (Width * s + k) % b = Width * (s % m) + k
             /\ (p + k) % b = (low + (Width * s + k)) % b
  <2> DEFINE e == s % m
             q == s \div m
  <2>1. k \in 0..Width - 1 /\ e \in 0..m - 1 /\ q \in Int
    BY <1>2 DEF Offsets
  <2>2. Width * e + k \in 0..b - 1
    <3> HIDE DEF e
    <3>1. Width * e <= Width * (m - 1) /\ Width * (m - 1) = Width * m - Width
          /\ Width * e \in Nat
      BY <1>1, <2>1
    <3> QED BY <1>1, <2>1, <3>1
  <2>3. Width * s + k = b * q + (Width * e + k)
    <3>1. Width * e \in Int /\ b * q \in Int
      BY <1>1, <2>1
    <3> QED BY <1>3, <2>1, <3>1
  <2>4. (b * q + (Width * e + k)) % b = Width * e + k
    <3> HIDE DEF e, q
    <3> DEFINE y == Width * e + k
    <3> HIDE DEF y
    <3>1. y \in 0..b - 1
      BY <2>2 DEF y
    <3>2. (b * q + y) % b = y
      BY <2>1, <3>1, Remainder
    <3> QED BY <3>2 DEF y
  <2>5. (p + k) % b = (low + (Width * s + k)) % b
    <3> DEFINE z == low + Width * s
    <3>1. z \in Int /\ k \in Int
      BY <1>1, <1>3, <2>1
    <3>2. low + (Width * s + k) = z + k
      BY <1>1, <1>3, <2>1
    <3>3. p = z % b
      BY DEF PositionIn
    <3> HIDE DEF z, p
    <3>4. ((z % b) + k) % b = (z + k) % b
      BY <3>1, ModuloSum
    <3> QED BY <3>2, <3>3, <3>4
  <2> QED BY <2>1, <2>2, <2>3, <2>4, <2>5
<1>5. r \in 0..b - 1 /\ r \div Width \in Int /\ r % Width \in 0..Width - 1
      /\ r = Width * (r \div Width) + (r % Width)
  <2>1. i - low \in Int
    BY <1>1
  <2>2. r \in 0..b - 1
    <3> DEFINE x == i - low
    <3> HIDE DEF x
    <3>1. x % b \in 0..b - 1
      BY <2>1, Modulo DEF x
    <3> QED BY <3>1 DEF x
  <2>3. r \in Int
    BY <2>2
  <2> HIDE DEF r
  <2> QED BY <1>1, <2>2, <2>3, Quotient
<1>6. ASSUME i \in WindowIn(b, hash, n) PROVE r \div Width = s % m
  <2>1. PICK k \in Offsets : i = (p + k) % b
    BY <1>6 DEF WindowIn
  <2> DEFINE x == Width * s + k
             e == s % m
  <2>2. x \in Int /\ x % b = Width * e + k /\ i = (low + x) % b /\ k \in 0..Width - 1
    BY <1>1, <1>3, <1>4, <2>1 DEF Offsets
  <2>3. r = x % b
    <3> HIDE DEF x
    <3>1. (((low + x) % b) - low) % b = x % b
      BY <1>1, <2>2, ShiftThere
    <3> QED BY <2>2, <3>1
  <2>4. r = Width * e + k /\ e \in Int
    BY <1>2, <2>2, <2>3
  <2> HIDE DEF r, e, x
  <2>5. (Width * e + k) \div Width = e
    BY <1>1, <2>2, <2>4
  <2> QED BY <2>4, <2>5 DEF e
<1>7. ASSUME r \div Width = s % m PROVE i \in WindowIn(b, hash, n)
  <2> DEFINE k == r % Width
             x == Width * s + k
  <2>1. k \in Offsets /\ k \in Int
    BY <1>5 DEF Offsets
  <2>2. x \in Int /\ x % b = r /\ (p + k) % b = (low + x) % b
    <3>1. x \in Int
      BY <1>1, <1>3, <2>1
    <3>2. (Width * s + k) % b = Width * (s % m) + k /\ (p + k) % b = (low + (Width * s + k)) % b
      BY <1>4, <2>1
    <3>3. Width * (s % m) + k = r
      BY <1>5, <1>7
    <3> QED BY <3>1, <3>2, <3>3
  <2>3. (low + x) % b = (low + r) % b
    <3> HIDE DEF x
    <3>1. ((x % b) + low) % b = (x + low) % b
      BY <1>1, <2>2, ModuloSum
    <3>2. x + low = low + x
      <4>1. low \in Int /\ x \in Int
        BY <1>1, <2>2
      <4> HIDE DEF low
      <4> QED BY <4>1
    <3>3. r + low = low + r
      <4>1. r \in Int
        BY <1>5
      <4> HIDE DEF r
      <4> QED BY <1>1, <4>1
    <3> QED BY <2>2, <3>1, <3>2, <3>3
  <2>4. (low + r) % b = i
    BY <1>1, ShiftBack
  <2> QED BY <2>1, <2>2, <2>3, <2>4 DEF WindowIn
<1> QED BY <1>6, <1>7 DEF GroupIn

\* There are as many windows as the table has groups.
LEMMA ProbeCount ==
  ASSUME SoundVariants, build \in Builds, NEW m \in Nat \ {0}
  PROVE  ProbesIn(Width * m) = 0..m - 1
<1>1. Width \in Nat \ {0}
  BY ByteFacts
<1>2. (Width * m) \div Width = m
  BY <1>1
<1>3. CASE m = 1
  BY <1>1, <1>3 DEF ProbesIn
<1>4. CASE m > 1
  <2>1. Width * m > Width
    BY <1>1, <1>4
  <2> QED BY <1>2, <2>1 DEF ProbesIn
<1> QED BY <1>3, <1>4

\* Both strides come to every group of the table, and to none twice.
LEMMA StridesReachAll ==
  ASSUME SoundVariants, build \in Builds, NEW j \in Nat, NEW hash \in Hashes
  PROVE  /\ \A x, y \in 0..2 ^ j - 1 :
              Stride(hash, x) % 2 ^ j = Stride(hash, y) % 2 ^ j => x = y
         /\ \A v \in 0..2 ^ j - 1 : \E x \in 0..2 ^ j - 1 : Stride(hash, x) % 2 ^ j = v
<1>1. Tag(hash) \in Nat
  BY ByteFacts
<1>2. CASE build.probing = "triangular"
  <2>1. \A x : Stride(hash, x) = Triangle(x)
    BY <1>2 DEF Stride
  <2> QED BY <2>1, TriangleStride
<1>3. CASE build.probing # "triangular"
  <2> DEFINE odd(x) == x * (2 * Tag(hash) + 1)
  <2>1. \A x : Stride(hash, x) = odd(x)
    BY <1>3 DEF Stride
  <2>2. /\ \A x, y \in 0..2 ^ j - 1 : odd(x) % 2 ^ j = odd(y) % 2 ^ j => x = y
        /\ \A v \in 0..2 ^ j - 1 : \E x \in 0..2 ^ j - 1 : odd(x) % 2 ^ j = v
    BY <1>1, OddStride
  <2> HIDE DEF odd
  <2> QED BY <2>1, <2>2
<1> QED BY <1>2, <1>3

\* The group of a bucket is one of those there are.
LEMMA GroupType ==
  ASSUME SoundVariants, build \in Builds, NEW m \in Nat \ {0}, NEW hash \in Hashes, NEW i \in Int
  PROVE  GroupIn(Width * m, hash, i) \in 0..m - 1
<1> DEFINE b == Width * m
           r == (i - hash.low) % b
<1>1. Width \in Nat \ {0} /\ b \in Nat \ {0} /\ i - hash.low \in Int
  BY ByteFacts, StrideType
<1>2. r \in 0..b - 1
  <2> HIDE DEF b
  <2> QED BY <1>1, Modulo
<1>3. r \div Width \in 0..m - 1
  <2>1. r \in 0..(Width * m) - 1
    BY <1>2
  <2> HIDE DEF r, b
  <2>2. r \div Width \in Int /\ r = Width * (r \div Width) + (r % Width) /\ r % Width \in 0..Width - 1
    BY <1>1, <2>1, Quotient
  <2> DEFINE q == r \div Width
             e == r % Width
  <2>3. q \in Int /\ e \in 0..Width - 1 /\ Width * q + e \in 0..(Width * m) - 1
    BY <2>1, <2>2
  <2> HIDE DEF q, e
  <2>4. CASE q >= m
    <3>1. Width * q >= Width * m /\ Width * q \in Int /\ Width * m \in Int
      BY <1>1, <2>3, <2>4
    <3> QED BY <1>1, <2>3, <3>1
  <2>5. CASE q <= -1
    <3>1. Width * q <= -Width /\ Width * q \in Int
      BY <1>1, <2>3, <2>5
    <3> QED BY <1>1, <2>3, <3>1
  <2> QED BY <2>3, <2>4, <2>5 DEF q
<1> QED BY <1>3 DEF GroupIn

\* A window as large as the table shows all of it.
LEMMA WindowShowsSmall ==
  ASSUME SoundVariants, build \in Builds, NEW b \in Nat \ {0}, b < Width,
         NEW hash \in Hashes, NEW n \in Nat
  PROVE  WindowIn(b, hash, n) = 0..b - 1
<1> DEFINE p == PositionIn(b, hash, n)
<1>1. p \in 0..b - 1 /\ WindowIn(b, hash, n) \subseteq 0..b - 1
  BY PositionType
<1>2. Width \in Nat
  BY ByteFacts
<1>3. ASSUME NEW i \in 0..b - 1 PROVE i \in WindowIn(b, hash, n)
  <2> DEFINE k == (i - p) % b
  <2> HIDE DEF p
  <2>1. i - p \in Int /\ p \in Int
    BY <1>1
  <2>2. k \in 0..b - 1
    <3> DEFINE x == i - p
    <3> HIDE DEF x
    <3>1. x % b \in 0..b - 1
      BY <2>1, Modulo DEF x
    <3> QED BY <3>1 DEF x
  <2>3. (p + k) % b = i
    BY <2>1, ShiftBack
  <2>4. k \in Offsets
    <3> HIDE DEF k
    <3> QED BY <1>2, <2>2 DEF Offsets
  <2> QED BY <2>3, <2>4 DEF WindowIn, p
<1> QED BY <1>1, <1>3

\* Every bucket is in a window of every probe.
LEMMA WindowsCover ==
  ASSUME SoundVariants, build \in Builds, NEW b \in BucketCounts, NEW hash \in Hashes,
         NEW i \in 0..b - 1
  PROVE  \E n \in ProbesIn(b) : i \in WindowIn(b, hash, n)
<1>1. Width \in {4, 8, 16} /\ b \in Nat \ {0}
  BY ByteFacts, SizeFacts
<1>2. CASE b < Width
  <2>1. 0 \in ProbesIn(b)
    BY <1>1, <1>2 DEF ProbesIn
  <2> QED BY <1>1, <1>2, <2>1, WindowShowsSmall
<1>3. CASE b >= Width
  <2>1. PICK j \in Nat : b = Width * 2 ^ j
    BY <1>1, <1>3, SizeFacts
  <2> DEFINE m == 2 ^ j
  <2>2. m \in Nat \ {0}
    BY PowerType
  <2>3. GroupIn(b, hash, i) \in 0..m - 1
    BY <2>1, <2>2, GroupType
  <2>4. PICK n \in 0..m - 1 : Stride(hash, n) % m = GroupIn(b, hash, i)
    BY <2>3, StridesReachAll
  <2>5. n \in ProbesIn(b) /\ n \in Nat
    BY <2>1, <2>2, ProbeCount
  <2>6. i \in WindowIn(b, hash, n)
    BY <1>1, <2>1, <2>2, <2>4, <2>5, WindowIsGroup
  <2> QED BY <2>5, <2>6
<1> QED BY <1>1, <1>2, <1>3

\* No bucket is in two windows of a probe.
LEMMA WindowsDisjoint ==
  ASSUME SoundVariants, build \in Builds, NEW b \in BucketCounts, NEW hash \in Hashes,
         NEW n \in ProbesIn(b), NEW m \in ProbesIn(b), NEW i \in 0..b - 1,
         i \in WindowIn(b, hash, n), i \in WindowIn(b, hash, m)
  PROVE  n = m
<1>1. Width \in {4, 8, 16} /\ b \in Nat \ {0}
  BY ByteFacts, SizeFacts
<1>2. CASE b < Width
  BY <1>1, <1>2 DEF ProbesIn
<1>3. CASE b >= Width
  <2>1. PICK j \in Nat : b = Width * 2 ^ j
    BY <1>1, <1>3, SizeFacts
  <2>2. 2 ^ j \in Nat \ {0}
    BY PowerType
  <2>3. n \in 0..2 ^ j - 1 /\ m \in 0..2 ^ j - 1
    BY <2>1, <2>2, ProbeCount
  <2>4. Stride(hash, n) % 2 ^ j = Stride(hash, m) % 2 ^ j
    <3>1. n \in Nat /\ m \in Nat
      BY <2>2, <2>3
    <3>2. GroupIn(b, hash, i) = Stride(hash, n) % 2 ^ j
      BY <1>1, <2>1, <2>2, <3>1, WindowIsGroup
    <3>3. GroupIn(b, hash, i) = Stride(hash, m) % 2 ^ j
      BY <1>1, <2>1, <2>2, <3>1, WindowIsGroup
    <3> QED BY <3>2, <3>3
  <2> QED BY <2>3, <2>4, StridesReachAll
<1> QED BY <1>1, <1>2, <1>3

\* What is_in_same_group compares: buckets of one group are in the same windows.
LEMMA SameGroup ==
  ASSUME SoundVariants, build \in Builds, NEW t, t.buckets \in BucketCounts,
         NEW hash \in Hashes, NEW n \in Nat, NEW i \in Indices(t), NEW j \in Indices(t),
         InSameGroup(t, i, j, hash), i \in WindowIn(t.buckets, hash, n)
  PROVE  j \in WindowIn(t.buckets, hash, n)
<1> DEFINE b == t.buckets
<1>1. Width \in {4, 8, 16} /\ b \in Nat \ {0} /\ hash.low \in Nat
  BY ByteFacts, SizeFacts, StrideType
<1>2. i \in 0..b - 1 /\ j \in 0..b - 1
  BY DEF Indices
<1>3. CASE b < Width
  BY <1>1, <1>2, <1>3, WindowShowsSmall
<1>4. CASE b >= Width
  <2>1. PICK k \in Nat : b = Width * 2 ^ k
    BY <1>1, <1>4, SizeFacts
  <2>2. 2 ^ k \in Nat \ {0}
    BY PowerType
  <2>3. Position(t, hash, 0) = hash.low % b
    <3>1. 0 \in Nat
      OBVIOUS
    <3>2. Stride(hash, 0) = 0 /\ Position(t, hash, 0) = PositionIn(b, hash, 0)
      BY <3>1, StrideType, PositionIs
    <3> QED BY <1>1, <3>2 DEF PositionIn
  <2>4. ASSUME NEW x \in 0..b - 1
        PROVE  (x - Position(t, hash, 0)) % b = (x - hash.low) % b
    <3>1. x \in Int /\ hash.low \in Int
      BY <1>1
    <3>2. (x - (hash.low % b)) % b = (x - hash.low) % b
      BY <1>1, <3>1, ModuloDifference
    <3> QED BY <2>3, <3>2
  <2>5. GroupIn(b, hash, i) = GroupIn(b, hash, j)
    BY <1>2, <2>4 DEF InSameGroup, GroupIn
  <2> QED BY <1>1, <1>2, <2>1, <2>2, <2>5, WindowIsGroup
<1> QED BY <1>1, <1>3, <1>4

------------------------------------------------------------------------------
(* The bytes of a table *)

\* The bytes past the last bucket are as MirrorAgrees says.
Mirrored(b, ctrl) ==
  \A c \in b..b + Width - 1 :
    ctrl[c] = IF b >= Width THEN ctrl[c - b]
              ELSE IF c < Width THEN EMPTY ELSE ctrl[c - Width]

Record(t) == t = [buckets |-> t.buckets, ctrl |-> t.ctrl, slot |-> t.slot,
                  items |-> t.items, growthLeft |-> t.growthLeft]

Shaped(t) ==
  /\ Record(t)
  /\ t.buckets \in BucketCounts
  /\ t.ctrl \in [0..t.buckets + Width - 1 -> Bytes]
  /\ t.slot \in [0..t.buckets - 1 -> Hashes \cup {None}]
  /\ Mirrored(t.buckets, t.ctrl)

\* What is read at any place of a window: the byte of a bucket or, in a small table,
\* an EMPTY byte between the buckets and their repetition.
LEMMA ByteShown ==
  ASSUME SoundVariants, build \in Builds, NEW t, Shaped(t),
         NEW p \in 0..t.buckets - 1, NEW k \in Offsets
  PROVE  /\ t.buckets \in Nat \ {0}
         /\ (p + k) % t.buckets \in 0..t.buckets - 1
         /\ \/ t.ctrl[p + k] = t.ctrl[(p + k) % t.buckets]
            \/ (t.buckets < Width /\ t.ctrl[p + k] = EMPTY)
         /\ t.buckets <= p + k /\ p + k < Width => t.ctrl[p + k] = EMPTY
         /\ t.buckets < Width /\ Width <= p + k =>
              /\ t.ctrl[p + k] = t.ctrl[p + k - Width]
              /\ p + k - Width \in 0..p - 1 /\ (p + k) % t.buckets = p + k - Width
         /\ p + k < t.buckets => (p + k) % t.buckets = p + k
<1> DEFINE b == t.buckets
           c == p + k
<1>1. Width \in {4, 8, 16} /\ b \in Nat \ {0} /\ (b < Width => b \in {1, 4, 8} /\ Width % b = 0)
  BY ByteFacts, SizeFacts DEF Shaped
<1>2. k \in 0..Width - 1 /\ c \in Nat /\ c \in 0..b + Width - 2
  BY <1>1 DEF Offsets
<1>3. c % b \in 0..b - 1 /\ (c < b => c % b = c)
  <2>1. c \in Int /\ b \in Nat \ {0} /\ (c < b => c \in 0..b - 1)
    BY <1>1, <1>2
  <2> HIDE DEF c, b
  <2> QED BY <2>1, Modulo
<1>4. c >= b => t.ctrl[c] = IF b >= Width THEN t.ctrl[c - b]
                            ELSE IF c < Width THEN EMPTY ELSE t.ctrl[c - Width]
  <2>1. Mirrored(b, t.ctrl)
    BY DEF Shaped
  <2>2. c >= b => c \in b..b + Width - 1
    BY <1>1, <1>2
  <2> HIDE DEF b, c
  <2> QED BY <2>1, <2>2 DEF Mirrored
<1>5. ASSUME b >= Width, c >= b PROVE c % b = c - b
  <2>1. c - b \in 0..b - 1 /\ c = b * 1 + (c - b)
    BY <1>1, <1>2, <1>5
  <2> HIDE DEF c, b
  <2>2. (b * 1 + (c - b)) % b = c - b
    BY <1>1, <2>1, Remainder
  <2> QED BY <2>1, <2>2
<1>6. ASSUME b < Width, c >= Width PROVE c - Width \in 0..p - 1 /\ c % b = c - Width
  <2>1. c - Width \in 0..b - 1 /\ c - Width \in 0..p - 1
    BY <1>1, <1>2, <1>6
  <2>2. PICK q \in Int : Width = b * q
    <3>1. Width = b * (Width \div b) + (Width % b) /\ Width \div b \in Int
      <4>1. Width \in Int /\ b \in Nat \ {0}
        BY <1>1
      <4> HIDE DEF b
      <4> QED BY <4>1, Quotient
    <3> QED BY <1>1, <1>6, <3>1
  <2>3. c = b * q + (c - Width)
    BY <1>1, <1>2, <2>2
  <2>4. (b * q + (c - Width)) % b = c - Width
    <3> HIDE DEF c, b
    <3> QED BY <1>1, <2>1, Remainder
  <2> QED BY <2>1, <2>3, <2>4
<1>7. ASSUME b < Width, c >= b
      PROVE  t.ctrl[c] = IF c < Width THEN EMPTY ELSE t.ctrl[c - Width]
  BY <1>1, <1>4, <1>7
<1>8. b <= c /\ c < Width => t.ctrl[c] = EMPTY
  BY <1>1, <1>2, <1>7
<1>9. b < Width /\ Width <= c =>
        t.ctrl[c] = t.ctrl[c - Width] /\ c - Width \in 0..p - 1 /\ c % b = c - Width
  <2>1. Width <= c => c >= Width /\ ~(c < Width)
    BY <1>1, <1>2
  <2>2. b < Width /\ Width <= c => c >= b
    BY <1>1, <1>2
  <2> QED BY <1>6, <1>7, <2>1, <2>2
<1>10. t.ctrl[c] = t.ctrl[c % b] \/ (b < Width /\ t.ctrl[c] = EMPTY)
  <2>1. CASE c < b
    BY <1>3, <2>1
  <2>2. CASE b >= Width /\ c >= b
    BY <1>4, <1>5, <2>2
  <2>3. CASE b < Width /\ b <= c /\ c < Width
    BY <1>8, <2>3
  <2>4. CASE b < Width /\ Width <= c
    BY <1>9, <2>4
  <2> QED BY <1>1, <1>2, <2>1, <2>2, <2>3, <2>4
<1>11. b \in Nat \ {0}
  BY <1>1
<1>12. p \in Int /\ k \in Int /\ Width \in Int
  BY <1>1, <1>2
<1> QED BY <1>3, <1>8, <1>9, <1>10, <1>11, <1>12

\* What a window shows of a table: every bucket in it, with its byte; it is without an
\* EMPTY or a special byte only if it is no larger than the table.
LEMMA WindowShows ==
  ASSUME SoundVariants, build \in Builds, NEW t, Shaped(t), NEW hash \in Hashes, NEW n \in Nat
  PROVE  LET pos == Position(t, hash, n)
             window == WindowIn(t.buckets, hash, n)
         IN /\ pos \in 0..t.buckets - 1 /\ window \subseteq 0..t.buckets - 1
            /\ \A i \in window : \E k \in Offsets :
                 (pos + k) % t.buckets = i /\ t.ctrl[pos + k] = t.ctrl[i]
            /\ EmptyAt(t, pos) = {} <=>
                 t.buckets >= Width /\ \A i \in window : t.ctrl[i] # EMPTY
            /\ SpecialAt(t, pos) = {} <=>
                 t.buckets >= Width /\ \A i \in window : IsFull(t.ctrl[i])
<1> DEFINE b == t.buckets
           pos == Position(t, hash, n)
           window == WindowIn(b, hash, n)
<1>1. b \in Nat \ {0} /\ Width \in {4, 8, 16} /\ EMPTY = 255 /\ ~IsFull(EMPTY)
  <2>1. b \in Nat \ {0} /\ Width \in {4, 8, 16} /\ EMPTY = 255
    BY ByteFacts, SizeFacts DEF Shaped
  <2>2. 255 \in Bytes /\ 255 \notin 0..127
    BY DEF Bytes
  <2>3. ~IsFull(255)
    BY <2>2, ByteFacts
  <2> QED BY <2>1, <2>3
<1>2. pos = PositionIn(b, hash, n)
  BY PositionIs
<1>3. pos \in 0..b - 1 /\ window \subseteq 0..b - 1
  BY <1>1, <1>2, PositionType
<1> HIDE DEF pos, b
<1>4. window = {(pos + k) % b : k \in Offsets}
  BY <1>2 DEF WindowIn
<1> HIDE DEF window
<1>5. ASSUME NEW i \in window PROVE \E k \in Offsets : (pos + k) % b = i /\ t.ctrl[pos + k] = t.ctrl[i]
  <2>1. PICK k \in Offsets : i = (pos + k) % b
    BY <1>4
  <2>2. i \in 0..b - 1
    BY <1>3
  <2>3. CASE b >= Width
    <3>1. t.ctrl[pos + k] = t.ctrl[(pos + k) % b]
      BY <1>1, <1>3, <2>3, ByteShown DEF b
    <3> QED BY <2>1, <3>1
  <2>4. CASE b < Width
    <3>1. CASE i >= pos
      <4>1. i - pos \in Offsets /\ pos + (i - pos) = i
        BY <1>1, <1>3, <2>2, <2>4, <3>1 DEF Offsets
      <4>2. i % b = i
        <5>1. i \in Int /\ b \in Nat \ {0} /\ i \in 0..b - 1
          BY <1>1, <2>2
        <5> QED BY <5>1, Modulo
      <4> QED BY <4>1, <4>2
    <3>2. CASE i < pos
      <4> DEFINE kk == Width + i - pos
      <4>1. /\ Width \in Nat /\ b \in Nat /\ pos \in 0..b - 1 /\ i \in 0..b - 1
            /\ b < Width /\ i < pos
        BY <1>1, <1>3, <2>2, <2>4, <3>2
      <4>2. kk \in Offsets /\ Width <= pos + kk /\ pos + kk - Width = i
        BY <4>1 DEF Offsets
      <4> HIDE DEF kk
      <4>3. t.ctrl[pos + kk] = t.ctrl[pos + kk - Width]
        BY <1>3, <2>4, <4>2, ByteShown DEF b
      <4>4. (pos + kk) % b = pos + kk - Width
        BY <1>3, <2>4, <4>2, ByteShown DEF b
      <4> QED BY <4>2, <4>3, <4>4
    <3> QED BY <1>1, <1>3, <2>2, <3>1, <3>2
  <2> QED BY <1>1, <2>3, <2>4
<1>6. ASSUME b < Width PROVE \E k \in Offsets : t.ctrl[pos + k] = EMPTY
  <2> DEFINE k == Width - 1 - pos
  <2>1. k \in Offsets /\ b <= pos + k /\ pos + k < Width
    BY <1>1, <1>3, <1>6 DEF Offsets
  <2> HIDE DEF k
  <2>2. t.ctrl[pos + k] = EMPTY
    BY <1>3, <2>1, ByteShown DEF b
  <2> QED BY <2>1, <2>2
<1>7. \A k \in Offsets : /\ (pos + k) % b \in window
                         /\ \/ t.ctrl[pos + k] = t.ctrl[(pos + k) % b]
                            \/ (b < Width /\ t.ctrl[pos + k] = EMPTY)
  BY <1>3, <1>4, ByteShown DEF b
<1>8. b >= Width => ~(b < Width)
  BY <1>1
<1>9. b >= Width \/ b < Width
  BY <1>1
<1>10. EmptyAt(t, pos) = {} <=> b >= Width /\ \A i \in window : t.ctrl[i] # EMPTY
  BY <1>5, <1>6, <1>7, <1>8, <1>9 DEF EmptyAt
<1>11. SpecialAt(t, pos) = {} <=> b >= Width /\ \A i \in window : IsFull(t.ctrl[i])
  BY <1>1, <1>5, <1>6, <1>7, <1>8, <1>9 DEF SpecialAt
<1> QED BY <1>3, <1>5, <1>10, <1>11 DEF b, pos, window

\* The buckets in it whose byte is a tag.
LEMMA WindowMatches ==
  ASSUME SoundVariants, build \in Builds, NEW t, Shaped(t), NEW hash \in Hashes, NEW n \in Nat,
         NEW tag \in 0..127, NEW i \in 0..t.buckets - 1
  PROVE  i \in MatchesAt(t, Position(t, hash, n), tag)
           <=> i \in WindowIn(t.buckets, hash, n) /\ t.ctrl[i] = tag
<1> DEFINE b == t.buckets
           pos == Position(t, hash, n)
<1>1. pos = PositionIn(b, hash, n)
  BY PositionIs
<1>2. pos \in 0..b - 1
  BY WindowShows
<1>3. i \in WindowIn(b, hash, n) => \E k \in Offsets : (pos + k) % b = i /\ t.ctrl[pos + k] = t.ctrl[i]
  BY WindowShows
<1> HIDE DEF pos, b
<1>4. MatchesAt(t, pos, tag) = {(pos + k) % b : k \in {k \in Offsets : t.ctrl[pos + k] = tag}}
  BY DEF MatchesAt, b
<1>5. tag # EMPTY
  BY ByteFacts
<1>6. ASSUME NEW k \in Offsets, t.ctrl[pos + k] = tag, i = (pos + k) % b
      PROVE  i \in WindowIn(b, hash, n) /\ t.ctrl[i] = tag
  <2>1. t.ctrl[pos + k] = t.ctrl[(pos + k) % b] \/ (b < Width /\ t.ctrl[pos + k] = EMPTY)
    BY <1>2, ByteShown DEF b
  <2> QED BY <1>1, <1>5, <1>6, <2>1 DEF WindowIn
<1> QED BY <1>3, <1>4, <1>6 DEF b, pos

------------------------------------------------------------------------------
(* Changes of the bytes *)

\* Where set_ctrl repeats a byte.
LEMMA MirrorPlace ==
  ASSUME SoundVariants, build \in Builds, NEW t, t.buckets \in BucketCounts, NEW i \in Indices(t)
  PROVE  MirrorOf(t, i) = IF t.buckets >= Width THEN IF i < Width THEN i + t.buckets ELSE i
                                                ELSE i + Width
<1> DEFINE b == t.buckets
<1>1. Width \in {4, 8, 16} /\ b \in Nat \ {0} /\ (b < Width => b \in {1, 4, 8} /\ Width % b = 0)
  <2>1. Width \in {4, 8, 16}
    BY ByteFacts
  <2> HIDE DEF b
  <2> QED BY <2>1, SizeFacts DEF b
<1>2. i \in 0..b - 1 /\ i - Width \in Int
  BY <1>1 DEF Indices
<1>3. CASE b >= Width /\ i < Width
  <2>1. i - Width \in -b..-1
    BY <1>1, <1>2, <1>3
  <2>2. (i - Width) % b = i - Width + b
    <3> DEFINE x == i - Width
    <3> HIDE DEF x, b
    <3>1. x \in Int /\ x \in -b..-1
      BY <1>2, <2>1 DEF x
    <3>2. x % b = x + b
      BY <1>1, <3>1, Modulo
    <3> QED BY <3>2 DEF x
  <2> QED BY <1>1, <1>2, <1>3, <2>2 DEF MirrorOf
<1>4. CASE b >= Width /\ i >= Width
  <2>1. i - Width \in 0..b - 1
    BY <1>1, <1>2, <1>4
  <2>2. (i - Width) % b = i - Width
    BY <1>1, <1>2, <2>1, Modulo
  <2> QED BY <1>1, <1>2, <1>4, <2>2 DEF MirrorOf
<1>5. CASE b < Width
  <2>1. PICK q \in Int : Width = b * q
    <3>1. Width = b * (Width \div b) + (Width % b) /\ Width \div b \in Int
      <4>1. Width \in Int /\ b \in Nat \ {0}
        BY <1>1
      <4> HIDE DEF b
      <4> QED BY <4>1, Quotient
    <3> QED BY <1>1, <1>5, <3>1
  <2>2. i - Width = b * (-q) + i /\ -q \in Int
    BY <1>1, <1>2, <2>1
  <2>3. (b * (-q) + i) % b = i
    <3> DEFINE r == -q
    <3> HIDE DEF r, b
    <3>1. (b * r + i) % b = i
      BY <1>1, <1>2, <2>2, Remainder DEF r
    <3> QED BY <3>1 DEF r
  <2>4. (i - Width) % b = i
    BY <2>2, <2>3
  <2> QED BY <1>1, <1>2, <1>5, <2>4 DEF MirrorOf
<1> QED BY <1>1, <1>2, <1>3, <1>4, <1>5

\* set_ctrl changes the byte of one bucket and keeps the repetition right.
LEMMA SetCtrlIs ==
  ASSUME SoundVariants, build \in Builds, NEW t, Shaped(t), NEW i \in Indices(t), NEW byte \in Bytes
  PROVE  LET u == SetCtrl(t, i, byte)
         IN /\ Shaped(u) /\ u.buckets = t.buckets /\ u.slot = t.slot
            /\ u.items = t.items /\ u.growthLeft = t.growthLeft
            /\ \A j \in Indices(t) : u.ctrl[j] = IF j = i THEN byte ELSE t.ctrl[j]
<1> DEFINE b == t.buckets
           m == MirrorOf(t, i)
           c == [[t.ctrl EXCEPT ![i] = byte] EXCEPT ![m] = byte]
           u == SetCtrl(t, i, byte)
           D == 0..b + Width - 1
<1>1. Width \in {4, 8, 16} /\ b \in Nat \ {0} /\ t.buckets \in BucketCounts
  BY ByteFacts, SizeFacts DEF Shaped
<1>2. m = IF b >= Width THEN IF i < Width THEN i + b ELSE i ELSE i + Width
  BY <1>1, MirrorPlace
<1>3. i \in 0..b - 1 /\ i \in D /\ m \in D /\ (m \in 0..b - 1 => m = i)
  BY <1>1, <1>2 DEF Indices
<1> HIDE DEF m
<1>4. t.ctrl \in [D -> Bytes]
  BY DEF Shaped
<1>5. c \in [D -> Bytes] /\ \A d \in D : c[d] = IF d = i \/ d = m THEN byte ELSE t.ctrl[d]
  BY <1>3, <1>4
<1>6. u = [buckets |-> t.buckets, ctrl |-> c, slot |-> t.slot,
           items |-> t.items, growthLeft |-> t.growthLeft]
  <2>1. Record(t) /\ t.ctrl \in [D -> Bytes]
    BY DEF Shaped
  <2>2. u = [t EXCEPT !.ctrl = c]
    BY <2>1 DEF SetCtrl, Record, m
  <2> HIDE DEF c, u
  <2> QED BY <2>1, <2>2 DEF Record
<1>7. Mirrored(b, c)
  <2> SUFFICES ASSUME NEW d \in b..b + Width - 1
               PROVE  c[d] = IF b >= Width THEN c[d - b]
                             ELSE IF d < Width THEN EMPTY ELSE c[d - Width]
    BY DEF Mirrored
  <2>1. d \in D /\ d # i /\ d \in Int
    BY <1>1, <1>3
  <2>2. t.ctrl[d] = IF b >= Width THEN t.ctrl[d - b]
                    ELSE IF d < Width THEN EMPTY ELSE t.ctrl[d - Width]
    BY DEF Shaped, Mirrored
  <2>3. CASE b >= Width
    <3>1. d - b \in D /\ (d = m <=> (d - b = i \/ d - b = m))
      BY <1>1, <1>2, <1>3, <2>1, <2>3
    <3> HIDE DEF c
    <3> QED BY <1>5, <2>1, <2>2, <2>3, <3>1
  <2>4. CASE b < Width /\ d < Width
    <3>1. d # m
      BY <1>1, <1>2, <1>3, <2>1, <2>4
    <3>2. ~(b >= Width)
      BY <1>1, <2>4
    <3> HIDE DEF c
    <3> QED BY <1>5, <2>1, <2>2, <2>4, <3>1, <3>2
  <2>5. CASE b < Width /\ d >= Width
    <3>1. d - Width \in D /\ (d = m <=> (d - Width = i \/ d - Width = m))
      BY <1>1, <1>2, <1>3, <2>1, <2>5
    <3>2. ~(b >= Width) /\ ~(d < Width)
      BY <1>1, <2>1, <2>5
    <3> HIDE DEF c
    <3> QED BY <1>5, <2>1, <2>2, <3>1, <3>2
  <2> QED BY <1>1, <2>1, <2>3, <2>4, <2>5
<1>8. Shaped(u)
  <2>1. t.slot \in [0..t.buckets - 1 -> Hashes \cup {None}]
    BY DEF Shaped
  <2> HIDE DEF c, u
  <2> QED BY <1>1, <1>5, <1>6, <1>7, <2>1 DEF Shaped, Record
<1>9. ASSUME NEW j \in Indices(t) PROVE u.ctrl[j] = IF j = i THEN byte ELSE t.ctrl[j]
  <2>1. j \in D /\ (j = m => j = i)
    BY <1>1, <1>3 DEF Indices
  <2> HIDE DEF c, u, D
  <2> QED BY <1>5, <1>6, <2>1
<1> QED BY <1>6, <1>8, <1>9

\* All bytes at once.
LEMMA WithBytesIs ==
  ASSUME SoundVariants, build \in Builds, NEW t, Record(t), t.buckets \in BucketCounts,
         t.ctrl \in [0..t.buckets + Width - 1 -> Bytes],
         t.slot \in [0..t.buckets - 1 -> Hashes \cup {None}],
         \A c \in t.buckets..Width - 1 : t.ctrl[c] = EMPTY,
         NEW bytes \in [Indices(t) -> Bytes]
  PROVE  LET u == WithBytes(t, bytes)
         IN /\ Shaped(u) /\ u.buckets = t.buckets /\ u.slot = t.slot
            /\ u.items = t.items /\ u.growthLeft = t.growthLeft
            /\ \A j \in Indices(t) : u.ctrl[j] = bytes[j]
<1> DEFINE b == t.buckets
           D == 0..b + Width - 1
           shown(c) == {i \in Indices(t) : c \in {i, MirrorOf(t, i)}}
           byte(c) == IF shown(c) = {} THEN t.ctrl[c] ELSE bytes[Min(shown(c))]
           f == [c \in D |-> byte(c)]
           u == WithBytes(t, bytes)
<1>1. Width \in {4, 8, 16} /\ b \in Nat \ {0}
  BY ByteFacts, SizeFacts
<1>2. DOMAIN t.ctrl = D
  OBVIOUS
<1>3. u = [buckets |-> t.buckets, ctrl |-> f, slot |-> t.slot,
           items |-> t.items, growthLeft |-> t.growthLeft]
  <2>1. u = [t EXCEPT !.ctrl = f]
    BY <1>2, Zenon DEF WithBytes
  <2> HIDE DEF f, u
  <2> QED BY <2>1 DEF Record
<1>4. \A i \in Indices(t) :
        MirrorOf(t, i) = IF b >= Width THEN IF i < Width THEN i + b ELSE i ELSE i + Width
  BY MirrorPlace
<1>5. ASSUME NEW c \in D, NEW x \in Indices(t), shown(c) = {x} PROVE f[c] = bytes[x]
  <2>1. Min({x}) = x
    <3>1. x \in Int
      BY <1>1 DEF Indices
    <3> QED BY <3>1 DEF Min
  <2> HIDE DEF shown
  <2> QED BY <1>5, <2>1
<1>6. ASSUME NEW c \in Indices(t) PROVE c \in D /\ f[c] = bytes[c]
  <2>1. c \in D
    BY <1>1 DEF Indices
  <2>2. \A i \in Indices(t) : c = MirrorOf(t, i) => c = i
    BY <1>1, <1>4 DEF Indices
  <2>3. shown(c) = {c}
    BY <2>2
  <2> HIDE DEF f, shown
  <2> QED BY <1>5, <2>1, <2>3
<1>7. f \in [D -> Bytes]
  <2> SUFFICES ASSUME NEW c \in D PROVE byte(c) \in Bytes
    OBVIOUS
  <2>1. CASE shown(c) = {}
    BY <2>1
  <2>2. CASE shown(c) # {}
    <3>1. PICK x \in shown(c) : TRUE
      BY <2>2
    <3>2. x \in Nat /\ shown(c) \subseteq Nat
      BY <1>1 DEF Indices
    <3>3. \E y \in shown(c) : \A z \in shown(c) : y <= z
      <4> HIDE DEF shown
      <4> QED BY <2>2, <3>2, LeastElement
    <3>4. Min(shown(c)) \in shown(c)
      <4> HIDE DEF shown
      <4> QED BY <3>3 DEF Min
    <3> QED BY <2>2, <3>4
  <2> QED BY <2>1, <2>2
<1>8. Mirrored(b, f)
  <2> SUFFICES ASSUME NEW c \in b..b + Width - 1
               PROVE  f[c] = IF b >= Width THEN f[c - b]
                             ELSE IF c < Width THEN EMPTY ELSE f[c - Width]
    BY DEF Mirrored
  <2>1. c \in D /\ c \in Int
    BY <1>1
  <2>2. CASE b >= Width
    <3>1. c - b \in Indices(t) /\ \A i \in Indices(t) : c \in {i, MirrorOf(t, i)} <=> i = c - b
      BY <1>1, <1>4, <2>1, <2>2 DEF Indices
    <3>2. shown(c) = {c - b}
      BY <3>1
    <3> HIDE DEF f, shown
    <3> QED BY <1>5, <1>6, <2>1, <2>2, <3>1, <3>2
  <2>3. CASE b < Width /\ c < Width
    <3>1. \A i \in Indices(t) : c \notin {i, MirrorOf(t, i)}
      BY <1>1, <1>4, <2>1, <2>3 DEF Indices
    <3>2. shown(c) = {}
      BY <3>1
    <3>3. f[c] = t.ctrl[c]
      BY <2>1, <3>2
    <3>4. c \in b..Width - 1 /\ ~(b >= Width)
      BY <1>1, <2>1, <2>3
    <3> HIDE DEF f, shown
    <3> QED BY <2>3, <3>3, <3>4
  <2>4. CASE b < Width /\ c >= Width
    <3>1. c - Width \in Indices(t) /\ \A i \in Indices(t) : c \in {i, MirrorOf(t, i)} <=> i = c - Width
      BY <1>1, <1>4, <2>1, <2>4 DEF Indices
    <3>2. shown(c) = {c - Width} /\ ~(b >= Width) /\ ~(c < Width)
      BY <1>1, <2>1, <2>4, <3>1
    <3> HIDE DEF f, shown
    <3> QED BY <1>5, <1>6, <2>1, <2>4, <3>1, <3>2
  <2> QED BY <1>1, <2>1, <2>2, <2>3, <2>4
<1>9. Shaped(u)
  <2> HIDE DEF f, u
  <2> QED BY <1>1, <1>3, <1>7, <1>8 DEF Shaped, Record
<1>10. \A j \in Indices(t) : u.ctrl[j] = bytes[j]
  <2> HIDE DEF f, u
  <2> QED BY <1>3, <1>6
<1> HIDE DEF f, u
<1> QED BY <1>3, <1>9, <1>10 DEF u

\* A new table.
LEMMA EmptyTableIs ==
  ASSUME SoundVariants, build \in Builds, NEW b \in BucketCounts
  PROVE  LET u == EmptyTable(b)
         IN /\ Shaped(u) /\ u.buckets = b /\ u.items = 0
            /\ u.growthLeft = BucketMaskToCapacity(b)
            /\ \A j \in 0..b - 1 : u.ctrl[j] = EMPTY /\ u.slot[j] = None
<1> DEFINE u == EmptyTable(b)
           f == [c \in 0..b + Width - 1 |-> EMPTY]
           g == [i \in 0..b - 1 |-> None]
<1>1. Width \in {4, 8, 16} /\ b \in Nat \ {0} /\ EMPTY \in Bytes
  BY ByteFacts, SizeFacts DEF Bytes
<1>2. u = [buckets |-> b, ctrl |-> f, slot |-> g, items |-> 0,
           growthLeft |-> BucketMaskToCapacity(b)]
  BY DEF EmptyTable
<1>3. Mirrored(b, f)
  <2> SUFFICES ASSUME NEW c \in b..b + Width - 1
               PROVE  f[c] = IF b >= Width THEN f[c - b]
                             ELSE IF c < Width THEN EMPTY ELSE f[c - Width]
    BY DEF Mirrored
  <2>1. c \in 0..b + Width - 1
    BY <1>1
  <2>2. b >= Width => c - b \in 0..b + Width - 1
    BY <1>1
  <2>3. ~(b >= Width) /\ ~(c < Width) => c - Width \in 0..b + Width - 1
    BY <1>1
  <2> QED BY <2>1, <2>2, <2>3
<1>4. f \in [0..b + Width - 1 -> Bytes] /\ g \in [0..b - 1 -> Hashes \cup {None}]
  BY <1>1
<1>5. Shaped(u)
  <2> HIDE DEF u, f, g
  <2> QED BY <1>2, <1>3, <1>4 DEF Shaped, Record
<1>6. \A j \in 0..b - 1 : f[j] = EMPTY /\ g[j] = None
  BY <1>1
<1> HIDE DEF u, f, g
<1> QED BY <1>2, <1>5, <1>6 DEF u

\* The number of buckets of a table, as the steps below use it.
LEMMA Sized ==
  ASSUME SoundVariants, build \in Builds, NEW t, t.buckets \in BucketCounts
  PROVE  /\ Width \in {4, 8, 16} /\ t.buckets \in Nat \ {0}
         /\ Indices(t) = 0..t.buckets - 1
         /\ BucketMaskToCapacity(t.buckets) \in 0..t.buckets - 1
<1>1. Width \in {4, 8, 16}
  BY ByteFacts
<1>2. Indices(t) = 0..t.buckets - 1
  BY DEF Indices
<1> QED BY <1>1, <1>2, SizeFacts

------------------------------------------------------------------------------
(* Searches *)

\* A search for the hash comes to bucket i before an EMPTY byte ends it, or even
\* before any byte to insert at.
Reached(t, i, hash) ==
  \E n \in ProbesIn(t.buckets) :
    /\ i \in WindowIn(t.buckets, hash, n)
    /\ \A m \in 0..n - 1 : \A j \in WindowIn(t.buckets, hash, m) : t.ctrl[j] # EMPTY
Nearest(t, i, hash) ==
  \E n \in ProbesIn(t.buckets) :
    /\ i \in WindowIn(t.buckets, hash, n)
    /\ \A m \in 0..n - 1 : \A j \in WindowIn(t.buckets, hash, m) : IsFull(t.ctrl[j])

\* Probes are numbered from 0; only a table of more than one window has several.
LEMMA ProbeFacts ==
  ASSUME SoundVariants, build \in Builds, NEW t, t.buckets \in BucketCounts
  PROVE  /\ Probes(t) = ProbesIn(t.buckets) /\ ProbesIn(t.buckets) \subseteq Nat
         /\ 0 \in ProbesIn(t.buckets)
         /\ \A n \in ProbesIn(t.buckets) :
              0..n - 1 \subseteq ProbesIn(t.buckets) /\ (t.buckets <= Width => n = 0)
<1> DEFINE b == t.buckets
<1>1. Width \in {4, 8, 16}
  BY ByteFacts
<1>2. b \in Nat \ {0}
  BY <1>1, SizeFacts
<1>3. b \div Width \in Nat /\ (b > Width => b \div Width > 0)
  BY <1>1, <1>2
<1>4. Probes(t) = ProbesIn(b)
  BY DEF Probes, ProbesIn
<1>5. ProbesIn(b) \subseteq Nat
  BY <1>1, <1>2, <1>3 DEF ProbesIn
<1>6. 0 \in ProbesIn(b)
  BY <1>1, <1>2, <1>3 DEF ProbesIn
<1>7. ASSUME NEW n \in ProbesIn(b) PROVE 0..n - 1 \subseteq ProbesIn(b) /\ (b <= Width => n = 0)
  <2>1. CASE b > Width
    <3>1. n \in 0..(b \div Width) - 1 /\ ProbesIn(b) = 0..(b \div Width) - 1
      BY <2>1 DEF ProbesIn
    <3> QED BY <1>1, <1>2, <1>3, <2>1, <3>1
  <2>2. CASE ~(b > Width)
    BY <2>2 DEF ProbesIn
  <2> QED BY <2>1, <2>2
<1> QED BY <1>4, <1>5, <1>6, <1>7

\* find_inner returns what is reached and has its own tag.
LEMMA ReachedIsFound ==
  ASSUME SoundVariants, build \in Builds, NEW t, Shaped(t), NEW i \in Indices(t),
         t.slot[i] \in Hashes, t.ctrl[i] = Tag(t.slot[i]), Reached(t, i, t.slot[i])
  PROVE  Finds(t, i)
<1> DEFINE hash == t.slot[i]
           b == t.buckets
<1>1. PICK n \in ProbesIn(b) :
        /\ i \in WindowIn(b, hash, n)
        /\ \A m \in 0..n - 1 : \A j \in WindowIn(b, hash, m) : t.ctrl[j] # EMPTY
  BY DEF Reached
<1>2. b \in BucketCounts
  BY DEF Shaped
<1>3. Probes(t) = ProbesIn(b) /\ n \in Nat /\ (b <= Width => n = 0)
  BY <1>2, ProbeFacts
<1>4. i \in 0..b - 1 /\ Tag(hash) \in 0..127
  BY ByteFacts DEF Indices
<1>5. i \in MatchesAt(t, Position(t, hash, n), Tag(hash))
  BY <1>1, <1>3, <1>4, WindowMatches
<1>6. ASSUME NEW m \in 0..n - 1 PROVE EmptyAt(t, Position(t, hash, m)) = {}
  <2>1. m \in Nat /\ n # 0
    BY <1>3
  <2>2. b >= Width
    <3>1. b \in Nat /\ Width \in Nat
      BY <1>2, Sized
    <3> QED BY <1>3, <2>1, <3>1
  <2> QED BY <1>1, <2>1, <2>2, WindowShows
<1> QED BY <1>3, <1>5, <1>6 DEF Finds

\* What is nearer than any byte to insert at is reached.
LEMMA NearestIsReached ==
  ASSUME SoundVariants, build \in Builds, NEW t, Shaped(t), NEW i, NEW hash, Nearest(t, i, hash)
  PROVE  Reached(t, i, hash)
<1>1. ~IsFull(EMPTY)
  BY ByteFacts DEF Bytes
<1> QED BY <1>1 DEF Nearest, Reached

\* A search ends when there is an EMPTY byte, and meets a byte to insert at when there
\* is a bucket that is not full.
LEMMA SearchMeets ==
  ASSUME SoundVariants, build \in Builds, NEW t, Shaped(t), NEW j \in Indices(t), NEW hash \in Hashes
  PROVE  /\ ~IsFull(t.ctrl[j]) => HasInsertSlot(t, hash)
         /\ t.ctrl[j] = EMPTY => \E n \in Probes(t) : EmptyAt(t, Position(t, hash, n)) # {}
<1>1. t.buckets \in BucketCounts /\ j \in 0..t.buckets - 1
  BY DEF Shaped, Indices
<1>2. PICK n \in ProbesIn(t.buckets) : j \in WindowIn(t.buckets, hash, n)
  BY <1>1, WindowsCover
<1>3. n \in Probes(t) /\ n \in Nat
  BY <1>1, ProbeFacts
<1>4. ~IsFull(t.ctrl[j]) => SpecialAt(t, Position(t, hash, n)) # {}
  BY <1>2, <1>3, WindowShows
<1>5. t.ctrl[j] = EMPTY => EmptyAt(t, Position(t, hash, n)) # {}
  <2>1. EmptyAt(t, Position(t, hash, n)) = {} <=>
          t.buckets >= Width /\ \A i \in WindowIn(t.buckets, hash, n) : t.ctrl[i] # EMPTY
    BY <1>3, WindowShows
  <2> QED BY <1>2, <2>1
<1> QED BY <1>3, <1>4, <1>5 DEF HasInsertSlot

\* find_insert_slot returns a bucket that is not full, in the first window of the probe
\* that has one.
LEMMA FindsSlot ==
  ASSUME SoundVariants, build \in Builds, NEW t, Shaped(t), NEW hash \in Hashes,
         NEW free \in Indices(t), ~IsFull(t.ctrl[free])
  PROVE  LET i == FindInsertSlot(t, hash)
         IN /\ i \in Indices(t) /\ ~IsFull(t.ctrl[i]) /\ Nearest(t, i, hash)
<1> DEFINE b == t.buckets
           S == {n \in Probes(t) : SpecialAt(t, Position(t, hash, n)) # {}}
           n == Min(S)
           pos == Position(t, hash, n)
           k == Min(SpecialAt(t, pos))
           x == (pos + k) % b
           i == FindInsertSlot(t, hash)
<1>1. b \in BucketCounts /\ free \in 0..b - 1 /\ Indices(t) = 0..b - 1
  BY DEF Shaped, Indices
<1>2. Width \in {4, 8, 16} /\ b \in Nat \ {0}
  BY <1>1, Sized
<1>3. Probes(t) = ProbesIn(b) /\ Probes(t) \subseteq Nat /\ 0 \in Probes(t)
      /\ \A m \in Probes(t) : 0..m - 1 \subseteq Probes(t) /\ (b <= Width => m = 0)
  BY <1>1, ProbeFacts
<1>4. S \subseteq Nat /\ S # {}
  <2>1. HasInsertSlot(t, hash)
    BY SearchMeets
  <2> QED BY <1>3, <2>1 DEF HasInsertSlot
<1>5. n \in S /\ \A m \in S : n <= m
  BY <1>4, MinIs
<1>6. i = FixInsertSlot(t, x)
  BY DEF FindInsertSlot
<1> HIDE DEF n
<1>7. n \in Probes(t) /\ n \in Nat /\ SpecialAt(t, pos) # {}
      /\ \A m \in 0..n - 1 : SpecialAt(t, Position(t, hash, m)) = {}
  <2>1. n \in Probes(t) /\ n \in Nat /\ SpecialAt(t, pos) # {}
    BY <1>3, <1>5
  <2>2. \A m \in 0..n - 1 : m \in Probes(t) /\ ~(n <= m)
    BY <1>3, <2>1
  <2> QED BY <1>5, <2>1, <2>2
<1> HIDE DEF S
<1>8. pos \in 0..b - 1 /\ WindowIn(b, hash, n) \subseteq 0..b - 1
  BY <1>7, WindowShows
<1>9. k \in SpecialAt(t, pos) /\ k \in Offsets
  <2>1. SpecialAt(t, pos) \subseteq Offsets /\ Offsets \subseteq Nat
    BY <1>2 DEF SpecialAt, Offsets
  <2> HIDE DEF pos
  <2> QED BY <1>7, <2>1, MinIs
<1> HIDE DEF k
<1>10. ~IsFull(t.ctrl[pos + k]) /\ x \in 0..b - 1 /\ x \in WindowIn(b, hash, n)
       /\ (t.ctrl[pos + k] = t.ctrl[x] \/ (b < Width /\ t.ctrl[pos + k] = EMPTY))
  <2>1. ~IsFull(t.ctrl[pos + k])
    BY <1>9 DEF SpecialAt
  <2>2. pos = PositionIn(b, hash, n)
    BY <1>7, PositionIs
  <2>3. x \in WindowIn(b, hash, n)
    BY <1>9, <2>2 DEF WindowIn
  <2> HIDE DEF pos
  <2>4. t.ctrl[pos + k] = t.ctrl[(pos + k) % t.buckets]
          \/ (t.buckets < Width /\ t.ctrl[pos + k] = EMPTY)
    BY <1>8, <1>9, ByteShown
  <2> QED BY <1>8, <2>1, <2>3, <2>4
<1>11. \A m \in 0..n - 1 : \A j \in WindowIn(b, hash, m) : IsFull(t.ctrl[j])
  <2> SUFFICES ASSUME NEW m \in 0..n - 1 PROVE \A j \in WindowIn(b, hash, m) : IsFull(t.ctrl[j])
    OBVIOUS
  <2>1. m \in Nat
    BY <1>7
  <2> QED BY <1>7, <2>1, WindowShows
<1> HIDE DEF x, pos
<1>12. CASE ~IsFull(t.ctrl[x])
  <2>1. i = x
    BY <1>6, <1>12 DEF FixInsertSlot
  <2> QED BY <1>1, <1>3, <1>7, <1>10, <1>11, <1>12, <2>1 DEF Nearest
<1>13. CASE IsFull(t.ctrl[x])
  <2> DEFINE y == Min(SpecialAt(t, 0))
  <2>1. i = y
    BY <1>6, <1>13 DEF FixInsertSlot
  <2>2. b < Width
    BY <1>10, <1>13
  <2>3. free \in SpecialAt(t, 0)
    BY <1>1, <1>2, <2>2 DEF SpecialAt, Offsets
  <2>4. SpecialAt(t, 0) \subseteq Nat
    BY <1>2 DEF SpecialAt, Offsets
  <2>5. y \in SpecialAt(t, 0) /\ y <= free
    BY <2>3, <2>4, MinIs
  <2> HIDE DEF y
  <2>6. y \in 0..b - 1 /\ ~IsFull(t.ctrl[y])
    <3>1. ~IsFull(t.ctrl[0 + y]) /\ y \in Nat
      BY <2>4, <2>5 DEF SpecialAt
    <3> QED BY <1>1, <1>2, <2>5, <3>1
  <2>7. n = 0 /\ y \in WindowIn(b, hash, n)
    <3>1. b <= Width
      BY <1>2, <2>2
    <3> QED BY <1>2, <1>3, <1>7, <2>2, <2>6, <3>1, WindowShowsSmall
  <2> QED BY <1>1, <1>3, <1>7, <1>11, <2>1, <2>6, <2>7 DEF Nearest
<1> QED BY <1>12, <1>13

------------------------------------------------------------------------------
(* Counting the buckets *)

\* A byte is full, EMPTY or a tombstone; there are finitely many of each.
LEMMA CountType ==
  ASSUME SoundVariants, build \in Builds, NEW t, Shaped(t)
  PROVE  /\ IsFiniteSet(Indices(t)) /\ Cardinality(Indices(t)) = t.buckets
         /\ IsFiniteSet(FullBuckets(t)) /\ Cardinality(FullBuckets(t)) \in Nat
         /\ IsFiniteSet(Tombstones(t)) /\ Cardinality(Tombstones(t)) \in Nat
         /\ FullBuckets(t) \cap Tombstones(t) = {}
         /\ \A i \in Indices(t) : t.ctrl[i] \in Bytes
         /\ \A i \in Indices(t) : IsFull(t.ctrl[i]) \/ t.ctrl[i] = EMPTY \/ t.ctrl[i] = DELETED
<1>1. t.buckets \in Nat \ {0} /\ Indices(t) = 0..t.buckets - 1 /\ Width \in Nat
  BY Sized DEF Shaped
<1>2. IsFiniteSet(Indices(t)) /\ Cardinality(Indices(t)) = t.buckets
  <2>1. 0 \in Int /\ t.buckets - 1 \in Int /\ ~(0 > t.buckets - 1)
    BY <1>1
  <2>2. IsFiniteSet(0..t.buckets - 1)
        /\ Cardinality(0..t.buckets - 1) = (t.buckets - 1) - 0 + 1
    BY <2>1, FS_Interval
  <2> QED BY <1>1, <2>2
<1>3. FullBuckets(t) \subseteq Indices(t) /\ Tombstones(t) \subseteq Indices(t)
  BY DEF FullBuckets, Tombstones
<1>4. \A i \in Indices(t) : t.ctrl[i] \in Bytes
  BY <1>1 DEF Shaped
<1>5. \A x \in Bytes : IsFull(x) \/ x = EMPTY \/ x = DELETED
  BY ByteFacts DEF Bytes
<1>6. ~IsFull(DELETED)
  <2>1. DELETED \in Bytes /\ DELETED \notin 0..127
    BY ByteFacts DEF Bytes
  <2> QED BY <2>1, ByteFacts
<1>7. FullBuckets(t) \cap Tombstones(t) = {}
  BY <1>6 DEF FullBuckets, Tombstones
<1>8. IsFiniteSet(FullBuckets(t)) /\ IsFiniteSet(Tombstones(t))
  BY <1>2, <1>3, FS_Subset
<1> QED BY <1>2, <1>4, <1>5, <1>7, <1>8, FS_CardinalityType

\* As long as they are fewer than the buckets, there is an EMPTY one.
LEMMA EmptyBucket ==
  ASSUME SoundVariants, build \in Builds, NEW t, Shaped(t),
         Cardinality(FullBuckets(t)) + Cardinality(Tombstones(t)) < t.buckets
  PROVE  \E j \in Indices(t) : t.ctrl[j] = EMPTY
<1> SUFFICES ASSUME \A j \in Indices(t) : t.ctrl[j] # EMPTY PROVE FALSE
  OBVIOUS
<1>1. Indices(t) = FullBuckets(t) \cup Tombstones(t)
  BY CountType DEF FullBuckets, Tombstones
<1>2. Cardinality(FullBuckets(t) \cup Tombstones(t))
        = Cardinality(FullBuckets(t)) + Cardinality(Tombstones(t))
          - Cardinality(FullBuckets(t) \cap Tombstones(t))
  BY CountType, FS_Union
<1>3. Cardinality(FullBuckets(t) \cap Tombstones(t)) = 0
  BY CountType, FS_EmptySet
<1>4. Cardinality(FullBuckets(t)) \in Nat /\ Cardinality(Tombstones(t)) \in Nat
  BY CountType
<1>5. Cardinality(Indices(t)) = t.buckets
  BY CountType
<1> QED BY <1>1, <1>2, <1>3, <1>4, <1>5

\* A set that gains or loses one element, or none.
LEMMA OneElement ==
  ASSUME NEW S, IsFiniteSet(S), NEW i
  PROVE  /\ IsFiniteSet(S \cup {i}) /\ IsFiniteSet(S \ {i})
         /\ Cardinality(S) \in Nat
         /\ Cardinality(S \cup {i}) = IF i \in S THEN Cardinality(S) ELSE Cardinality(S) + 1
         /\ Cardinality(S \ {i}) = IF i \in S THEN Cardinality(S) - 1 ELSE Cardinality(S)
BY FS_AddElement, FS_RemoveElement, FS_CardinalityType

One(condition) == IF condition THEN 1 ELSE 0

\* The counts when the byte of one bucket changes.
LEMMA OneByte ==
  ASSUME SoundVariants, build \in Builds, NEW t, Shaped(t), NEW u, Shaped(u),
         u.buckets = t.buckets, NEW i \in Indices(t), NEW byte \in Bytes,
         \A j \in Indices(t) : u.ctrl[j] = IF j = i THEN byte ELSE t.ctrl[j]
  PROVE  /\ Indices(u) = Indices(t)
         /\ FullBuckets(u) = IF IsFull(byte) THEN FullBuckets(t) \cup {i} ELSE FullBuckets(t) \ {i}
         /\ Tombstones(u) = IF byte = DELETED THEN Tombstones(t) \cup {i} ELSE Tombstones(t) \ {i}
         /\ Cardinality(FullBuckets(u))
              = Cardinality(FullBuckets(t)) - One(IsFull(t.ctrl[i])) + One(IsFull(byte))
         /\ Cardinality(Tombstones(u))
              = Cardinality(Tombstones(t)) - One(t.ctrl[i] = DELETED) + One(byte = DELETED)
         /\ Cardinality(FullBuckets(t)) \in Nat /\ Cardinality(Tombstones(t)) \in Nat
<1>1. Indices(u) = Indices(t)
  BY DEF Indices
<1>2. FullBuckets(u) = IF IsFull(byte) THEN FullBuckets(t) \cup {i} ELSE FullBuckets(t) \ {i}
  <2>1. CASE IsFull(byte)
    BY <1>1, <2>1 DEF FullBuckets
  <2>2. CASE ~IsFull(byte)
    BY <1>1, <2>2 DEF FullBuckets
  <2> QED BY <2>1, <2>2
<1>3. Tombstones(u) = IF byte = DELETED THEN Tombstones(t) \cup {i} ELSE Tombstones(t) \ {i}
  <2>1. CASE byte = DELETED
    BY <1>1, <2>1 DEF Tombstones
  <2>2. CASE byte # DELETED
    BY <1>1, <2>2 DEF Tombstones
  <2> QED BY <2>1, <2>2
<1>4. IsFiniteSet(FullBuckets(t)) /\ IsFiniteSet(Tombstones(t))
      /\ Cardinality(FullBuckets(t)) \in Nat /\ Cardinality(Tombstones(t)) \in Nat
  BY CountType
<1>5. (i \in FullBuckets(t) <=> IsFull(t.ctrl[i])) /\ (i \in Tombstones(t) <=> t.ctrl[i] = DELETED)
  BY DEF FullBuckets, Tombstones
<1>6. Cardinality(FullBuckets(u))
        = Cardinality(FullBuckets(t)) - One(IsFull(t.ctrl[i])) + One(IsFull(byte))
  <2>1. One(IsFull(byte)) = (IF IsFull(byte) THEN 1 ELSE 0)
        /\ One(IsFull(t.ctrl[i])) = (IF i \in FullBuckets(t) THEN 1 ELSE 0)
    BY <1>5 DEF One
  <2>2. CASE IsFull(byte)
    <3>1. Cardinality(FullBuckets(u))
            = IF i \in FullBuckets(t) THEN Cardinality(FullBuckets(t)) ELSE Cardinality(FullBuckets(t)) + 1
      BY <1>2, <1>4, <2>2, OneElement
    <3> QED BY <1>4, <2>1, <2>2, <3>1
  <2>3. CASE ~IsFull(byte)
    <3>1. Cardinality(FullBuckets(u))
            = IF i \in FullBuckets(t) THEN Cardinality(FullBuckets(t)) - 1 ELSE Cardinality(FullBuckets(t))
      <4>1. FullBuckets(u) = FullBuckets(t) \ {i}
        BY <1>2, <2>3
      <4> QED BY <1>4, <4>1, FS_RemoveElement
    <3> QED BY <1>4, <2>1, <2>3, <3>1
  <2> QED BY <2>2, <2>3
<1>7. Cardinality(Tombstones(u))
        = Cardinality(Tombstones(t)) - One(t.ctrl[i] = DELETED) + One(byte = DELETED)
  <2>1. One(byte = DELETED) = (IF byte = DELETED THEN 1 ELSE 0)
        /\ One(t.ctrl[i] = DELETED) = (IF i \in Tombstones(t) THEN 1 ELSE 0)
    BY <1>5 DEF One
  <2>2. CASE byte = DELETED
    <3>1. Cardinality(Tombstones(u))
            = IF i \in Tombstones(t) THEN Cardinality(Tombstones(t)) ELSE Cardinality(Tombstones(t)) + 1
      BY <1>3, <1>4, <2>2, OneElement
    <3> QED BY <1>4, <2>1, <2>2, <3>1
  <2>3. CASE byte # DELETED
    <3>1. Cardinality(Tombstones(u))
            = IF i \in Tombstones(t) THEN Cardinality(Tombstones(t)) - 1 ELSE Cardinality(Tombstones(t))
      <4>1. Tombstones(u) = Tombstones(t) \ {i}
        BY <1>3, <2>3
      <4> QED BY <1>4, <4>1, FS_RemoveElement
    <3> QED BY <1>4, <2>1, <2>3, <3>1
  <2> QED BY <2>2, <2>3
<1> QED BY <1>1, <1>2, <1>3, <1>4, <1>6, <1>7

\* What a search reaches it still reaches when no byte becomes EMPTY, and what is nearest
\* is nearest while full buckets stay full.
LEMMA ReachStays ==
  ASSUME SoundVariants, build \in Builds, NEW t, t.buckets \in BucketCounts, NEW u,
         u.buckets = t.buckets, NEW i, NEW hash \in Hashes
  PROVE  /\ Reached(t, i, hash) /\ (\A j \in Indices(t) : u.ctrl[j] = EMPTY => t.ctrl[j] = EMPTY)
              => Reached(u, i, hash)
         /\ Nearest(t, i, hash) /\ (\A j \in Indices(t) : IsFull(t.ctrl[j]) => IsFull(u.ctrl[j]))
              => Nearest(u, i, hash)
<1>1. t.buckets \in Nat \ {0} /\ Indices(t) = 0..t.buckets - 1
  BY Sized
<1>2. ASSUME NEW n \in ProbesIn(t.buckets), NEW m \in 0..n - 1
      PROVE  WindowIn(t.buckets, hash, m) \subseteq Indices(t)
  <2>1. m \in Nat
    BY ProbeFacts
  <2> QED BY <1>1, <2>1, PositionType
<1>3. ASSUME Reached(t, i, hash), \A j \in Indices(t) : u.ctrl[j] = EMPTY => t.ctrl[j] = EMPTY
      PROVE  Reached(u, i, hash)
  <2>1. PICK n \in ProbesIn(t.buckets) :
          /\ i \in WindowIn(t.buckets, hash, n)
          /\ \A m \in 0..n - 1 : \A j \in WindowIn(t.buckets, hash, m) : t.ctrl[j] # EMPTY
    BY <1>3 DEF Reached
  <2>2. \A m \in 0..n - 1 : \A j \in WindowIn(t.buckets, hash, m) : u.ctrl[j] # EMPTY
    BY <1>2, <1>3, <2>1
  <2> QED BY <2>1, <2>2 DEF Reached
<1>4. ASSUME Nearest(t, i, hash), \A j \in Indices(t) : IsFull(t.ctrl[j]) => IsFull(u.ctrl[j])
      PROVE  Nearest(u, i, hash)
  <2>1. PICK n \in ProbesIn(t.buckets) :
          /\ i \in WindowIn(t.buckets, hash, n)
          /\ \A m \in 0..n - 1 : \A j \in WindowIn(t.buckets, hash, m) : IsFull(t.ctrl[j])
    BY <1>4 DEF Nearest
  <2>2. \A m \in 0..n - 1 : \A j \in WindowIn(t.buckets, hash, m) : IsFull(u.ctrl[j])
    BY <1>2, <1>4, <2>1
  <2> QED BY <2>1, <2>2 DEF Nearest
<1> QED BY <1>3, <1>4

------------------------------------------------------------------------------
(* Changes of a table *)

\* The element of one bucket, and the counts, have nothing to do with the bytes.
LEMMA WithElement ==
  ASSUME NEW t, Shaped(t), NEW i \in Indices(t), NEW element \in Hashes \cup {None}
  PROVE  LET u == [t EXCEPT !.slot[i] = element]
         IN /\ Shaped(u) /\ u.buckets = t.buckets /\ u.ctrl = t.ctrl
            /\ u.items = t.items /\ u.growthLeft = t.growthLeft
            /\ \A j \in Indices(t) : u.slot[j] = IF j = i THEN element ELSE t.slot[j]
<1> DEFINE f == [t.slot EXCEPT ![i] = element]
           u == [t EXCEPT !.slot[i] = element]
<1>1. Record(t) /\ t.slot \in [0..t.buckets - 1 -> Hashes \cup {None}] /\ Indices(t) = 0..t.buckets - 1
  BY DEF Shaped, Indices
<1>2. u = [t EXCEPT !.slot = f]
  BY <1>1 DEF Record
<1>3. f \in [0..t.buckets - 1 -> Hashes \cup {None}]
      /\ \A j \in Indices(t) : f[j] = IF j = i THEN element ELSE t.slot[j]
  BY <1>1
<1> HIDE DEF f, u
<1>4. u = [buckets |-> t.buckets, ctrl |-> t.ctrl, slot |-> f,
           items |-> t.items, growthLeft |-> t.growthLeft]
  BY <1>1, <1>2 DEF Record
<1>5. Shaped(u)
  BY <1>3, <1>4 DEF Shaped, Record
<1> QED BY <1>3, <1>4, <1>5 DEF u

Counts(t, items, growthLeft) == [t EXCEPT !.items = items, !.growthLeft = growthLeft]

LEMMA WithCounts ==
  ASSUME NEW t, Shaped(t), NEW items, NEW growthLeft
  PROVE  LET u == Counts(t, items, growthLeft)
         IN /\ Shaped(u) /\ u.buckets = t.buckets /\ u.ctrl = t.ctrl /\ u.slot = t.slot
            /\ u.items = items /\ u.growthLeft = growthLeft
<1> DEFINE v == [t EXCEPT !.items = items]
           u == [v EXCEPT !.growthLeft = growthLeft]
<1>1. Record(t)
  BY DEF Shaped
<1>2. v = [buckets |-> t.buckets, ctrl |-> t.ctrl, slot |-> t.slot,
           items |-> items, growthLeft |-> t.growthLeft]
  BY <1>1 DEF Record
<1> HIDE DEF v
<1>3. u = [buckets |-> t.buckets, ctrl |-> t.ctrl, slot |-> t.slot,
           items |-> items, growthLeft |-> growthLeft]
  BY <1>2
<1>4. Counts(t, items, growthLeft) = u
  BY DEF v, Counts
<1> HIDE DEF u
<1>5. Shaped(u)
  BY <1>3 DEF Shaped, Record
<1>6. u.buckets = t.buckets /\ u.ctrl = t.ctrl /\ u.slot = t.slot
      /\ u.items = items /\ u.growthLeft = growthLeft
  BY <1>3
<1> QED BY <1>4, <1>5, <1>6

\* An element and its tag in a bucket.
LEMMA PlacedIs ==
  ASSUME SoundVariants, build \in Builds, NEW t, Shaped(t), NEW i \in Indices(t), NEW hash \in Hashes
  PROVE  LET u == Placed(t, i, hash)
         IN /\ Shaped(u) /\ u.buckets = t.buckets
            /\ u.items = t.items /\ u.growthLeft = t.growthLeft
            /\ \A j \in Indices(t) : u.ctrl[j] = IF j = i THEN Tag(hash) ELSE t.ctrl[j]
            /\ \A j \in Indices(t) : u.slot[j] = IF j = i THEN hash ELSE t.slot[j]
<1> DEFINE v == SetCtrl(t, i, Tag(hash))
           u == [v EXCEPT !.slot[i] = hash]
<1>1. Tag(hash) \in Bytes
  BY ByteFacts DEF Bytes
<1>2. /\ Shaped(v) /\ v.buckets = t.buckets /\ v.slot = t.slot
      /\ v.items = t.items /\ v.growthLeft = t.growthLeft
      /\ \A j \in Indices(t) : v.ctrl[j] = IF j = i THEN Tag(hash) ELSE t.ctrl[j]
  BY <1>1, SetCtrlIs
<1>3. Indices(v) = Indices(t)
  BY <1>2 DEF Indices
<1>4. Placed(t, i, hash) = u
  BY DEF Placed
<1> HIDE DEF v
<1>5. /\ Shaped(u) /\ u.buckets = v.buckets /\ u.ctrl = v.ctrl
      /\ u.items = v.items /\ u.growthLeft = v.growthLeft
      /\ \A j \in Indices(v) : u.slot[j] = IF j = i THEN hash ELSE v.slot[j]
  BY <1>2, <1>3, WithElement
<1> HIDE DEF u
<1> QED BY <1>2, <1>3, <1>4, <1>5

------------------------------------------------------------------------------
(* The table at rest *)

\* Every element is where a search for it comes to, and the counts are right.
AtRest(t) ==
  /\ Shaped(t)
  /\ t.growthLeft \in Nat
  /\ t.items = Cardinality(FullBuckets(t))
  /\ t.growthLeft + t.items + Cardinality(Tombstones(t)) = BucketMaskToCapacity(t.buckets)
  /\ t.buckets < Width => Tombstones(t) = {}
  /\ \A i \in Indices(t) : t.slot[i] # None <=> IsFull(t.ctrl[i])
  /\ \A i \in FullBuckets(t) : t.ctrl[i] = Tag(t.slot[i]) /\ Reached(t, i, t.slot[i])

\* What follows from the counts.
LEMMA RestFacts ==
  ASSUME SoundVariants, build \in Builds, NEW t, AtRest(t)
  PROVE  /\ Shaped(t) /\ t.items \in Nat /\ t.growthLeft \in 0..BucketMaskToCapacity(t.buckets)
         /\ t.items \in 0..BucketMaskToCapacity(t.buckets)
         /\ \E j \in Indices(t) : t.ctrl[j] = EMPTY /\ ~IsFull(t.ctrl[j])
         /\ \A i \in FullBuckets(t) : i \in Indices(t) /\ t.slot[i] \in Hashes /\ IsFull(t.ctrl[i])
<1>1. Shaped(t) /\ t.growthLeft \in Nat /\ t.items = Cardinality(FullBuckets(t))
      /\ t.growthLeft + t.items + Cardinality(Tombstones(t)) = BucketMaskToCapacity(t.buckets)
  BY DEF AtRest
<1>2. BucketMaskToCapacity(t.buckets) \in 0..t.buckets - 1 /\ t.buckets \in Nat
      /\ Indices(t) = 0..t.buckets - 1
  BY <1>1, Sized DEF Shaped
<1>3. Cardinality(FullBuckets(t)) \in Nat /\ Cardinality(Tombstones(t)) \in Nat
  BY <1>1, CountType
<1>4. Cardinality(FullBuckets(t)) + Cardinality(Tombstones(t)) < t.buckets
  BY <1>1, <1>2, <1>3
<1>5. PICK j \in Indices(t) : t.ctrl[j] = EMPTY
  BY <1>1, <1>4, EmptyBucket
<1>6. ~IsFull(EMPTY)
  BY ByteFacts DEF Bytes
<1>7. ASSUME NEW i \in FullBuckets(t)
      PROVE  i \in Indices(t) /\ t.slot[i] \in Hashes /\ IsFull(t.ctrl[i])
  <2>1. i \in Indices(t) /\ IsFull(t.ctrl[i])
    BY DEF FullBuckets
  <2>2. t.slot[i] # None
    BY <2>1 DEF AtRest
  <2>3. t.slot \in [Indices(t) -> Hashes \cup {None}]
    BY <1>1, <1>2 DEF Shaped
  <2> QED BY <2>1, <2>2, <2>3
<1>8. t.items \in 0..BucketMaskToCapacity(t.buckets)
      /\ t.growthLeft \in 0..BucketMaskToCapacity(t.buckets) /\ t.items \in Nat
  BY <1>1, <1>2, <1>3
<1> QED BY <1>1, <1>5, <1>6, <1>7, <1>8

\* A new table is at rest.
LEMMA EmptyTableRests ==
  ASSUME SoundVariants, build \in Builds, NEW b \in BucketCounts
  PROVE  LET u == EmptyTable(b)
         IN AtRest(u) /\ u.buckets = b /\ u.items = 0 /\ FullBuckets(u) = {} /\ Tombstones(u) = {}
            /\ u.growthLeft = BucketMaskToCapacity(b)
<1> DEFINE u == EmptyTable(b)
<1>1. /\ Shaped(u) /\ u.buckets = b /\ u.items = 0 /\ u.growthLeft = BucketMaskToCapacity(b)
      /\ \A j \in 0..b - 1 : u.ctrl[j] = EMPTY /\ u.slot[j] = None
  BY EmptyTableIs
<1> HIDE DEF u
<1>2. BucketMaskToCapacity(b) \in Nat /\ Indices(u) = 0..b - 1
  <2>1. Width \in {4, 8, 16}
    BY ByteFacts
  <2>2. BucketMaskToCapacity(b) \in 0..b - 1
    BY <2>1, SizeFacts
  <2> QED BY <1>1, <2>2 DEF Indices
<1>3. ~IsFull(EMPTY) /\ EMPTY # DELETED
  BY ByteFacts DEF Bytes
<1>4. FullBuckets(u) = {} /\ Tombstones(u) = {}
  BY <1>1, <1>2, <1>3 DEF FullBuckets, Tombstones
<1>5. Cardinality(FullBuckets(u)) = 0 /\ Cardinality(Tombstones(u)) = 0
  BY <1>4, FS_EmptySet
<1>6. AtRest(u)
  BY <1>1, <1>2, <1>3, <1>4, <1>5 DEF AtRest
<1> QED BY <1>1, <1>4, <1>6 DEF u

\* The elements of a table at rest.
Elements(t) ==
  /\ \A i \in Indices(t) : t.slot[i] # None <=> IsFull(t.ctrl[i])
  /\ \A i \in FullBuckets(t) : t.ctrl[i] = Tag(t.slot[i]) /\ Reached(t, i, t.slot[i])

LEMMA SameElements ==
  ASSUME NEW t, NEW u, u.buckets = t.buckets, u.ctrl = t.ctrl, u.slot = t.slot
  PROVE  /\ Indices(u) = Indices(t) /\ FullBuckets(u) = FullBuckets(t)
         /\ Tombstones(u) = Tombstones(t) /\ (Elements(t) => Elements(u))
BY DEF Elements, Reached, Indices, FullBuckets, Tombstones

\* An element more, at a bucket that a search for its hash reaches.
LEMMA PlacedKeeps ==
  ASSUME SoundVariants, build \in Builds, NEW t, Shaped(t), Elements(t), NEW hash \in Hashes,
         NEW i \in Indices(t), ~IsFull(t.ctrl[i]), Reached(t, i, hash)
  PROVE  LET u == Placed(t, i, hash)
         IN /\ Elements(u) /\ Indices(u) = Indices(t)
            /\ FullBuckets(u) = FullBuckets(t) \cup {i} /\ Tombstones(u) = Tombstones(t) \ {i}
            /\ i \notin FullBuckets(t)
<1> DEFINE u == Placed(t, i, hash)
<1>1. /\ Shaped(u) /\ u.buckets = t.buckets
      /\ \A j \in Indices(t) : u.ctrl[j] = IF j = i THEN Tag(hash) ELSE t.ctrl[j]
      /\ \A j \in Indices(t) : u.slot[j] = IF j = i THEN hash ELSE t.slot[j]
  BY PlacedIs
<1> HIDE DEF u
<1>2. IsFull(Tag(hash)) /\ Tag(hash) # DELETED /\ Tag(hash) # EMPTY /\ ~IsFull(EMPTY)
  BY ByteFacts DEF Bytes
<1>3. /\ Indices(u) = Indices(t)
      /\ FullBuckets(u) = FullBuckets(t) \cup {i}
      /\ Tombstones(u) = Tombstones(t) \ {i}
      /\ i \notin FullBuckets(t)
  BY <1>1, <1>2 DEF Indices, FullBuckets, Tombstones
<1>4. \A j \in Indices(u) : u.slot[j] # None <=> IsFull(u.ctrl[j])
  <2>1. hash # None
    BY HashAssumption
  <2>2. \A j \in Indices(t) : t.slot[j] # None <=> IsFull(t.ctrl[j])
    BY DEF Elements
  <2> QED BY <1>1, <1>2, <1>3, <2>1, <2>2
<1>5. ASSUME NEW j \in FullBuckets(u) PROVE u.ctrl[j] = Tag(u.slot[j]) /\ Reached(u, j, u.slot[j])
  <2>1. \A x \in Indices(t) : u.ctrl[x] = EMPTY => t.ctrl[x] = EMPTY
    BY <1>1, <1>2
  <2>2. CASE j = i
    <3>1. u.ctrl[j] = Tag(hash) /\ u.slot[j] = hash
      BY <1>1, <2>2
    <3>2. Reached(u, j, hash)
      BY <1>1, <2>1, <2>2, ReachStays DEF Shaped
    <3> QED BY <3>1, <3>2
  <2>3. CASE j # i
    <3>1. j \in FullBuckets(t) /\ j \in Indices(t) /\ IsFull(t.ctrl[j])
      BY <1>3, <2>3 DEF FullBuckets
    <3>2. t.slot[j] # None /\ t.slot[j] \in Hashes \cup {None}
      BY <3>1 DEF Elements, Shaped, Indices
    <3>3. u.ctrl[j] = t.ctrl[j] /\ u.slot[j] = t.slot[j] /\ t.slot[j] \in Hashes
      BY <1>1, <2>3, <3>1, <3>2
    <3>4. t.ctrl[j] = Tag(t.slot[j]) /\ Reached(t, j, t.slot[j])
      BY <3>1 DEF Elements
    <3>5. Reached(u, j, t.slot[j])
      BY <1>1, <2>1, <3>3, <3>4, ReachStays DEF Shaped
    <3> QED BY <3>3, <3>4, <3>5
  <2> QED BY <2>2, <2>3
<1> QED BY <1>3, <1>4, <1>5 DEF Elements, u

\* An insert at a bucket that a search for the hash reaches.
LEMMA InsertKeeps ==
  ASSUME SoundVariants, build \in Builds, NEW t, AtRest(t), NEW hash \in Hashes,
         NEW i \in Indices(t), ~IsFull(t.ctrl[i]), Reached(t, i, hash),
         t.ctrl[i] = EMPTY => t.growthLeft > 0
  PROVE  LET u == InsertInSlot(t, i, hash)
         IN /\ AtRest(u) /\ u.buckets = t.buckets /\ u.items = t.items + 1
            /\ \A j \in Indices(t) : u.slot[j] = IF j = i THEN hash ELSE t.slot[j]
<1> DEFINE v == Placed(t, i, hash)
           left == IF t.ctrl[i] = EMPTY THEN t.growthLeft - 1 ELSE t.growthLeft
           u == Counts(v, t.items + 1, left)
<1>1. Shaped(t) /\ t.items \in Nat /\ t.growthLeft \in Nat
      /\ t.items = Cardinality(FullBuckets(t))
      /\ t.growthLeft + t.items + Cardinality(Tombstones(t)) = BucketMaskToCapacity(t.buckets)
  BY RestFacts DEF AtRest
<1>2. /\ Shaped(v) /\ v.buckets = t.buckets
      /\ v.items = t.items /\ v.growthLeft = t.growthLeft
      /\ \A j \in Indices(t) : v.ctrl[j] = IF j = i THEN Tag(hash) ELSE t.ctrl[j]
      /\ \A j \in Indices(t) : v.slot[j] = IF j = i THEN hash ELSE t.slot[j]
  BY <1>1, PlacedIs
<1> HIDE DEF v
<1>3. InsertInSlot(t, i, hash) = u
  BY <1>2 DEF InsertInSlot, v, Counts
<1>4. /\ Shaped(u) /\ u.buckets = t.buckets /\ u.ctrl = v.ctrl /\ u.slot = v.slot
      /\ u.items = t.items + 1 /\ u.growthLeft = left
  <2> DEFINE more == t.items + 1
  <2> HIDE DEF left, more
  <2>1. LET w == Counts(v, more, left)
        IN /\ Shaped(w) /\ w.buckets = v.buckets /\ w.ctrl = v.ctrl /\ w.slot = v.slot
           /\ w.items = more /\ w.growthLeft = left
    BY <1>2, WithCounts
  <2> QED BY <1>2, <2>1 DEF more
<1> HIDE DEF u
<1>5. EMPTY # DELETED /\ ~IsFull(EMPTY) /\ ~IsFull(DELETED)
  BY ByteFacts DEF Bytes
<1>6. /\ Indices(u) = Indices(t) /\ Elements(u)
      /\ FullBuckets(u) = FullBuckets(t) \cup {i}
      /\ Tombstones(u) = Tombstones(t) \ {i}
  <2>1. Elements(t)
    BY DEF AtRest, Elements
  <2>2. /\ Elements(v) /\ Indices(v) = Indices(t)
        /\ FullBuckets(v) = FullBuckets(t) \cup {i} /\ Tombstones(v) = Tombstones(t) \ {i}
    BY <1>1, <2>1, PlacedKeeps DEF v
  <2> QED BY <1>2, <1>4, <2>2, SameElements
<1>7. /\ Cardinality(FullBuckets(u)) = Cardinality(FullBuckets(t)) + 1
      /\ Cardinality(Tombstones(u))
           = IF t.ctrl[i] = EMPTY THEN Cardinality(Tombstones(t)) ELSE Cardinality(Tombstones(t)) - 1
      /\ Cardinality(FullBuckets(t)) \in Nat /\ Cardinality(Tombstones(t)) \in Nat
  <2>1. IsFiniteSet(FullBuckets(t)) /\ IsFiniteSet(Tombstones(t))
        /\ Cardinality(FullBuckets(t)) \in Nat /\ Cardinality(Tombstones(t)) \in Nat
        /\ (t.ctrl[i] = EMPTY \/ t.ctrl[i] = DELETED)
    BY <1>1, CountType
  <2>2. i \notin FullBuckets(t) /\ (i \in Tombstones(t) <=> t.ctrl[i] # EMPTY)
    BY <1>5, <2>1 DEF FullBuckets, Tombstones
  <2>3. Cardinality(FullBuckets(t) \cup {i}) = Cardinality(FullBuckets(t)) + 1
    BY <2>1, <2>2, OneElement
  <2>4. Cardinality(Tombstones(t) \ {i})
          = IF i \in Tombstones(t) THEN Cardinality(Tombstones(t)) - 1 ELSE Cardinality(Tombstones(t))
    BY <2>1, OneElement
  <2> QED BY <1>6, <2>1, <2>2, <2>3, <2>4
<1>8. left \in Nat /\ u.items = Cardinality(FullBuckets(u))
      /\ left + (t.items + 1) + Cardinality(Tombstones(u)) = BucketMaskToCapacity(t.buckets)
  <2>1. CASE t.ctrl[i] = EMPTY
    <3>1. left = t.growthLeft - 1 /\ left \in Nat
      BY <1>1, <2>1
    <3> HIDE DEF left
    <3> QED BY <1>1, <1>4, <1>7, <2>1, <3>1
  <2>2. CASE t.ctrl[i] # EMPTY
    <3>1. left = t.growthLeft
      BY <2>2
    <3> HIDE DEF left
    <3> QED BY <1>1, <1>4, <1>7, <2>2, <3>1
  <2> QED BY <2>1, <2>2
<1>9. u.buckets < Width => Tombstones(u) = {}
  <2>1. t.buckets < Width => Tombstones(t) = {}
    BY DEF AtRest
  <2> QED BY <1>4, <1>6, <2>1
<1>10. AtRest(u)
  BY <1>4, <1>6, <1>8, <1>9 DEF AtRest, Elements
<1>11. \A j \in Indices(t) : u.slot[j] = IF j = i THEN hash ELSE t.slot[j]
  BY <1>2, <1>4
<1> QED BY <1>3, <1>4, <1>10, <1>11

------------------------------------------------------------------------------
(* Erasing *)

LEMMA MaxIs ==
  ASSUME NEW w \in Nat, NEW S, S \subseteq 0..w - 1, S # {}
  PROVE  Max(S) \in S /\ \A y \in S : y <= Max(S)
<1> DEFINE T == {w - 1 - x : x \in S}
<1>1. T \subseteq Nat /\ T # {}
  <2>1. \A x \in S : w - 1 - x \in Nat
    <3>1. \A x \in S : x \in 0..w - 1
      OBVIOUS
    <3> QED BY <3>1
  <2> QED BY <2>1
<1>2. PICK m \in T : \A y \in T : m <= y
  BY <1>1, LeastElement
<1>3. PICK x \in S : m = w - 1 - x
  BY <1>2
<1>4. ASSUME NEW y \in S PROVE x >= y
  <2>1. m <= w - 1 - y
    BY <1>2
  <2> QED BY <1>3, <2>1
<1>5. \E z \in S : \A y \in S : z >= y
  BY <1>4
<1>6. Max(S) \in S /\ \A y \in S : Max(S) >= y
  BY <1>5 DEF Max
<1> QED BY <1>6

\* The bytes just before a bucket and from it on, in a table of at least a window.
LEMMA AroundBucket ==
  ASSUME SoundVariants, build \in Builds, NEW t, Shaped(t), t.buckets >= Width,
         NEW i \in Indices(t), NEW x \in Offsets
  PROVE  /\ t.ctrl[i + x] = t.ctrl[(i + x) % t.buckets]
         /\ t.ctrl[((i - Width) % t.buckets) + x] = t.ctrl[(i + (x - Width)) % t.buckets]
<1> DEFINE b == t.buckets
           p == (i - Width) % b
<1>1. Width \in {4, 8, 16} /\ b \in Nat \ {0} /\ Indices(t) = 0..b - 1
  BY Sized DEF Shaped
<1>2. i \in Int /\ x \in Int /\ Width \in Int /\ ~(b < Width)
  BY <1>1 DEF Offsets
<1>3. p \in 0..b - 1
  <2>1. i - Width \in Int
    BY <1>2
  <2> HIDE DEF b
  <2> QED BY <1>1, <2>1, Modulo
<1>4. (p + x) % b = (i + (x - Width)) % b
  <2>1. i - Width \in Int /\ (i - Width) + x = i + (x - Width)
    BY <1>2
  <2> HIDE DEF b
  <2>2. (((i - Width) % b) + x) % b = ((i - Width) + x) % b
    BY <1>1, <1>2, <2>1, ModuloSum
  <2> QED BY <2>1, <2>2
<1>5. t.ctrl[i + x] = t.ctrl[(i + x) % b]
  BY <1>1, <1>2, ByteShown
<1>6. t.ctrl[p + x] = t.ctrl[(p + x) % b]
  <2> HIDE DEF p
  <2> QED BY <1>2, <1>3, ByteShown
<1> QED BY <1>4, <1>5, <1>6

\* If a probe can have come past bucket i, the run of bytes around it is as long as a
\* window, and erase leaves a tombstone.
LEMMA ProbePassed ==
  ASSUME SoundVariants, build \in Builds, NEW t, Shaped(t), NEW i \in Indices(t),
         NEW hash \in Hashes, NEW n \in Nat, i \in WindowIn(t.buckets, hash, n),
         t.buckets >= Width, \A j \in WindowIn(t.buckets, hash, n) : t.ctrl[j] # EMPTY
  PROVE  LeavesTombstone(t, i)
<1> DEFINE b == t.buckets
           pos == PositionIn(b, hash, n)
           before == EmptyAt(t, (i - Width) % b)
           after == EmptyAt(t, i)
<1>1. Width \in {4, 8, 16} /\ b \in Nat \ {0} /\ Indices(t) = 0..b - 1
  BY Sized DEF Shaped
<1>2. pos \in 0..b - 1
  BY <1>1, PositionType
<1>3. PICK k \in Offsets : i = (pos + k) % b
  BY DEF WindowIn
<1>4. k \in 0..Width - 1 /\ Offsets = 0..Width - 1
  BY DEF Offsets
<1>5. ASSUME NEW y \in Int, k + y \in Offsets
      PROVE  t.ctrl[(i + y) % b] # EMPTY
  <2>1. (i + y) % b = (pos + (k + y)) % b
    <3>1. pos + k \in Int /\ (pos + k) + y = pos + (k + y)
      BY <1>2, <1>4, <1>5
    <3> HIDE DEF b, pos
    <3>2. (((pos + k) % b) + y) % b = ((pos + k) + y) % b
      BY <1>1, <3>1, ModuloSum
    <3> QED BY <1>3, <3>1, <3>2
  <2>2. (pos + (k + y)) % b \in WindowIn(b, hash, n)
    BY <1>5 DEF WindowIn
  <2> QED BY <2>1, <2>2
<1>6. ASSUME NEW x \in after PROVE x > Width - 1 - k
  <2>1. x \in Offsets /\ t.ctrl[i + x] = EMPTY
    BY DEF EmptyAt
  <2>2. SUFFICES ASSUME x <= Width - 1 - k PROVE FALSE
    BY <1>1, <1>4, <2>1
  <2>3. x \in Int /\ k + x \in Offsets
    BY <1>1, <1>4, <2>1, <2>2
  <2>4. t.ctrl[(i + x) % b] # EMPTY
    BY <1>5, <2>3
  <2>5. t.ctrl[i + x] = t.ctrl[(i + x) % b]
    BY <2>1, AroundBucket
  <2> QED BY <2>1, <2>4, <2>5
<1>7. ASSUME NEW x \in before PROVE x < Width - k
  <2>1. x \in Offsets /\ t.ctrl[((i - Width) % b) + x] = EMPTY
    BY DEF EmptyAt
  <2>2. SUFFICES ASSUME x >= Width - k PROVE FALSE
    BY <1>1, <1>4, <2>1
  <2>3. x - Width \in Int /\ k + (x - Width) \in Offsets
    BY <1>1, <1>4, <2>1, <2>2
  <2>4. t.ctrl[(i + (x - Width)) % b] # EMPTY
    <3> DEFINE y == x - Width
    <3>1. y \in Int /\ k + y \in Offsets
      BY <2>3
    <3> HIDE DEF y
    <3>2. t.ctrl[(i + y) % b] # EMPTY
      BY <1>5, <3>1
    <3> QED BY <3>2 DEF y
  <2>5. t.ctrl[((i - Width) % b) + x] = t.ctrl[(i + (x - Width)) % b]
    BY <2>1, AroundBucket
  <2> QED BY <2>1, <2>4, <2>5
<1>8. before \subseteq 0..Width - 1 /\ after \subseteq 0..Width - 1 /\ after \subseteq Nat
  BY <1>4 DEF EmptyAt
<1>9. RunBefore(t, i) = IF before = {} THEN Width ELSE Width - 1 - Max(before)
  BY DEF RunBefore
<1>10. RunAfter(t, i) = IF after = {} THEN Width ELSE Min(after)
  BY DEF RunAfter
<1> HIDE DEF before, after
<1>11. RunBefore(t, i) \in Nat /\ RunBefore(t, i) >= k
  <2>1. CASE before = {}
    BY <1>1, <1>4, <1>9, <2>1
  <2>2. CASE before # {}
    <3>1. Max(before) \in before
      BY <1>1, <1>8, <2>2, MaxIs
    <3>2. Max(before) < Width - k /\ Max(before) \in 0..Width - 1
      BY <1>7, <1>8, <3>1
    <3> QED BY <1>1, <1>4, <1>9, <2>2, <3>2
  <2> QED BY <2>1, <2>2
<1>12. RunAfter(t, i) \in Nat /\ RunAfter(t, i) >= Width - k
  <2>1. CASE after = {}
    BY <1>1, <1>4, <1>10, <2>1
  <2>2. CASE after # {}
    <3>1. Min(after) \in after
      BY <1>8, <2>2, MinIs
    <3>2. Min(after) > Width - 1 - k /\ Min(after) \in 0..Width - 1
      BY <1>6, <1>8, <3>1
    <3> QED BY <1>1, <1>4, <1>10, <2>2, <3>2
  <2> QED BY <2>1, <2>2
<1> QED BY <1>1, <1>4, <1>11, <1>12 DEF LeavesTombstone

\* In a table smaller than a window the bytes between the buckets and their repetition
\* end the run.
LEMMA SmallRun ==
  ASSUME SoundVariants, build \in Builds, NEW t, Shaped(t), t.buckets < Width,
         NEW i \in Indices(t)
  PROVE  ~LeavesTombstone(t, i)
<1> DEFINE b == t.buckets
           before == EmptyAt(t, (i - Width) % b)
           after == EmptyAt(t, i)
<1>1. Width \in {4, 8, 16} /\ b \in Nat \ {0} /\ Indices(t) = 0..b - 1
  BY Sized DEF Shaped
<1>2. b \in {1, 4, 8} /\ Width % b = 0
  BY <1>1, SizeFacts DEF Shaped
<1>3. (i - Width) % b = i
  <2>1. i \in 0..b - 1 /\ i - Width \in Int /\ b \in Nat \ {0}
    BY <1>1
  <2>2. Width = b * (Width \div b) /\ Width \div b \in Int
    <3> HIDE DEF b
    <3>1. Width = b * (Width \div b) + (Width % b) /\ Width \div b \in Int
      BY <1>1, Quotient
    <3> QED BY <1>1, <1>2, <3>1
  <2>3. i - Width = b * (-(Width \div b)) + i /\ -(Width \div b) \in Int
    BY <1>1, <1>2, <2>1, <2>2
  <2>4. (b * (-(Width \div b)) + i) % b = i
    <3> DEFINE q == -(Width \div b)
    <3>1. q \in Int
      BY <2>3
    <3> HIDE DEF b, q
    <3>2. (b * q + i) % b = i
      BY <2>1, <3>1, Remainder
    <3> QED BY <3>2 DEF q
  <2> QED BY <2>3, <2>4
<1>4. b - i \in Offsets /\ Width - 1 - i \in Offsets
      /\ i + (b - i) = b /\ i + (Width - 1 - i) = Width - 1
  BY <1>1, <1>2 DEF Offsets
<1>5. t.ctrl[b] = EMPTY /\ t.ctrl[Width - 1] = EMPTY
  <2>1. b \in b..b + Width - 1 /\ Width - 1 \in b..b + Width - 1 /\ ~(b >= Width)
        /\ b < Width /\ Width - 1 < Width
    BY <1>1, <1>2
  <2> QED BY <2>1 DEF Shaped, Mirrored
<1>6. b - i \in after /\ Width - 1 - i \in before
  BY <1>3, <1>4, <1>5 DEF EmptyAt
<1>7. before \subseteq 0..Width - 1 /\ after \subseteq Nat
  BY <1>1 DEF EmptyAt, Offsets
<1>8. RunBefore(t, i) = IF before = {} THEN Width ELSE Width - 1 - Max(before)
  BY DEF RunBefore
<1>9. RunAfter(t, i) = IF after = {} THEN Width ELSE Min(after)
  BY DEF RunAfter
<1> HIDE DEF before, after
<1>10. RunAfter(t, i) \in Nat /\ RunAfter(t, i) <= b - i
  <2>1. Min(after) \in after /\ Min(after) <= b - i
    BY <1>6, <1>7, MinIs
  <2> QED BY <1>6, <1>7, <1>9, <2>1
<1>11. RunBefore(t, i) \in Int /\ RunBefore(t, i) <= i
  <2>1. Max(before) \in before /\ Width - 1 - i <= Max(before)
    BY <1>1, <1>6, <1>7, MaxIs
  <2>2. Max(before) \in Int /\ before # {}
    <3>1. Max(before) \in 0..Width - 1
      BY <1>7, <2>1
    <3> QED BY <1>1, <1>6, <3>1
  <2>3. RunBefore(t, i) = Width - 1 - Max(before)
    BY <1>8, <2>2
  <2> QED BY <1>1, <2>1, <2>2, <2>3
<1>12. i \in Int /\ b < Width
  BY <1>1
<1> QED BY <1>1, <1>10, <1>11, <1>12 DEF LeavesTombstone

\* What erase makes of the table.
LEMMA ErasedIs ==
  ASSUME SoundVariants, build \in Builds, NEW t, Shaped(t), t.growthLeft \in Nat,
         NEW i \in Indices(t)
  PROVE  LET u == Erased(t, i)
             byte == IF LeavesTombstone(t, i) THEN DELETED ELSE EMPTY
         IN /\ Shaped(u) /\ u.buckets = t.buckets /\ Indices(u) = Indices(t)
            /\ u.items = t.items - 1
            /\ u.growthLeft = IF LeavesTombstone(t, i) THEN t.growthLeft ELSE t.growthLeft + 1
            /\ \A j \in Indices(t) : u.ctrl[j] = IF j = i THEN byte ELSE t.ctrl[j]
            /\ \A j \in Indices(t) : u.slot[j] = IF j = i THEN None ELSE t.slot[j]
<1> DEFINE byte == IF LeavesTombstone(t, i) THEN DELETED ELSE EMPTY
           v == SetCtrl(t, i, byte)
           w == [v EXCEPT !.slot[i] = None]
           items == t.items - 1
           left == IF LeavesTombstone(t, i) THEN t.growthLeft ELSE t.growthLeft + 1
           u == Counts(w, items, left)
<1>1. byte \in Bytes /\ EMPTY # DELETED
  BY ByteFacts DEF Bytes
<1>2. (byte = EMPTY) <=> ~LeavesTombstone(t, i)
  BY <1>1
<1> HIDE DEF byte
<1>3. /\ Shaped(v) /\ v.buckets = t.buckets /\ v.slot = t.slot
      /\ v.items = t.items /\ v.growthLeft = t.growthLeft
      /\ \A j \in Indices(t) : v.ctrl[j] = IF j = i THEN byte ELSE t.ctrl[j]
  BY <1>1, SetCtrlIs
<1>4. Erased(t, i) = [v EXCEPT !.slot[i] = None, !.items = @ - 1,
                               !.growthLeft = IF byte = EMPTY THEN @ + 1 ELSE @]
  BY DEF Erased, byte
<1> HIDE DEF v
<1>5. Indices(v) = Indices(t) /\ None \in Hashes \cup {None}
  BY <1>3 DEF Indices
<1>6. /\ Shaped(w) /\ w.buckets = v.buckets /\ w.ctrl = v.ctrl
      /\ w.items = v.items /\ w.growthLeft = v.growthLeft
      /\ \A j \in Indices(v) : w.slot[j] = IF j = i THEN None ELSE v.slot[j]
  BY <1>3, <1>5, WithElement
<1>7. Erased(t, i) = u
  <2>1. u = [w EXCEPT !.items = items, !.growthLeft = left]
    BY DEF Counts
  <2>2. u = [v EXCEPT !.slot[i] = None, !.items = items, !.growthLeft = left]
    BY <2>1
  <2>3. items = v.items - 1 /\ left = (IF byte = EMPTY THEN v.growthLeft + 1 ELSE v.growthLeft)
    BY <1>2, <1>3
  <2> HIDE DEF items, left, u
  <2>4. [v EXCEPT !.slot[i] = None, !.items = @ - 1,
                  !.growthLeft = IF byte = EMPTY THEN @ + 1 ELSE @]
          = [v EXCEPT !.slot[i] = None, !.items = v.items - 1,
                      !.growthLeft = IF byte = EMPTY THEN v.growthLeft + 1 ELSE v.growthLeft]
    BY <1>3 DEF Shaped, Record
  <2> QED BY <1>4, <2>2, <2>3, <2>4
<1> HIDE DEF w, items, left
<1>8. /\ Shaped(u) /\ u.buckets = w.buckets /\ u.ctrl = w.ctrl /\ u.slot = w.slot
      /\ u.items = items /\ u.growthLeft = left
  BY <1>6, WithCounts
<1> HIDE DEF u
<1>9. /\ \A j \in Indices(t) : u.ctrl[j] = IF j = i THEN byte ELSE t.ctrl[j]
      /\ \A j \in Indices(t) : u.slot[j] = IF j = i THEN None ELSE t.slot[j]
  BY <1>3, <1>5, <1>6, <1>8
<1>10. Indices(u) = Indices(t) /\ u.buckets = t.buckets
  BY <1>3, <1>6, <1>8 DEF Indices
<1>11. Erased(t, i) = u /\ Shaped(u) /\ u.items = t.items - 1
       /\ u.growthLeft = IF LeavesTombstone(t, i) THEN t.growthLeft ELSE t.growthLeft + 1
  BY <1>7, <1>8 DEF items, left
<1> QED BY <1>9, <1>10, <1>11 DEF byte

\* An erase hides no other element, and gives growth back exactly if it leaves an
\* EMPTY byte.
LEMMA EraseKeeps ==
  ASSUME SoundVariants, build \in Builds, NEW t, AtRest(t), NEW i \in FullBuckets(t)
  PROVE  LET u == Erased(t, i)
         IN /\ AtRest(u) /\ u.buckets = t.buckets /\ Indices(u) = Indices(t)
            /\ u.items = t.items - 1 /\ FullBuckets(u) = FullBuckets(t) \ {i}
            /\ i \in Indices(t) /\ ~IsFull(u.ctrl[i])
            /\ u.ctrl[i] = EMPTY => u.growthLeft > 0
            /\ Reached(u, i, t.slot[i])
            /\ \A j \in Indices(t) : u.slot[j] = IF j = i THEN None ELSE t.slot[j]
<1> DEFINE u == Erased(t, i)
           byte == IF LeavesTombstone(t, i) THEN DELETED ELSE EMPTY
<1>1. /\ Shaped(t) /\ t.items \in Nat /\ t.growthLeft \in Nat
      /\ t.items = Cardinality(FullBuckets(t))
      /\ t.growthLeft + t.items + Cardinality(Tombstones(t)) = BucketMaskToCapacity(t.buckets)
  BY RestFacts DEF AtRest
<1>2. i \in Indices(t) /\ IsFull(t.ctrl[i]) /\ i \in FullBuckets(t)
  BY DEF FullBuckets
<1>3. /\ Shaped(u) /\ u.buckets = t.buckets /\ Indices(u) = Indices(t)
      /\ u.items = t.items - 1
      /\ u.growthLeft = IF LeavesTombstone(t, i) THEN t.growthLeft ELSE t.growthLeft + 1
      /\ \A j \in Indices(t) : u.ctrl[j] = IF j = i THEN byte ELSE t.ctrl[j]
      /\ \A j \in Indices(t) : u.slot[j] = IF j = i THEN None ELSE t.slot[j]
  BY <1>1, <1>2, ErasedIs
<1> HIDE DEF u
<1>4. /\ ~IsFull(byte) /\ EMPTY # DELETED /\ ~IsFull(DELETED)
      /\ (byte = EMPTY <=> ~LeavesTombstone(t, i)) /\ (byte = DELETED <=> LeavesTombstone(t, i))
  BY ByteFacts DEF Bytes
<1> HIDE DEF byte
<1>5. /\ FullBuckets(u) = FullBuckets(t) \ {i}
      /\ Tombstones(u) = IF LeavesTombstone(t, i) THEN Tombstones(t) \cup {i} ELSE Tombstones(t)
      /\ i \notin Tombstones(t)
  <2>1. FullBuckets(u) = FullBuckets(t) \ {i}
    BY <1>2, <1>3, <1>4 DEF FullBuckets
  <2>2. i \notin Tombstones(t)
    BY <1>2, <1>4 DEF Tombstones
  <2>3. Tombstones(u) = IF byte = DELETED THEN Tombstones(t) \cup {i} ELSE Tombstones(t)
    BY <1>2, <1>3, <2>2 DEF Tombstones
  <2> QED BY <1>4, <2>1, <2>2, <2>3
<1>6. /\ Cardinality(FullBuckets(u)) = Cardinality(FullBuckets(t)) - 1
      /\ Cardinality(Tombstones(u)) = IF LeavesTombstone(t, i) THEN Cardinality(Tombstones(t)) + 1
                                                               ELSE Cardinality(Tombstones(t))
      /\ Cardinality(Tombstones(t)) \in Nat
  <2>1. IsFiniteSet(FullBuckets(t)) /\ IsFiniteSet(Tombstones(t))
        /\ Cardinality(Tombstones(t)) \in Nat
    BY <1>1, CountType
  <2>2. Cardinality(FullBuckets(t) \ {i}) = Cardinality(FullBuckets(t)) - 1
    BY <1>2, <2>1, OneElement
  <2>3. Cardinality(Tombstones(t) \cup {i}) = Cardinality(Tombstones(t)) + 1
    BY <1>5, <2>1, OneElement
  <2> QED BY <1>5, <2>1, <2>2, <2>3
<1>7. /\ u.growthLeft \in Nat /\ u.items = Cardinality(FullBuckets(u))
      /\ u.growthLeft + u.items + Cardinality(Tombstones(u)) = BucketMaskToCapacity(u.buckets)
  <2>1. CASE LeavesTombstone(t, i)
    BY <1>1, <1>3, <1>6, <2>1
  <2>2. CASE ~LeavesTombstone(t, i)
    BY <1>1, <1>3, <1>6, <2>2
  <2> QED BY <2>1, <2>2
<1>8. u.buckets < Width => Tombstones(u) = {}
  <2>1. t.buckets < Width => Tombstones(t) = {} /\ ~LeavesTombstone(t, i)
    BY <1>1, <1>2, SmallRun DEF AtRest
  <2> QED BY <1>3, <1>5, <2>1
<1>9. \A j \in Indices(u) : u.slot[j] # None <=> IsFull(u.ctrl[j])
  <2>1. \A j \in Indices(t) : t.slot[j] # None <=> IsFull(t.ctrl[j])
    BY DEF AtRest
  <2> QED BY <1>3, <1>4, <2>1
<1>10. ASSUME NEW j \in FullBuckets(t) PROVE Reached(u, j, t.slot[j])
  <2> DEFINE hash == t.slot[j]
             b == t.buckets
  <2>1. hash \in Hashes /\ Reached(t, j, hash)
    BY RestFacts DEF AtRest
  <2>2. PICK n \in ProbesIn(b) :
          /\ j \in WindowIn(b, hash, n)
          /\ \A m \in 0..n - 1 : \A x \in WindowIn(b, hash, m) : t.ctrl[x] # EMPTY
    BY <2>1 DEF Reached
  <2>3. ASSUME NEW m \in 0..n - 1, NEW x \in WindowIn(b, hash, m) PROVE u.ctrl[x] # EMPTY
    <3>1. b \in Nat \ {0} /\ Indices(t) = 0..b - 1 /\ Width \in {4, 8, 16}
      BY <1>1, Sized DEF Shaped
    <3>2. n \in Nat /\ m \in Nat /\ m \in 0..n - 1 /\ (b <= Width => n = 0)
      BY <1>1, ProbeFacts DEF Shaped
    <3>3. b >= Width
      BY <3>1, <3>2
    <3>4. x \in Indices(t)
      BY <2>1, <3>1, <3>2, PositionType
    <3>5. \A y \in WindowIn(b, hash, m) : t.ctrl[y] # EMPTY
      BY <2>2, <3>2
    <3>6. CASE x # i
      BY <1>3, <3>4, <3>5, <3>6
    <3>7. CASE x = i
      <4>1. LeavesTombstone(t, i)
        BY <1>1, <2>1, <3>2, <3>3, <3>4, <3>5, <3>7, ProbePassed
      <4> QED BY <1>3, <1>4, <3>4, <3>7, <4>1
    <3> QED BY <3>6, <3>7
  <2> QED BY <1>3, <2>2, <2>3 DEF Reached
<1>11. ASSUME NEW j \in FullBuckets(u) PROVE u.ctrl[j] = Tag(u.slot[j]) /\ Reached(u, j, u.slot[j])
  <2>1. j \in FullBuckets(t) /\ j # i /\ j \in Indices(t)
    BY <1>5 DEF FullBuckets
  <2>2. u.ctrl[j] = t.ctrl[j] /\ u.slot[j] = t.slot[j]
    BY <1>3, <2>1
  <2>3. t.ctrl[j] = Tag(t.slot[j])
    BY <2>1 DEF AtRest
  <2> QED BY <1>10, <2>1, <2>2, <2>3
<1>12. u.ctrl[i] = EMPTY => u.growthLeft > 0
  BY <1>1, <1>2, <1>3, <1>4
<1>13. AtRest(u)
  BY <1>3, <1>7, <1>8, <1>9, <1>11 DEF AtRest
<1> QED BY <1>2, <1>3, <1>4, <1>5, <1>10, <1>12, <1>13 DEF u

------------------------------------------------------------------------------
(* Sizes *)

\* What a caller can ask for is within the bounds.
Asked == 0..MaxItems + MaxBuckets + MaxReserve

\* capacity_to_buckets finds a table large enough.
LEMMA EnoughBuckets ==
  ASSUME NEW capacity \in Asked
  PROVE  /\ CapacityToBuckets(capacity) \in BucketCounts
         /\ BucketMaskToCapacity(CapacityToBuckets(capacity)) \in Nat
         /\ capacity <= BucketMaskToCapacity(CapacityToBuckets(capacity))
<1>1. capacity \in Nat /\ MaxItems + MaxBuckets + MaxReserve < 2 ^ 29
      /\ capacity <= MaxItems + MaxBuckets + MaxReserve
  BY BoundAssumption DEF Asked
<1>2. 2 ^ 2 = 4 /\ 2 ^ 3 = 8 /\ 2 ^ 29 \in Nat /\ 2 ^ 30 = 2 * 2 ^ 29
  <2>1. 2 ^ (29 + 1) = 2 * 2 ^ 29 /\ 2 ^ 29 \in Nat
    BY PowerStep, PowerType
  <2> QED BY <2>1, SmallPowers
<1>3. capacity < 2 ^ 29
  BY <1>1, <1>2, BoundAssumption
<1>4. CASE capacity < 8
  <2>1. CapacityToBuckets(capacity) = IF capacity < 4 THEN 4 ELSE 8
    BY <1>4 DEF CapacityToBuckets
  <2>2. 4 \in BucketCounts /\ 8 \in BucketCounts
    BY <1>2 DEF BucketCounts
  <2>3. BucketMaskToCapacity(4) = 3 /\ BucketMaskToCapacity(8) = 7
    BY DEF BucketMaskToCapacity
  <2> QED BY <1>1, <1>4, <2>1, <2>2, <2>3
<1>5. CASE ~(capacity < 8)
  <2> DEFINE need == (capacity * 8) \div 7
             P == {p \in {2 ^ k : k \in 0..30} : p >= need}
  <2>1. capacity >= 8
    BY <1>1, <1>5
  <2>2. need \in Nat /\ need >= 9 /\ need <= 2 * capacity /\ 7 * need >= 8 * capacity - 6
    BY <1>1, <2>1
  <2>3. CapacityToBuckets(capacity) = Min(P)
    BY <1>5 DEF CapacityToBuckets
  <2> HIDE DEF need
  <2>4. P \subseteq Nat
    BY PowerType
  <2>5. 2 ^ 30 \in P
    <3>1. 2 ^ 30 >= need
      BY <1>1, <1>2, <1>3, <2>2
    <3> QED BY <3>1
  <2>6. Min(P) \in P
    BY <2>4, <2>5, MinIs
  <2>7. PICK k \in 0..30 : Min(P) = 2 ^ k /\ 2 ^ k >= need
    BY <2>6
  <2> HIDE DEF P
  <2>8. k > 3
    <3>1. SUFFICES ASSUME k <= 3 PROVE FALSE
      BY <2>7
    <3>2. k \in Nat /\ 3 \in Nat /\ k <= 3
      BY <2>7, <3>1
    <3>3. 2 ^ k \in Nat /\ 2 ^ k <= 2 ^ 3
      BY <3>2, PowerType, PowerMonotone
    <3> QED BY <1>2, <2>2, <2>7, <3>3
  <2>9. PICK q \in Nat : 2 ^ k = 8 * q
    <3>1. k - 3 \in Nat /\ 2 ^ k = 2 ^ 3 * 2 ^ (k - 3)
      <4>1. 3 \in Nat /\ k \in Nat /\ 3 <= k
        BY <2>7, <2>8
      <4> QED BY <4>1, PowerRest
    <3>2. 2 ^ (k - 3) \in Nat
      BY <3>1, PowerType
    <3> QED BY <1>2, <3>1, <3>2
  <2>10. 2 ^ k \in BucketCounts
    <3>1. k \in 2..30
      BY <2>7, <2>8
    <3> QED BY <3>1 DEF BucketCounts
  <2>11. BucketMaskToCapacity(8 * q) = 7 * q
    <3>1. 8 * q - 1 >= 8 /\ (8 * q) \div 8 = q
      BY <2>2, <2>7, <2>9
    <3> QED BY <3>1 DEF BucketMaskToCapacity
  <2>12. 7 * q \in Nat /\ capacity <= 7 * q
    BY <1>1, <2>2, <2>7, <2>9
  <2> QED BY <2>3, <2>7, <2>9, <2>10, <2>11, <2>12
<1> QED BY <1>4, <1>5

------------------------------------------------------------------------------
(* Resizing *)

\* The tables resize_inner goes through: the first n buckets moved.
Moving(t, capacity) ==
  CHOOSE moved : moved = [n \in 0..t.buckets |->
    IF n = 0 THEN WithCapacity(capacity) ELSE MovedInto(moved[n - 1], t, n - 1)]

LEMMA MovingIs ==
  ASSUME NEW t, t.buckets \in Nat, NEW capacity
  PROVE  /\ Moving(t, capacity)[0] = WithCapacity(capacity)
         /\ \A n \in 1..t.buckets :
              Moving(t, capacity)[n] = MovedInto(Moving(t, capacity)[n - 1], t, n - 1)
         /\ Resized(t, capacity) =
              [Moving(t, capacity)[t.buckets] EXCEPT !.items = t.items, !.growthLeft = @ - t.items]
<1> DEFINE b == t.buckets
           start == WithCapacity(capacity)
           Upto(f, n) == f = [x \in 0..n |-> IF x = 0 THEN start ELSE MovedInto(f[x - 1], t, x - 1)]
           S == {n \in Nat : \E f : Upto(f, n)}
           moved == Moving(t, capacity)
<1>1. 0 \in S
  <2> DEFINE f == [x \in 0..0 |-> start]
  <2>1. Upto(f, 0)
    OBVIOUS
  <2> QED BY <2>1
<1>2. ASSUME NEW n \in Nat, n \in S PROVE n + 1 \in S
  <2>1. PICK f : Upto(f, n)
    BY <1>2
  <2> DEFINE g == [x \in 0..n + 1 |-> IF x = n + 1 THEN MovedInto(f[n], t, n) ELSE f[x]]
  <2>2. ASSUME NEW x \in 0..n + 1
        PROVE  g[x] = IF x = 0 THEN start ELSE MovedInto(g[x - 1], t, x - 1)
    <3>1. CASE x = 0
      <4>1. g[0] = f[0] /\ f[0] = start
        BY <2>1
      <4> QED BY <3>1, <4>1
    <3>2. CASE x \in 1..n
      <4>1. g[x] = f[x] /\ g[x - 1] = f[x - 1] /\ x # 0 /\ x \in 0..n
        BY <3>2
      <4> HIDE DEF g
      <4>2. f[x] = MovedInto(f[x - 1], t, x - 1)
        BY <2>1, <4>1
      <4> QED BY <4>1, <4>2
    <3>3. CASE x = n + 1
      <4>1. g[x] = MovedInto(f[n], t, n) /\ g[n] = f[n] /\ x - 1 = n /\ x # 0
        BY <3>3
      <4> HIDE DEF g
      <4> QED BY <4>1
    <3> QED BY <3>1, <3>2, <3>3
  <2>3. g = [x \in 0..n + 1 |-> g[x]]
    OBVIOUS
  <2> HIDE DEF g
  <2>4. Upto(g, n + 1)
    BY <2>2, <2>3
  <2> QED BY <2>4
<1>3. Nat \subseteq S
  <2> HIDE DEF S
  <2> QED BY <1>1, <1>2, SetInduction
<1>4. \E f : Upto(f, b)
  BY <1>3
<1>5. Upto(moved, b)
  BY <1>4 DEF Moving
<1>6. Resized(t, capacity) = [moved[b] EXCEPT !.items = t.items, !.growthLeft = @ - t.items]
  BY DEF Resized, Moving
<1> HIDE DEF moved
<1>7. moved[0] = start
  BY <1>5
<1>8. ASSUME NEW n \in 1..b PROVE moved[n] = MovedInto(moved[n - 1], t, n - 1)
  <2>1. n \in 0..b /\ n # 0
    OBVIOUS
  <2> QED BY <1>5, <2>1
<1> QED BY <1>6, <1>7, <1>8 DEF moved

\* How many of the first n slots have an element of a hash.
SlotsWith(n, slot, hash) == {i \in 0..n - 1 : slot[i] = hash}
SlotCount(n, slot, hash) == Cardinality(SlotsWith(n, slot, hash))

LEMMA NextSlot ==
  ASSUME NEW n \in Nat, NEW slot, NEW hash
  PROVE  /\ IsFiniteSet(SlotsWith(n, slot, hash)) /\ SlotCount(n, slot, hash) \in Nat
         /\ SlotCount(0, slot, hash) = 0
         /\ SlotCount(n + 1, slot, hash) =
              IF slot[n] = hash THEN SlotCount(n, slot, hash) + 1 ELSE SlotCount(n, slot, hash)
<1> DEFINE S == SlotsWith(n, slot, hash)
<1>1. IsFiniteSet(S)
  <2>1. IsFiniteSet(0..n - 1) /\ S \subseteq 0..n - 1
    BY FS_Interval DEF SlotsWith
  <2> QED BY <2>1, FS_Subset
<1>2. SlotsWith(0, slot, hash) = {} /\ n \notin S
  BY DEF SlotsWith
<1>3. SlotsWith(n + 1, slot, hash) = IF slot[n] = hash THEN S \cup {n} ELSE S
  <2>1. 0..(n + 1) - 1 = 0..n - 1 \cup {n}
    OBVIOUS
  <2> QED BY <2>1 DEF SlotsWith
<1> HIDE DEF S
<1>4. Cardinality(S) \in Nat /\ Cardinality(S \cup {n}) = Cardinality(S) + 1
  BY <1>1, <1>2, OneElement
<1>5. SlotCount(0, slot, hash) = 0
  BY <1>2, FS_EmptySet DEF SlotCount
<1>6. SlotCount(n + 1, slot, hash) = IF slot[n] = hash THEN Cardinality(S) + 1 ELSE Cardinality(S)
  BY <1>3, <1>4 DEF SlotCount
<1> QED BY <1>1, <1>4, <1>5, <1>6 DEF S, SlotCount

\* One slot gets another element.
ChangedAt(n, slot, after, i) == i \in 0..n - 1 /\ \A j \in 0..n - 1 : j # i => after[j] = slot[j]

LEMMA OneSlot ==
  ASSUME NEW n \in Nat, NEW slot, NEW after, NEW i, ChangedAt(n, slot, after, i),
         NEW hash, slot[i] # hash
  PROVE  /\ after[i] = hash => SlotCount(n, after, hash) = SlotCount(n, slot, hash) + 1
         /\ after[i] # hash => SlotCount(n, after, hash) = SlotCount(n, slot, hash)
<1> DEFINE S == SlotsWith(n, slot, hash)
<1>1. IsFiniteSet(S)
  BY NextSlot
<1>2. SlotsWith(n, after, hash) = IF after[i] = hash THEN S \cup {i} ELSE S
  BY DEF SlotsWith, ChangedAt
<1>3. i \notin S
  BY DEF SlotsWith
<1> HIDE DEF S
<1>4. Cardinality(S \cup {i}) = Cardinality(S) + 1
  BY <1>1, <1>3, OneElement
<1> QED BY <1>2, <1>4 DEF SlotCount, S

\* A table while the elements of the first n buckets of t are moved into it: its counts
\* do not count them.
FullBelow(t, n) == {i \in 0..n - 1 : IsFull(t.ctrl[i])}

Receiving(v, b, t, n) ==
  /\ Shaped(v) /\ v.buckets = b /\ v.items = 0 /\ v.growthLeft = BucketMaskToCapacity(b)
  /\ Elements(v) /\ Tombstones(v) = {} /\ Cardinality(FullBuckets(v)) = Cardinality(FullBelow(t, n))
  /\ \A hash \in Hashes : SlotCount(b, v.slot, hash) = SlotCount(n, t.slot, hash)

LEMMA FullBelowGrows ==
  ASSUME NEW t, NEW n \in Nat
  PROVE  /\ IsFiniteSet(FullBelow(t, n)) /\ Cardinality(FullBelow(t, n)) \in Nat
         /\ FullBelow(t, 0) = {} /\ n \notin FullBelow(t, n)
         /\ FullBelow(t, n + 1) = IF IsFull(t.ctrl[n]) THEN FullBelow(t, n) \cup {n} ELSE FullBelow(t, n)
         /\ Cardinality(FullBelow(t, n + 1)) =
              IF IsFull(t.ctrl[n]) THEN Cardinality(FullBelow(t, n)) + 1 ELSE Cardinality(FullBelow(t, n))
<1>1. IsFiniteSet(0..n - 1)
  BY FS_Interval
<1>2. IsFiniteSet(FullBelow(t, n)) /\ Cardinality(FullBelow(t, n)) \in Nat
  <2>1. FullBelow(t, n) \subseteq 0..n - 1
    BY DEF FullBelow
  <2> QED BY <1>1, <2>1, FS_Subset, FS_CardinalityType
<1>3. FullBelow(t, 0) = {} /\ n \notin FullBelow(t, n)
  BY DEF FullBelow
<1>4. FullBelow(t, n + 1) = IF IsFull(t.ctrl[n]) THEN FullBelow(t, n) \cup {n} ELSE FullBelow(t, n)
  <2>1. 0..(n + 1) - 1 = 0..n - 1 \cup {n}
    OBVIOUS
  <2> QED BY <2>1 DEF FullBelow
<1>5. Cardinality(FullBelow(t, n) \cup {n}) = Cardinality(FullBelow(t, n)) + 1
  BY <1>2, <1>3, OneElement
<1> QED BY <1>2, <1>3, <1>4, <1>5

\* One bucket is moved.
LEMMA MoveKeeps ==
  ASSUME SoundVariants, build \in Builds, NEW t, AtRest(t), NEW b \in BucketCounts,
         t.items <= BucketMaskToCapacity(b), NEW n \in 0..t.buckets - 1,
         NEW v, Receiving(v, b, t, n)
  PROVE  Receiving(MovedInto(v, t, n), b, t, n + 1)
<1> DEFINE hash == t.slot[n]
           i == FindInsertSlot(v, hash)
           u == Placed(v, i, hash)
<1>1. Shaped(t) /\ t.items = Cardinality(FullBuckets(t)) /\ Indices(t) = 0..t.buckets - 1
      /\ t.buckets \in Nat
  BY Sized DEF AtRest, Shaped
<1>2. n \in Nat /\ n \in Indices(t)
  BY <1>1
<1>3. CASE ~IsFull(t.ctrl[n])
  <2>1. MovedInto(v, t, n) = v
    BY <1>3 DEF MovedInto
  <2>2. Cardinality(FullBelow(t, n + 1)) = Cardinality(FullBelow(t, n))
    BY <1>2, <1>3, FullBelowGrows
  <2>3. \A h \in Hashes : SlotCount(n + 1, t.slot, h) = SlotCount(n, t.slot, h)
    <3>1. t.slot[n] = None
      BY <1>2, <1>3 DEF AtRest
    <3>2. \A h \in Hashes : h # None
      BY HashAssumption
    <3> QED BY <1>2, <3>1, <3>2, NextSlot
  <2> QED BY <2>1, <2>2, <2>3 DEF Receiving
<1>4. CASE IsFull(t.ctrl[n])
  <2>1. MovedInto(v, t, n) = u
    BY <1>4 DEF MovedInto
  <2>2. /\ Cardinality(FullBelow(t, n)) \in Nat
        /\ Cardinality(FullBelow(t, n + 1)) = Cardinality(FullBelow(t, n)) + 1
    BY <1>2, <1>4, FullBelowGrows
  <2>3. hash \in Hashes
    <3>1. n \in FullBuckets(t)
      BY <1>2, <1>4 DEF FullBuckets
    <3> QED BY <3>1, RestFacts
  <2>4. Shaped(v) /\ v.buckets = b /\ Elements(v) /\ Tombstones(v) = {}
        /\ Cardinality(FullBuckets(v)) = Cardinality(FullBelow(t, n))
        /\ v.items = 0 /\ v.growthLeft = BucketMaskToCapacity(b)
    BY DEF Receiving
  <2>5. Cardinality(FullBelow(t, n + 1)) <= t.items
    <3>1. FullBelow(t, n + 1) \subseteq FullBuckets(t)
      BY <1>1, <1>2 DEF FullBelow, FullBuckets
    <3>2. IsFiniteSet(FullBuckets(t))
      BY <1>1, CountType
    <3> QED BY <1>1, <3>1, <3>2, FS_Subset
  <2>6. Cardinality(FullBuckets(v)) + Cardinality(Tombstones(v)) < v.buckets
    <3>1. BucketMaskToCapacity(v.buckets) \in 0..v.buckets - 1 /\ v.buckets \in Nat
      BY <2>4, Sized
    <3>2. Cardinality(Tombstones(v)) = 0
      BY <2>4, FS_EmptySet
    <3>3. t.items \in Nat
      BY RestFacts
    <3> QED BY <2>2, <2>4, <2>5, <3>1, <3>2, <3>3
  <2>7. PICK free \in Indices(v) : v.ctrl[free] = EMPTY
    BY <2>4, <2>6, EmptyBucket
  <2>8. ~IsFull(v.ctrl[free])
    BY <2>7, ByteFacts DEF Bytes
  <2>9. i \in Indices(v) /\ ~IsFull(v.ctrl[i]) /\ Nearest(v, i, hash)
    BY <2>3, <2>4, <2>7, <2>8, FindsSlot
  <2>10. Reached(v, i, hash)
    BY <2>4, <2>9, NearestIsReached
  <2> HIDE DEF i, hash
  <2>11. /\ Elements(u) /\ Indices(u) = Indices(v)
         /\ FullBuckets(u) = FullBuckets(v) \cup {i} /\ Tombstones(u) = Tombstones(v) \ {i}
         /\ i \notin FullBuckets(v)
    BY <2>3, <2>4, <2>9, <2>10, PlacedKeeps
  <2>12. /\ Shaped(u) /\ u.buckets = v.buckets /\ u.items = v.items /\ u.growthLeft = v.growthLeft
         /\ \A j \in Indices(v) : u.slot[j] = IF j = i THEN hash ELSE v.slot[j]
    BY <2>3, <2>4, <2>9, PlacedIs
  <2>13. Cardinality(FullBuckets(v) \cup {i}) = Cardinality(FullBuckets(v)) + 1
    BY <2>4, <2>11, CountType, OneElement
  <2> HIDE DEF u
  <2>14. ASSUME NEW h \in Hashes PROVE SlotCount(b, u.slot, h) = SlotCount(n + 1, t.slot, h)
    <3>1. v.slot[i] = None /\ h # None
      BY <2>4, <2>9, HashAssumption DEF Elements
    <3>2. i \in 0..b - 1 /\ \A j \in 0..b - 1 : j \in Indices(v)
      BY <2>4, <2>9 DEF Indices
    <3>3. u.slot[i] = hash /\ ChangedAt(b, v.slot, u.slot, i)
      BY <2>12, <3>2 DEF ChangedAt
    <3>4. b \in Nat /\ v.slot[i] # h
      BY <3>1, SizeFacts
    <3>5. SlotCount(b, u.slot, h) =
            IF hash = h THEN SlotCount(b, v.slot, h) + 1 ELSE SlotCount(b, v.slot, h)
      BY <3>3, <3>4, OneSlot
    <3>6. SlotCount(n + 1, t.slot, h) =
            IF hash = h THEN SlotCount(n, t.slot, h) + 1 ELSE SlotCount(n, t.slot, h)
      BY <1>2, NextSlot DEF hash
    <3> QED BY <3>5, <3>6 DEF Receiving
  <2>15. Receiving(u, b, t, n + 1)
    BY <2>2, <2>4, <2>11, <2>12, <2>13, <2>14 DEF Receiving
  <2> QED BY <2>1, <2>15
<1> QED BY <1>3, <1>4

\* A table of the new size with every element, and no tombstone.
LEMMA ResizeKeeps ==
  ASSUME SoundVariants, build \in Builds, NEW t, AtRest(t), NEW capacity \in Asked,
         t.items <= capacity
  PROVE  LET u == Resized(t, capacity)
             b == CapacityToBuckets(capacity)
         IN /\ AtRest(u) /\ u.buckets = b /\ b \in BucketCounts /\ u.items = t.items
            /\ u.growthLeft = BucketMaskToCapacity(b) - t.items
            /\ \A hash \in Hashes :
                 SlotCount(u.buckets, u.slot, hash) = SlotCount(t.buckets, t.slot, hash)
<1> DEFINE b == CapacityToBuckets(capacity)
           moved == Moving(t, capacity)
           v == moved[t.buckets]
           left == BucketMaskToCapacity(b) - t.items
           S == {n \in Nat : n <= t.buckets => Receiving(moved[n], b, t, n)}
<1>1. Shaped(t) /\ t.items = Cardinality(FullBuckets(t)) /\ Indices(t) = 0..t.buckets - 1
      /\ t.buckets \in Nat /\ t.items \in Nat
  BY Sized, RestFacts DEF AtRest, Shaped
<1>2. b \in BucketCounts /\ BucketMaskToCapacity(b) \in Nat /\ t.items <= BucketMaskToCapacity(b)
  <2>1. b \in BucketCounts /\ BucketMaskToCapacity(b) \in Nat /\ capacity <= BucketMaskToCapacity(b)
    BY EnoughBuckets
  <2>2. capacity \in Nat
    BY BoundAssumption DEF Asked
  <2> HIDE DEF b
  <2> QED BY <1>1, <2>1, <2>2
<1>3. /\ moved[0] = WithCapacity(capacity)
      /\ \A n \in 1..t.buckets : moved[n] = MovedInto(moved[n - 1], t, n - 1)
      /\ Resized(t, capacity) = [v EXCEPT !.items = t.items, !.growthLeft = @ - t.items]
  BY <1>1, MovingIs
<1>4. 0 \in S
  <2> DEFINE w == WithCapacity(capacity)
  <2>1. w = EmptyTable(b)
    BY DEF WithCapacity
  <2>2. AtRest(w) /\ w.buckets = b /\ w.items = 0 /\ FullBuckets(w) = {} /\ Tombstones(w) = {}
        /\ w.growthLeft = BucketMaskToCapacity(b)
    <3> HIDE DEF b
    <3> QED BY <1>2, <2>1, EmptyTableRests
  <2>3. Cardinality(FullBuckets(w)) = 0 /\ Cardinality(FullBelow(t, 0)) = 0
    BY <2>2, FullBelowGrows, FS_EmptySet
  <2>4. ASSUME NEW hash \in Hashes PROVE SlotCount(b, w.slot, hash) = SlotCount(0, t.slot, hash)
    <3>1. SlotsWith(b, w.slot, hash) = {}
      <4> HIDE DEF b, w
      <4>1. w.slot = [i \in 0..b - 1 |-> None]
        BY <2>1 DEF EmptyTable
      <4>2. hash # None
        BY HashAssumption
      <4> QED BY <4>1, <4>2 DEF SlotsWith
    <3>2. SlotCount(0, t.slot, hash) = 0
      BY NextSlot
    <3> QED BY <3>1, <3>2, FS_EmptySet DEF SlotCount
  <2>5. Receiving(w, b, t, 0)
    <3> HIDE DEF b, w
    <3> QED BY <2>2, <2>3, <2>4 DEF Receiving, AtRest, Elements
  <2> QED BY <1>3, <2>5
<1>5. ASSUME NEW n \in Nat, n \in S PROVE n + 1 \in S
  <2>1. SUFFICES ASSUME n + 1 <= t.buckets
                 PROVE  Receiving(moved[n + 1], b, t, n + 1)
    OBVIOUS
  <2>2. n \in 0..t.buckets - 1 /\ n + 1 \in 1..t.buckets /\ (n + 1) - 1 = n /\ n <= t.buckets
    BY <1>1, <2>1
  <2>3. Receiving(moved[n], b, t, n)
    BY <1>5, <2>2
  <2>4. moved[n + 1] = MovedInto(moved[n], t, n)
    BY <1>3, <2>2
  <2> HIDE DEF b, moved
  <2>5. Receiving(MovedInto(moved[n], t, n), b, t, n + 1)
    BY <1>2, <2>2, <2>3, MoveKeeps
  <2> QED BY <2>4, <2>5
<1>6. Receiving(v, b, t, t.buckets)
  <2>1. Nat \subseteq S
    <3> HIDE DEF S
    <3> QED BY <1>4, <1>5, SetInduction
  <2> QED BY <1>1, <2>1
<1>7. FullBelow(t, t.buckets) = FullBuckets(t)
  BY <1>1 DEF FullBelow, FullBuckets
<1> HIDE DEF v, b, S, moved
<1>8. Shaped(v) /\ v.buckets = b /\ v.growthLeft = BucketMaskToCapacity(b)
      /\ Elements(v) /\ Tombstones(v) = {} /\ Cardinality(FullBuckets(v)) = t.items
      /\ \A hash \in Hashes : SlotCount(b, v.slot, hash) = SlotCount(t.buckets, t.slot, hash)
  BY <1>1, <1>6, <1>7 DEF Receiving
<1> DEFINE u == Counts(v, t.items, left)
<1>9. Resized(t, capacity) = u
  <2>1. [v EXCEPT !.items = t.items, !.growthLeft = @ - t.items]
          = [v EXCEPT !.items = t.items, !.growthLeft = v.growthLeft - t.items]
    BY <1>8 DEF Shaped, Record
  <2> QED BY <1>3, <1>8, <2>1 DEF Counts
<1>10. left \in Nat
  BY <1>1, <1>2
<1>11. /\ Shaped(u) /\ u.buckets = v.buckets /\ u.ctrl = v.ctrl /\ u.slot = v.slot
       /\ u.items = t.items /\ u.growthLeft = left
  <2> HIDE DEF left
  <2> QED BY <1>8, WithCounts
<1> HIDE DEF u
<1>12. Elements(u) /\ Tombstones(u) = {} /\ FullBuckets(u) = FullBuckets(v)
  BY <1>8, <1>11, SameElements
<1>13. Cardinality(Tombstones(u)) = 0
  BY <1>12, FS_EmptySet
<1>14. AtRest(u)
  BY <1>1, <1>2, <1>8, <1>10, <1>11, <1>12, <1>13 DEF AtRest, Elements
<1> QED BY <1>2, <1>8, <1>9, <1>11, <1>14 DEF b

------------------------------------------------------------------------------
(* Inserting *)

\* An insert where the search for a slot ends.
LEMMA InsertedKeeps ==
  ASSUME SoundVariants, build \in Builds, NEW t, AtRest(t), NEW hash \in Hashes,
         t.ctrl[FindInsertSlot(t, hash)] = EMPTY => t.growthLeft > 0
  PROVE  LET u == Inserted(t, hash)
         IN /\ AtRest(u) /\ u.buckets = t.buckets /\ u.items = t.items + 1
            /\ \E i \in Indices(t) :
                 /\ t.slot[i] = None
                 /\ \A j \in Indices(t) : u.slot[j] = IF j = i THEN hash ELSE t.slot[j]
<1> DEFINE i == FindInsertSlot(t, hash)
<1>1. Shaped(t) /\ \E j \in Indices(t) : t.ctrl[j] = EMPTY /\ ~IsFull(t.ctrl[j])
  BY RestFacts
<1>2. i \in Indices(t) /\ ~IsFull(t.ctrl[i]) /\ Nearest(t, i, hash)
  BY <1>1, FindsSlot
<1>3. Reached(t, i, hash)
  BY <1>1, <1>2, NearestIsReached
<1>4. Inserted(t, hash) = InsertInSlot(t, i, hash)
  BY DEF Inserted
<1>5. t.ctrl[i] = EMPTY => t.growthLeft > 0
  OBVIOUS
<1> HIDE DEF i
<1>6. t.slot[i] = None
  BY <1>2 DEF AtRest
<1> DEFINE u == InsertInSlot(t, i, hash)
<1>7. /\ AtRest(u) /\ u.buckets = t.buckets /\ u.items = t.items + 1
      /\ \A j \in Indices(t) : u.slot[j] = IF j = i THEN hash ELSE t.slot[j]
  BY <1>2, <1>3, <1>5, InsertKeeps
<1> HIDE DEF u
<1> QED BY <1>2, <1>4, <1>6, <1>7 DEF u

LEMMA LargerIs ==
  ASSUME NEW x \in Nat, NEW y \in Nat
  PROVE  Max({x, y}) \in {x, y} /\ x <= Max({x, y}) /\ y <= Max({x, y})
<1>1. {x, y} \subseteq 0..(x + y + 1) - 1 /\ {x, y} # {} /\ x + y + 1 \in Nat
  OBVIOUS
<1> QED BY <1>1, MaxIs

\* reserve_rehash asks for what the caller needs, within the bounds.
LEMMA Grown ==
  ASSUME SoundVariants, build \in Builds, NEW t, AtRest(t), t.buckets <= MaxBuckets,
         NEW additional \in Nat, t.items + additional <= MaxItems + MaxReserve
  PROVE  /\ GrownCapacity(t, additional) \in Asked
         /\ t.items <= GrownCapacity(t, additional)
         /\ t.items + additional <= GrownCapacity(t, additional)
<1> DEFINE x == t.items + additional
           y == BucketMaskToCapacity(t.buckets) + 1
<1>1. t.items \in Nat /\ Shaped(t)
  BY RestFacts
<1>2. BucketMaskToCapacity(t.buckets) \in 0..t.buckets - 1 /\ t.buckets \in Nat
  BY <1>1, Sized DEF Shaped
<1>3. MaxItems \in Nat /\ MaxBuckets \in Nat /\ MaxReserve \in Nat
  BY BoundAssumption
<1>4. x \in Nat /\ y \in Nat /\ x <= MaxItems + MaxReserve /\ y <= MaxBuckets /\ t.items <= x
  BY <1>1, <1>2, <1>3
<1>5. GrownCapacity(t, additional) = Max({x, y})
  BY DEF GrownCapacity
<1> HIDE DEF x, y
<1>6. Max({x, y}) \in {x, y} /\ x <= Max({x, y})
  BY <1>4, LargerIs
<1>7. GrownCapacity(t, additional) \in Asked /\ x <= GrownCapacity(t, additional)
  BY <1>3, <1>4, <1>5, <1>6 DEF Asked
<1>8. t.items <= GrownCapacity(t, additional)
  <2>1. GrownCapacity(t, additional) \in Int
    BY <1>4, <1>5, <1>6
  <2> QED BY <1>1, <1>4, <1>7, <2>1
<1> QED BY <1>7, <1>8 DEF x

\* A resize for room leaves growth.
LEMMA GrowKeeps ==
  ASSUME SoundVariants, build \in Builds, NEW t, AtRest(t), t.buckets <= MaxBuckets,
         NEW additional \in Nat, t.items + additional <= MaxItems + MaxReserve,
         CapacityToBuckets(GrownCapacity(t, additional)) <= MaxBuckets
  PROVE  LET u == Resized(t, GrownCapacity(t, additional))
         IN /\ AtRest(u) /\ u.buckets <= MaxBuckets /\ u.items = t.items
            /\ additional <= u.growthLeft
            /\ \A hash \in Hashes :
                 SlotCount(u.buckets, u.slot, hash) = SlotCount(t.buckets, t.slot, hash)
<1> DEFINE capacity == GrownCapacity(t, additional)
           u == Resized(t, capacity)
<1>1. capacity \in Asked /\ t.items <= capacity /\ t.items + additional <= capacity
  BY Grown
<1>2. t.items \in Nat
  BY RestFacts
<1>3. CapacityToBuckets(capacity) <= MaxBuckets
  OBVIOUS
<1> HIDE DEF capacity
<1>4. /\ AtRest(u) /\ u.buckets = CapacityToBuckets(capacity) /\ u.items = t.items
      /\ u.growthLeft = BucketMaskToCapacity(CapacityToBuckets(capacity)) - t.items
      /\ \A hash \in Hashes :
           SlotCount(u.buckets, u.slot, hash) = SlotCount(t.buckets, t.slot, hash)
  BY <1>1, ResizeKeeps
<1>5. BucketMaskToCapacity(CapacityToBuckets(capacity)) \in Nat
      /\ capacity <= BucketMaskToCapacity(CapacityToBuckets(capacity))
  BY <1>1, EnoughBuckets
<1>6. capacity \in Nat
  BY <1>1, BoundAssumption DEF Asked
<1>7. additional <= u.growthLeft
  BY <1>1, <1>2, <1>4, <1>5, <1>6
<1> QED BY <1>3, <1>4, <1>7 DEF capacity

------------------------------------------------------------------------------
(* Rehashing in place *)

\* Full bytes are those of elements already placed, DELETED ones those of the rest.
InRehash(t) ==
  /\ Shaped(t)
  /\ t.growthLeft \in 0..BucketMaskToCapacity(t.buckets)
  /\ t.items = Cardinality(FullBuckets(t)) + Cardinality(Tombstones(t))
  /\ t.items < BucketMaskToCapacity(t.buckets)
  /\ \A i \in Indices(t) : t.slot[i] # None <=> IsFull(t.ctrl[i]) \/ t.ctrl[i] = DELETED
  /\ \A i \in FullBuckets(t) : t.ctrl[i] = Tag(t.slot[i]) /\ Nearest(t, i, t.slot[i])

LEMMA RehashFacts ==
  ASSUME SoundVariants, build \in Builds, NEW t, InRehash(t)
  PROVE  /\ Shaped(t) /\ t.items \in Nat
         /\ \E j \in Indices(t) : t.ctrl[j] = EMPTY /\ ~IsFull(t.ctrl[j])
         /\ \A i \in FullBuckets(t) : i \in Indices(t) /\ t.slot[i] \in Hashes
         /\ \A i \in Tombstones(t) : i \in Indices(t) /\ t.slot[i] \in Hashes /\ ~IsFull(t.ctrl[i])
<1>1. Shaped(t) /\ t.items = Cardinality(FullBuckets(t)) + Cardinality(Tombstones(t))
      /\ t.items < BucketMaskToCapacity(t.buckets)
  BY DEF InRehash
<1>2. BucketMaskToCapacity(t.buckets) \in 0..t.buckets - 1 /\ t.buckets \in Nat
      /\ Indices(t) = 0..t.buckets - 1
  BY <1>1, Sized DEF Shaped
<1>3. Cardinality(FullBuckets(t)) \in Nat /\ Cardinality(Tombstones(t)) \in Nat
  BY <1>1, CountType
<1>4. Cardinality(FullBuckets(t)) + Cardinality(Tombstones(t)) < t.buckets /\ t.items \in Nat
  BY <1>1, <1>2, <1>3
<1>5. PICK j \in Indices(t) : t.ctrl[j] = EMPTY
  BY <1>1, <1>4, EmptyBucket
<1>6. ~IsFull(EMPTY) /\ ~IsFull(DELETED)
  BY ByteFacts DEF Bytes
<1>7. t.slot \in [Indices(t) -> Hashes \cup {None}]
      /\ \A i \in Indices(t) : t.slot[i] # None <=> IsFull(t.ctrl[i]) \/ t.ctrl[i] = DELETED
  BY <1>1, <1>2 DEF InRehash, Shaped
<1> QED BY <1>1, <1>4, <1>5, <1>6, <1>7 DEF FullBuckets, Tombstones

\* The first step: no element is placed.
LEMMA PrepareKeeps ==
  ASSUME SoundVariants, build \in Builds, NEW t, AtRest(t),
         t.items < BucketMaskToCapacity(t.buckets)
  PROVE  LET u == PreparedForRehash(t)
         IN InRehash(u) /\ u.buckets = t.buckets /\ u.items = t.items /\ u.slot = t.slot
<1> DEFINE f == [c \in DOMAIN t.ctrl |-> Converted(t.ctrl[c])]
           v == [t EXCEPT !.ctrl = f]
           bytes == [i \in Indices(t) |-> Converted(t.ctrl[i])]
           u == WithBytes(v, bytes)
<1>1. Shaped(t) /\ t.items = Cardinality(FullBuckets(t))
      /\ t.growthLeft \in 0..BucketMaskToCapacity(t.buckets)
  BY RestFacts DEF AtRest
<1>2. Width \in {4, 8, 16} /\ t.buckets \in Nat \ {0} /\ Indices(t) = 0..t.buckets - 1
  BY <1>1, Sized DEF Shaped
<1>3. t.ctrl \in [0..t.buckets + Width - 1 -> Bytes] /\ t.buckets \in BucketCounts
      /\ t.slot \in [0..t.buckets - 1 -> Hashes \cup {None}] /\ Record(t)
  BY <1>1 DEF Shaped
<1>4. /\ \A x \in Bytes : Converted(x) = (IF IsFull(x) THEN DELETED ELSE EMPTY)
      /\ DELETED \in Bytes /\ EMPTY \in Bytes /\ ~IsFull(EMPTY) /\ ~IsFull(DELETED) /\ EMPTY # DELETED
      /\ Converted(EMPTY) = EMPTY
  BY ByteFacts DEF Bytes
<1>5. f \in [0..t.buckets + Width - 1 -> Bytes]
  BY <1>3, <1>4
<1>6. \A c \in 0..t.buckets + Width - 1 : f[c] = Converted(t.ctrl[c])
  BY <1>3
<1>7. bytes \in [Indices(t) -> Bytes] /\ \A i \in Indices(t) : bytes[i] = Converted(t.ctrl[i])
  BY <1>2, <1>3, <1>4
<1>8. PreparedForRehash(t) = u
  BY DEF PreparedForRehash
<1> HIDE DEF f, bytes
<1>9. v = [buckets |-> t.buckets, ctrl |-> f, slot |-> t.slot,
           items |-> t.items, growthLeft |-> t.growthLeft]
  BY <1>3 DEF Record
<1> HIDE DEF v
<1>10. \A c \in v.buckets..Width - 1 : v.ctrl[c] = EMPTY
  <2>1. SUFFICES ASSUME NEW c \in t.buckets..Width - 1 PROVE f[c] = EMPTY
    BY <1>9
  <2>2. c \in t.buckets..t.buckets + Width - 1 /\ c \in 0..t.buckets + Width - 1
        /\ t.buckets < Width /\ c < Width
    BY <1>2
  <2>3. t.ctrl[c] = EMPTY
    BY <1>1, <1>2, <2>2 DEF Shaped, Mirrored
  <2> QED BY <1>4, <1>6, <2>2, <2>3
<1>11. /\ Shaped(u) /\ u.buckets = v.buckets /\ u.slot = v.slot
       /\ u.items = v.items /\ u.growthLeft = v.growthLeft
       /\ \A j \in Indices(v) : u.ctrl[j] = bytes[j]
  <2>1. Record(v) /\ v.buckets \in BucketCounts /\ Indices(v) = Indices(t)
        /\ v.ctrl \in [0..v.buckets + Width - 1 -> Bytes]
        /\ v.slot \in [0..v.buckets - 1 -> Hashes \cup {None}]
    BY <1>3, <1>5, <1>9 DEF Record, Indices
  <2> QED BY <1>7, <1>10, <2>1, WithBytesIs
<1> HIDE DEF u
<1>12. /\ Shaped(u) /\ u.buckets = t.buckets /\ u.slot = t.slot /\ Indices(u) = Indices(t)
       /\ u.items = t.items /\ u.growthLeft = t.growthLeft
       /\ \A j \in Indices(t) : u.ctrl[j] = IF IsFull(t.ctrl[j]) THEN DELETED ELSE EMPTY
  <2>1. \A j \in Indices(t) : t.ctrl[j] \in Bytes
    BY <1>1, CountType
  <2>2. Indices(v) = Indices(t) /\ v.buckets = t.buckets /\ v.slot = t.slot
        /\ v.items = t.items /\ v.growthLeft = t.growthLeft
    BY <1>9 DEF Indices
  <2>3. Indices(u) = Indices(t)
    BY <1>11, <2>2 DEF Indices
  <2>4. \A j \in Indices(t) : u.ctrl[j] = IF IsFull(t.ctrl[j]) THEN DELETED ELSE EMPTY
    BY <1>4, <1>7, <1>11, <2>1, <2>2
  <2> QED BY <1>11, <2>2, <2>3, <2>4
<1>13. FullBuckets(u) = {} /\ Tombstones(u) = FullBuckets(t)
       /\ \A j \in Indices(t) : ~IsFull(u.ctrl[j]) /\ (u.ctrl[j] = DELETED <=> IsFull(t.ctrl[j]))
  <2>1. ASSUME NEW j \in Indices(t)
        PROVE  ~IsFull(u.ctrl[j]) /\ (u.ctrl[j] = DELETED <=> IsFull(t.ctrl[j]))
    <3>1. CASE IsFull(t.ctrl[j])
      <4>1. u.ctrl[j] = DELETED
        BY <1>12, <3>1
      <4> QED BY <1>4, <3>1, <4>1
    <3>2. CASE ~IsFull(t.ctrl[j])
      <4>1. u.ctrl[j] = EMPTY
        BY <1>12, <3>2
      <4> QED BY <1>4, <3>2, <4>1
    <3> QED BY <3>1, <3>2
  <2> QED BY <1>12, <2>1 DEF FullBuckets, Tombstones
<1>14. u.items = Cardinality(FullBuckets(u)) + Cardinality(Tombstones(u))
  <2>1. Cardinality(FullBuckets(u)) = 0 /\ Cardinality(FullBuckets(t)) \in Nat
    BY <1>1, <1>13, CountType, FS_EmptySet
  <2> QED BY <1>1, <1>12, <1>13, <2>1
<1>15. \A i \in Indices(u) : u.slot[i] # None <=> IsFull(u.ctrl[i]) \/ u.ctrl[i] = DELETED
  <2>1. \A i \in Indices(t) : t.slot[i] # None <=> IsFull(t.ctrl[i])
    BY DEF AtRest
  <2> QED BY <1>12, <1>13, <2>1
<1>16. InRehash(u)
  BY <1>1, <1>12, <1>13, <1>14, <1>15 DEF InRehash
<1> QED BY <1>8, <1>12, <1>16

\* One element is placed where a search for it comes to first; bucket i is what Stay,
\* Move or Swap leave of it.
LEMMA OnePlaced ==
  ASSUME SoundVariants, build \in Builds, NEW t, InRehash(t), NEW i \in Tombstones(t),
         NEW place \in Indices(t), ~IsFull(t.ctrl[place]), Nearest(t, place, t.slot[i]),
         NEW u, Shaped(u), u.buckets = t.buckets, u.items = t.items, u.growthLeft = t.growthLeft,
         u.ctrl[place] = Tag(t.slot[i]), u.slot[place] = t.slot[i],
         \A j \in Indices(t) \ {i, place} : u.ctrl[j] = t.ctrl[j] /\ u.slot[j] = t.slot[j],
         \/ i = place
         \/ i # place /\ t.ctrl[place] = EMPTY /\ u.ctrl[i] = EMPTY /\ u.slot[i] = None
         \/ i # place /\ t.ctrl[place] = DELETED /\ u.ctrl[i] = DELETED /\ u.slot[i] = t.slot[place]
  PROVE  InRehash(u)
<1> DEFINE hash == t.slot[i]
<1>1. Shaped(t) /\ t.growthLeft \in 0..BucketMaskToCapacity(t.buckets)
      /\ t.items = Cardinality(FullBuckets(t)) + Cardinality(Tombstones(t))
      /\ t.items < BucketMaskToCapacity(t.buckets)
      /\ (\A j \in Indices(t) : t.slot[j] # None <=> IsFull(t.ctrl[j]) \/ t.ctrl[j] = DELETED)
      /\ \A j \in FullBuckets(t) : t.ctrl[j] = Tag(t.slot[j]) /\ Nearest(t, j, t.slot[j])
  BY DEF InRehash
<1>2. i \in Indices(t) /\ hash \in Hashes /\ ~IsFull(t.ctrl[i]) /\ t.ctrl[i] = DELETED
  BY RehashFacts DEF Tombstones
<1>3. /\ IsFull(Tag(hash)) /\ Tag(hash) # DELETED /\ Tag(hash) # EMPTY /\ EMPTY # DELETED
      /\ ~IsFull(EMPTY) /\ ~IsFull(DELETED)
  BY <1>2, ByteFacts DEF Bytes
<1>4. Indices(u) = Indices(t)
  BY DEF Indices
<1>5. FullBuckets(u) = FullBuckets(t) \cup {place} /\ place \notin FullBuckets(t)
  BY <1>2, <1>3, <1>4 DEF FullBuckets
<1>6. Tombstones(u) = Tombstones(t) \ {IF t.ctrl[place] = DELETED THEN place ELSE i}
      /\ (IF t.ctrl[place] = DELETED THEN place ELSE i) \in Tombstones(t)
  <2>1. CASE i = place
    BY <1>2, <1>3, <1>4, <2>1 DEF Tombstones
  <2>2. CASE i # place /\ t.ctrl[place] = EMPTY /\ u.ctrl[i] = EMPTY
    BY <1>2, <1>3, <1>4, <2>2 DEF Tombstones
  <2>3. CASE i # place /\ t.ctrl[place] = DELETED /\ u.ctrl[i] = DELETED
    BY <1>2, <1>3, <1>4, <2>3 DEF Tombstones
  <2> QED BY <2>1, <2>2, <2>3
<1>7. u.items = Cardinality(FullBuckets(u)) + Cardinality(Tombstones(u))
  <2>1. IsFiniteSet(FullBuckets(t)) /\ IsFiniteSet(Tombstones(t))
        /\ Cardinality(FullBuckets(t)) \in Nat /\ Cardinality(Tombstones(t)) \in Nat
    BY <1>1, CountType
  <2> DEFINE gone == IF t.ctrl[place] = DELETED THEN place ELSE i
  <2>2. Tombstones(u) = Tombstones(t) \ {gone} /\ gone \in Tombstones(t)
    BY <1>6
  <2> HIDE DEF gone
  <2>3. Cardinality(Tombstones(t) \ {gone}) = Cardinality(Tombstones(t)) - 1
    BY <2>1, <2>2, OneElement
  <2>4. Cardinality(FullBuckets(t) \cup {place}) = Cardinality(FullBuckets(t)) + 1
    BY <1>5, <2>1, OneElement
  <2> QED BY <1>1, <1>5, <2>1, <2>2, <2>3, <2>4
<1>8. ASSUME NEW j \in Indices(u)
      PROVE  u.slot[j] # None <=> IsFull(u.ctrl[j]) \/ u.ctrl[j] = DELETED
  <2>1. hash # None
    BY <1>2, HashAssumption
  <2>2. CASE j = place
    BY <1>3, <2>1, <2>2
  <2>3. CASE j = i /\ i # place
    BY <1>1, <1>3, <2>3
  <2>4. CASE j # i /\ j # place
    BY <1>1, <1>4, <2>4
  <2> QED BY <2>2, <2>3, <2>4
<1>9. ASSUME NEW j \in FullBuckets(u) PROVE u.ctrl[j] = Tag(u.slot[j]) /\ Nearest(u, j, u.slot[j])
  <2>1. \A x \in Indices(t) : IsFull(t.ctrl[x]) => IsFull(u.ctrl[x])
    BY <1>2, <1>5 DEF FullBuckets
  <2>2. CASE j = place
    <3>1. Nearest(u, j, hash)
      BY <1>1, <1>2, <2>1, <2>2, ReachStays DEF Shaped
    <3> QED BY <2>2, <3>1
  <2>3. CASE j # place
    <3>1. j \in FullBuckets(t) /\ j \in Indices(t) /\ j # i
      BY <1>2, <1>5, <2>3 DEF FullBuckets
    <3>2. u.ctrl[j] = t.ctrl[j] /\ u.slot[j] = t.slot[j] /\ t.slot[j] \in Hashes
      BY <2>3, <3>1, RehashFacts
    <3>3. Nearest(u, j, t.slot[j])
      BY <1>1, <2>1, <3>1, <3>2, ReachStays DEF Shaped
    <3> QED BY <1>1, <3>1, <3>2, <3>3
  <2> QED BY <2>2, <2>3
<1> QED BY <1>1, <1>4, <1>7, <1>8, <1>9 DEF InRehash

\* Where the loop of rehash_in_place is, and the place it finds.
LEMMA NewPlaceIs ==
  ASSUME SoundVariants, build \in Builds, NEW t, InRehash(t), Tombstones(t) # {}
  PROVE  LET i == Min(Tombstones(t))
             place == FindInsertSlot(t, t.slot[i])
         IN /\ i \in Tombstones(t) /\ i \in Indices(t) /\ t.slot[i] \in Hashes
            /\ t.ctrl[i] = DELETED /\ ~IsFull(t.ctrl[i])
            /\ place \in Indices(t) /\ Nearest(t, place, t.slot[i])
            /\ t.ctrl[place] = EMPTY \/ t.ctrl[place] = DELETED
            /\ ~IsFull(t.ctrl[place])
<1> DEFINE i == Min(Tombstones(t))
           place == FindInsertSlot(t, t.slot[i])
<1>1. Shaped(t) /\ Indices(t) = 0..t.buckets - 1
  BY RehashFacts, Sized DEF Shaped
<1>2. i \in Tombstones(t)
  <2>1. Tombstones(t) \subseteq Nat
    BY <1>1 DEF Tombstones
  <2> QED BY <2>1, MinIs
<1> HIDE DEF i
<1>3. i \in Indices(t) /\ t.slot[i] \in Hashes /\ ~IsFull(t.ctrl[i]) /\ t.ctrl[i] = DELETED
  BY <1>2, RehashFacts DEF Tombstones
<1>4. place \in Indices(t) /\ ~IsFull(t.ctrl[place]) /\ Nearest(t, place, t.slot[i])
  BY <1>1, <1>3, FindsSlot
<1>5. t.ctrl[place] = EMPTY \/ t.ctrl[place] = DELETED
  <2> HIDE DEF place
  <2> QED BY <1>1, <1>4, CountType
<1> QED BY <1>2, <1>3, <1>4, <1>5 DEF i

LEMMA StayPlaces ==
  ASSUME SoundVariants, build \in Builds, NEW t, InRehash(t), NEW i \in Tombstones(t),
         NEW place \in Indices(t), Nearest(t, place, t.slot[i]),
         InSameGroup(t, i, place, t.slot[i])
  PROVE  LET u == SetCtrl(t, i, Tag(t.slot[i]))
         IN InRehash(u) /\ u.buckets = t.buckets /\ u.items = t.items /\ u.slot = t.slot
<1> DEFINE hash == t.slot[i]
           byte == Tag(hash)
           u == SetCtrl(t, i, byte)
<1>1. Shaped(t) /\ i \in Indices(t) /\ hash \in Hashes /\ ~IsFull(t.ctrl[i])
  BY RehashFacts
<1>2. byte \in Bytes
  BY <1>1, ByteFacts DEF Bytes
<1> HIDE DEF byte
<1>3. /\ Shaped(u) /\ u.buckets = t.buckets /\ u.slot = t.slot
      /\ u.items = t.items /\ u.growthLeft = t.growthLeft
      /\ \A j \in Indices(t) : u.ctrl[j] = IF j = i THEN byte ELSE t.ctrl[j]
  BY <1>1, <1>2, SetCtrlIs
<1> HIDE DEF u
<1>4. Nearest(t, i, hash)
  <2>1. PICK n \in ProbesIn(t.buckets) :
          /\ place \in WindowIn(t.buckets, hash, n)
          /\ \A m \in 0..n - 1 : \A j \in WindowIn(t.buckets, hash, m) : IsFull(t.ctrl[j])
    BY DEF Nearest
  <2>2. n \in Nat
    BY <1>1, <2>1, ProbeFacts DEF Shaped
  <2>3. InSameGroup(t, place, i, hash)
    BY DEF InSameGroup
  <2>4. i \in WindowIn(t.buckets, hash, n)
    BY <1>1, <2>1, <2>2, <2>3, SameGroup DEF Shaped
  <2> QED BY <2>1, <2>4 DEF Nearest
<1>5. u.ctrl[i] = Tag(hash) /\ u.slot[i] = hash
      /\ \A j \in Indices(t) \ {i, i} : u.ctrl[j] = t.ctrl[j] /\ u.slot[j] = t.slot[j]
  BY <1>1, <1>3 DEF byte
<1>6. InRehash(u)
  BY <1>1, <1>3, <1>4, <1>5, OnePlaced
<1> QED BY <1>3, <1>6 DEF u, byte

LEMMA MovePlaces ==
  ASSUME SoundVariants, build \in Builds, NEW t, InRehash(t), NEW i \in Tombstones(t),
         NEW place \in Indices(t), Nearest(t, place, t.slot[i]), t.ctrl[place] = EMPTY
  PROVE  LET u == [SetCtrl(Placed(t, place, t.slot[i]), i, EMPTY) EXCEPT !.slot[i] = None]
         IN /\ InRehash(u) /\ u.buckets = t.buckets /\ u.items = t.items
            /\ \A j \in Indices(t) :
                 u.slot[j] = IF j = i THEN None ELSE IF j = place THEN t.slot[i] ELSE t.slot[j]
<1> DEFINE hash == t.slot[i]
           v == Placed(t, place, hash)
           w == SetCtrl(v, i, EMPTY)
           u == [w EXCEPT !.slot[i] = None]
<1>1. Shaped(t) /\ i \in Indices(t) /\ hash \in Hashes /\ ~IsFull(t.ctrl[i])
      /\ EMPTY \in Bytes /\ ~IsFull(EMPTY)
  BY RehashFacts, ByteFacts DEF Bytes
<1>2. i # place
  BY ByteFacts DEF Tombstones
<1> HIDE DEF hash
<1>3. /\ Shaped(v) /\ v.buckets = t.buckets /\ v.items = t.items /\ v.growthLeft = t.growthLeft
      /\ \A j \in Indices(t) : v.ctrl[j] = IF j = place THEN Tag(hash) ELSE t.ctrl[j]
      /\ \A j \in Indices(t) : v.slot[j] = IF j = place THEN hash ELSE t.slot[j]
  BY <1>1, PlacedIs
<1> HIDE DEF v
<1>4. Indices(v) = Indices(t)
  BY <1>3 DEF Indices
<1>5. /\ Shaped(w) /\ w.buckets = v.buckets /\ w.slot = v.slot
      /\ w.items = v.items /\ w.growthLeft = v.growthLeft
      /\ \A j \in Indices(v) : w.ctrl[j] = IF j = i THEN EMPTY ELSE v.ctrl[j]
  BY <1>1, <1>3, <1>4, SetCtrlIs
<1> HIDE DEF w
<1>6. Indices(w) = Indices(t) /\ None \in Hashes \cup {None}
  BY <1>3, <1>5 DEF Indices
<1>7. /\ Shaped(u) /\ u.buckets = w.buckets /\ u.ctrl = w.ctrl
      /\ u.items = w.items /\ u.growthLeft = w.growthLeft
      /\ \A j \in Indices(w) : u.slot[j] = IF j = i THEN None ELSE w.slot[j]
  BY <1>1, <1>5, <1>6, WithElement
<1> HIDE DEF u
<1>8. /\ u.buckets = t.buckets /\ u.items = t.items /\ u.growthLeft = t.growthLeft
      /\ u.ctrl[place] = Tag(hash) /\ u.slot[place] = hash
      /\ u.ctrl[i] = EMPTY /\ u.slot[i] = None
      /\ \A j \in Indices(t) \ {i, place} : u.ctrl[j] = t.ctrl[j] /\ u.slot[j] = t.slot[j]
  BY <1>1, <1>2, <1>3, <1>4, <1>5, <1>6, <1>7
<1>9. InRehash(u)
  BY <1>1, <1>2, <1>7, <1>8, OnePlaced DEF hash
<1> QED BY <1>8, <1>9 DEF u, w, v, hash

LEMMA SwapPlaces ==
  ASSUME SoundVariants, build \in Builds, NEW t, InRehash(t), NEW i \in Tombstones(t),
         NEW place \in Indices(t), Nearest(t, place, t.slot[i]), t.ctrl[place] = DELETED,
         i # place
  PROVE  LET u == [Placed(t, place, t.slot[i]) EXCEPT !.slot[i] = t.slot[place]]
         IN /\ InRehash(u) /\ u.buckets = t.buckets /\ u.items = t.items
            /\ \A j \in Indices(t) :
                 u.slot[j] = IF j = i THEN t.slot[place] ELSE IF j = place THEN t.slot[i] ELSE t.slot[j]
<1> DEFINE hash == t.slot[i]
           other == t.slot[place]
           v == Placed(t, place, hash)
           u == [v EXCEPT !.slot[i] = other]
<1>1. Shaped(t) /\ i \in Indices(t) /\ hash \in Hashes /\ t.ctrl[i] = DELETED
      /\ place \in Tombstones(t) /\ other \in Hashes \cup {None} /\ ~IsFull(t.ctrl[place])
  <2>1. place \in Tombstones(t)
    BY DEF Tombstones
  <2> QED BY <2>1, RehashFacts DEF Tombstones
<1> HIDE DEF hash, other
<1>2. /\ Shaped(v) /\ v.buckets = t.buckets /\ v.items = t.items /\ v.growthLeft = t.growthLeft
      /\ \A j \in Indices(t) : v.ctrl[j] = IF j = place THEN Tag(hash) ELSE t.ctrl[j]
      /\ \A j \in Indices(t) : v.slot[j] = IF j = place THEN hash ELSE t.slot[j]
  BY <1>1, PlacedIs
<1> HIDE DEF v
<1>3. Indices(v) = Indices(t)
  BY <1>2 DEF Indices
<1>4. /\ Shaped(u) /\ u.buckets = v.buckets /\ u.ctrl = v.ctrl
      /\ u.items = v.items /\ u.growthLeft = v.growthLeft
      /\ \A j \in Indices(v) : u.slot[j] = IF j = i THEN other ELSE v.slot[j]
  BY <1>1, <1>2, <1>3, WithElement
<1> HIDE DEF u
<1>5. /\ u.buckets = t.buckets /\ u.items = t.items /\ u.growthLeft = t.growthLeft
      /\ u.ctrl[place] = Tag(hash) /\ u.slot[place] = hash
      /\ u.ctrl[i] = DELETED /\ u.slot[i] = other
      /\ \A j \in Indices(t) \ {i, place} : u.ctrl[j] = t.ctrl[j] /\ u.slot[j] = t.slot[j]
  BY <1>1, <1>2, <1>3, <1>4
<1>6. InRehash(u)
  BY <1>1, <1>4, <1>5, OnePlaced DEF hash, other
<1> QED BY <1>5, <1>6 DEF u, v, hash, other

\* The end of a rehash: growth_left is what the elements leave.
LEMMA RecountedIs ==
  ASSUME NEW t, Shaped(t)
  PROVE  LET u == Recounted(t)
         IN /\ Shaped(u) /\ u.buckets = t.buckets /\ u.ctrl = t.ctrl /\ u.slot = t.slot
            /\ u.items = t.items /\ u.growthLeft = BucketMaskToCapacity(t.buckets) - t.items
<1> DEFINE items == t.items
           left == BucketMaskToCapacity(t.buckets) - t.items
           u == Counts(t, items, left)
<1>1. Recounted(t) = u
  BY DEF Recounted, Counts, Shaped, Record
<1> HIDE DEF items, left
<1>2. /\ Shaped(u) /\ u.buckets = t.buckets /\ u.ctrl = t.ctrl /\ u.slot = t.slot
      /\ u.items = items /\ u.growthLeft = left
  BY WithCounts
<1> QED BY <1>1, <1>2 DEF items, left

LEMMA EndKeeps ==
  ASSUME SoundVariants, build \in Builds, NEW t, InRehash(t), Tombstones(t) = {}
  PROVE  LET u == Recounted(t)
         IN /\ AtRest(u) /\ u.buckets = t.buckets /\ u.items = t.items /\ u.growthLeft > 0
            /\ u.slot = t.slot
<1> DEFINE u == Recounted(t)
<1>1. Shaped(t) /\ t.items \in Nat /\ t.items < BucketMaskToCapacity(t.buckets)
      /\ t.items = Cardinality(FullBuckets(t)) + Cardinality(Tombstones(t))
      /\ Cardinality(FullBuckets(t)) \in Nat
  BY RehashFacts, CountType DEF InRehash
<1>2. /\ Shaped(u) /\ u.buckets = t.buckets /\ u.ctrl = t.ctrl /\ u.slot = t.slot
      /\ u.items = t.items /\ u.growthLeft = BucketMaskToCapacity(t.buckets) - t.items
  BY <1>1, RecountedIs
<1> HIDE DEF u
<1>3. Cardinality(Tombstones(t)) = 0
  BY FS_EmptySet
<1>4. Elements(t)
  <2>1. \A i \in Indices(t) : t.slot[i] # None <=> IsFull(t.ctrl[i])
    BY DEF InRehash, Tombstones
  <2>2. \A i \in FullBuckets(t) : t.ctrl[i] = Tag(t.slot[i]) /\ Reached(t, i, t.slot[i])
    BY <1>1, NearestIsReached DEF InRehash
  <2> QED BY <2>1, <2>2 DEF Elements
<1>5. Indices(u) = Indices(t) /\ FullBuckets(u) = FullBuckets(t) /\ Tombstones(u) = {} /\ Elements(u)
  BY <1>2, <1>4, SameElements
<1>6. BucketMaskToCapacity(t.buckets) \in Nat
  BY <1>1, Sized DEF Shaped
<1>7. u.growthLeft \in Nat /\ u.growthLeft > 0 /\ u.items = Cardinality(FullBuckets(u))
      /\ u.growthLeft + u.items + Cardinality(Tombstones(u)) = BucketMaskToCapacity(u.buckets)
  BY <1>1, <1>2, <1>3, <1>5, <1>6
<1>8. AtRest(u)
  BY <1>2, <1>5, <1>7 DEF AtRest, Elements
<1> QED BY <1>2, <1>7, <1>8 DEF u

\* The guard of a hash function that panics gives up what is not placed, where elements
\* have a drop function.
LEMMA AbandonKeeps ==
  ASSUME SoundVariants, build \in Builds, build.needsDrop, NEW t, InRehash(t)
  PROVE  LET u == Recounted(Abandoned(t))
         IN /\ AtRest(u) /\ u.buckets = t.buckets /\ u.items \in 0..t.items
            /\ \A j \in Indices(t) : u.slot[j] \in {t.slot[j], None}
<1> DEFINE lost == Tombstones(t)
           f == [i \in Indices(t) |-> IF i \in lost THEN None ELSE t.slot[i]]
           v == [t EXCEPT !.slot = f]
           bytes == [i \in Indices(t) |-> IF i \in lost THEN EMPTY ELSE t.ctrl[i]]
           w == WithBytes(v, bytes)
           left == t.items - Cardinality(lost)
           x == Counts(w, left, w.growthLeft)
           u == Recounted(x)
<1>1. /\ Shaped(t) /\ t.items \in Nat /\ t.items < BucketMaskToCapacity(t.buckets)
      /\ t.items = Cardinality(FullBuckets(t)) + Cardinality(lost)
      /\ Cardinality(FullBuckets(t)) \in Nat /\ Cardinality(lost) \in Nat
      /\ FullBuckets(t) \cap lost = {}
  BY RehashFacts, CountType DEF InRehash
<1>2. Width \in {4, 8, 16} /\ t.buckets \in Nat \ {0} /\ Indices(t) = 0..t.buckets - 1
      /\ BucketMaskToCapacity(t.buckets) \in Nat
  BY <1>1, Sized DEF Shaped
<1>3. t.ctrl \in [0..t.buckets + Width - 1 -> Bytes] /\ t.buckets \in BucketCounts
      /\ t.slot \in [Indices(t) -> Hashes \cup {None}] /\ Record(t)
  BY <1>1, <1>2 DEF Shaped
<1>4. EMPTY \in Bytes /\ ~IsFull(EMPTY) /\ ~IsFull(DELETED) /\ EMPTY # DELETED
  BY ByteFacts DEF Bytes
<1>5. f \in [Indices(t) -> Hashes \cup {None}]
      /\ \A i \in Indices(t) : f[i] = IF i \in lost THEN None ELSE t.slot[i]
  BY <1>3
<1>6. bytes \in [Indices(t) -> Bytes]
      /\ \A i \in Indices(t) : bytes[i] = IF i \in lost THEN EMPTY ELSE t.ctrl[i]
  BY <1>1, <1>4, CountType
<1>7. Abandoned(t) = [w EXCEPT !.items = @ - Cardinality(lost)]
  BY DEF Abandoned
<1> HIDE DEF f, bytes, lost
<1>8. v = [buckets |-> t.buckets, ctrl |-> t.ctrl, slot |-> f,
           items |-> t.items, growthLeft |-> t.growthLeft]
  BY <1>3 DEF Record
<1> HIDE DEF v
<1>9. /\ Shaped(w) /\ w.buckets = v.buckets /\ w.slot = v.slot
      /\ w.items = v.items /\ w.growthLeft = v.growthLeft
      /\ \A j \in Indices(v) : w.ctrl[j] = bytes[j]
  <2>1. Record(v) /\ v.buckets \in BucketCounts /\ Indices(v) = Indices(t)
        /\ v.ctrl \in [0..v.buckets + Width - 1 -> Bytes]
        /\ v.slot \in [0..v.buckets - 1 -> Hashes \cup {None}]
    BY <1>2, <1>3, <1>5, <1>8 DEF Record, Indices
  <2>2. \A c \in v.buckets..Width - 1 : v.ctrl[c] = EMPTY
    <3>1. SUFFICES ASSUME NEW c \in t.buckets..Width - 1 PROVE t.ctrl[c] = EMPTY
      BY <1>8
    <3>2. c \in t.buckets..t.buckets + Width - 1 /\ t.buckets < Width /\ c < Width
      BY <1>2
    <3> QED BY <1>1, <1>2, <3>2 DEF Shaped, Mirrored
  <2> QED BY <1>6, <2>1, <2>2, WithBytesIs
<1>10. Abandoned(t) = x
  <2>1. [w EXCEPT !.items = @ - Cardinality(lost)] = [w EXCEPT !.items = w.items - Cardinality(lost)]
    BY <1>9 DEF Shaped, Record
  <2>2. w.items = t.items
    BY <1>8, <1>9
  <2>3. Record(w)
    BY <1>9 DEF Shaped
  <2> HIDE DEF w
  <2>4. [w EXCEPT !.items = left] = [w EXCEPT !.items = left, !.growthLeft = w.growthLeft]
    <3> HIDE DEF left
    <3> QED BY <2>3 DEF Record
  <2> QED BY <1>7, <2>1, <2>2, <2>4 DEF Counts
<1>11. /\ w.buckets = t.buckets /\ w.items = t.items /\ Indices(w) = Indices(t) /\ w.slot = f
       /\ \A j \in Indices(t) : w.ctrl[j] = bytes[j]
  BY <1>8, <1>9 DEF Indices
<1> DEFINE growth == w.growthLeft
<1> HIDE DEF w, left, growth
<1>12. /\ Shaped(x) /\ x.buckets = w.buckets /\ x.ctrl = w.ctrl /\ x.slot = w.slot /\ x.items = left
  <2>1. LET y == Counts(w, left, growth)
        IN Shaped(y) /\ y.buckets = w.buckets /\ y.ctrl = w.ctrl /\ y.slot = w.slot /\ y.items = left
    BY <1>9, WithCounts
  <2> QED BY <2>1 DEF growth
<1> HIDE DEF x
<1>13. /\ Shaped(u) /\ u.buckets = x.buckets /\ u.ctrl = x.ctrl /\ u.slot = x.slot
       /\ u.items = x.items /\ u.growthLeft = BucketMaskToCapacity(x.buckets) - x.items
  BY <1>12, RecountedIs
<1> HIDE DEF u
<1>14. /\ u.buckets = t.buckets /\ Indices(u) = Indices(t) /\ u.items = left
       /\ u.growthLeft = BucketMaskToCapacity(t.buckets) - left
       /\ \A j \in Indices(t) : u.ctrl[j] = IF j \in lost THEN EMPTY ELSE t.ctrl[j]
       /\ \A j \in Indices(t) : u.slot[j] = IF j \in lost THEN None ELSE t.slot[j]
  BY <1>5, <1>6, <1>11, <1>12, <1>13 DEF Indices
<1>15. ASSUME NEW j \in Indices(t)
       PROVE  /\ IsFull(u.ctrl[j]) <=> IsFull(t.ctrl[j])
              /\ u.ctrl[j] # DELETED
              /\ u.slot[j] # None <=> IsFull(t.ctrl[j])
              /\ IsFull(t.ctrl[j]) => u.ctrl[j] = t.ctrl[j] /\ u.slot[j] = t.slot[j]
  <2>1. t.slot[j] # None <=> IsFull(t.ctrl[j]) \/ t.ctrl[j] = DELETED
    BY DEF InRehash
  <2>2. CASE j \in lost
    <3>1. u.ctrl[j] = EMPTY /\ u.slot[j] = None /\ t.ctrl[j] = DELETED
      BY <1>14, <2>2 DEF lost, Tombstones
    <3> QED BY <1>4, <3>1
  <2>3. CASE j \notin lost
    <3>1. u.ctrl[j] = t.ctrl[j] /\ u.slot[j] = t.slot[j] /\ t.ctrl[j] # DELETED
      BY <1>14, <2>3 DEF lost, Tombstones
    <3> QED BY <2>1, <3>1
  <2> QED BY <2>2, <2>3
<1>16. FullBuckets(u) = FullBuckets(t) /\ Tombstones(u) = {}
  BY <1>14, <1>15 DEF FullBuckets, Tombstones
<1>17. Cardinality(Tombstones(u)) = 0 /\ left = Cardinality(FullBuckets(t)) /\ left \in 0..t.items
  BY <1>1, <1>16, FS_EmptySet DEF left
<1>18. ASSUME NEW j \in FullBuckets(u) PROVE u.ctrl[j] = Tag(u.slot[j]) /\ Reached(u, j, u.slot[j])
  <2>1. j \in FullBuckets(t) /\ j \in Indices(t) /\ IsFull(t.ctrl[j])
    BY <1>16 DEF FullBuckets
  <2>2. u.ctrl[j] = t.ctrl[j] /\ u.slot[j] = t.slot[j] /\ t.slot[j] \in Hashes
    BY <1>15, <2>1, RehashFacts
  <2>3. t.ctrl[j] = Tag(t.slot[j]) /\ Nearest(t, j, t.slot[j])
    BY <2>1 DEF InRehash
  <2>4. \A y \in Indices(t) : IsFull(t.ctrl[y]) => IsFull(u.ctrl[y])
    BY <1>15
  <2>5. Nearest(u, j, t.slot[j])
    BY <1>1, <1>14, <2>2, <2>3, <2>4, ReachStays DEF Shaped
  <2>6. Reached(u, j, t.slot[j])
    BY <1>13, <2>5, NearestIsReached
  <2> QED BY <2>2, <2>3, <2>6
<1>19. u.growthLeft \in Nat
       /\ u.growthLeft + u.items + Cardinality(Tombstones(u)) = BucketMaskToCapacity(u.buckets)
  BY <1>1, <1>2, <1>14, <1>17
<1>20. \A j \in Indices(u) : u.slot[j] # None <=> IsFull(u.ctrl[j])
  BY <1>14, <1>15
<1>21. AtRest(u)
  BY <1>13, <1>14, <1>16, <1>17, <1>18, <1>19, <1>20 DEF AtRest
<1> QED BY <1>10, <1>14, <1>17, <1>21 DEF u

------------------------------------------------------------------------------
(* The variant never changes *)

LEMMA SameEncoding ==
  ASSUME build' = build
  PROVE  /\ Width' = Width /\ EMPTY' = EMPTY /\ DELETED' = DELETED /\ Offsets' = Offsets
         /\ \A x : IsFull(x)' <=> IsFull(x)
         /\ \A hash : Tag(hash)' = Tag(hash)
BY DEF Width, EMPTY, DELETED, IsFull, Tag, Offsets

LEMMA SameWindows ==
  ASSUME build' = build
  PROVE  /\ \A b : ProbesIn(b)' = ProbesIn(b)
         /\ \A b, hash, n : WindowIn(b, hash, n)' = WindowIn(b, hash, n)
<1>1. \A hash, n : Stride(hash, n)' = Stride(hash, n)
  BY SameEncoding DEF Stride
<1>2. \A b, hash, n : PositionIn(b, hash, n)' = PositionIn(b, hash, n)
  BY <1>1, SameEncoding DEF PositionIn
<1> QED BY <1>2, SameEncoding DEF WindowIn, ProbesIn

LEMMA SameShape ==
  ASSUME build' = build, NEW t
  PROVE  /\ Shaped(t)' <=> Shaped(t)
         /\ FullBuckets(t)' = FullBuckets(t) /\ Tombstones(t)' = Tombstones(t)
         /\ \A i, hash : Reached(t, i, hash)' <=> Reached(t, i, hash)
         /\ \A i, hash : Nearest(t, i, hash)' <=> Nearest(t, i, hash)
<1>1. Mirrored(t.buckets, t.ctrl)' <=> Mirrored(t.buckets, t.ctrl)
  BY SameEncoding DEF Mirrored
<1>2. Shaped(t)' <=> Shaped(t)
  BY <1>1, SameEncoding DEF Shaped
<1>3. FullBuckets(t)' = FullBuckets(t) /\ Tombstones(t)' = Tombstones(t)
  BY SameEncoding DEF FullBuckets, Tombstones
<1>4. \A i, hash : Reached(t, i, hash)' <=> Reached(t, i, hash)
  BY SameEncoding, SameWindows DEF Reached
<1>5. \A i, hash : Nearest(t, i, hash)' <=> Nearest(t, i, hash)
  BY SameEncoding, SameWindows DEF Nearest
<1> QED BY <1>2, <1>3, <1>4, <1>5

LEMMA SameRest ==
  ASSUME build' = build, NEW t
  PROVE  (AtRest(t)' <=> AtRest(t)) /\ (InRehash(t)' <=> InRehash(t))
<1>1. AtRest(t)' <=> AtRest(t)
  BY SameEncoding, SameShape DEF AtRest
<1>2. InRehash(t)' <=> InRehash(t)
  BY SameEncoding, SameShape DEF InRehash
<1> QED BY <1>1, <1>2

------------------------------------------------------------------------------
(* The inductive invariant of the table *)

Bounded(t) == t.buckets <= MaxBuckets /\ t.items <= MaxItems

RawInv ==
  /\ build \in Builds
  /\ Bounded(table)
  /\ rehashing \in BOOLEAN
  /\ pending \in Hashes \cup {None}
  /\ IF rehashing THEN InRehash(table) ELSE AtRest(table)
  /\ pending # None => rehashing /\ table.items < MaxItems

LEMMA RestsAfter ==
  ASSUME build \in Builds, build' = build, rehashing' = FALSE, pending' = None,
         NEW t, AtRest(t), Bounded(t), table' = t
  PROVE  RawInv'
<1>1. AtRest(table)'
  BY SameRest
<1>2. Bounded(table)'
  BY DEF Bounded
<1> QED BY <1>1, <1>2 DEF RawInv

LEMMA RehashesAfter ==
  ASSUME build \in Builds, build' = build, rehashing' = TRUE, pending' \in Hashes \cup {None},
         NEW t, InRehash(t), Bounded(t), table' = t,
         pending' # None => t.items < MaxItems
  PROVE  RawInv'
<1>1. InRehash(table)'
  BY SameRest
<1>2. Bounded(table)'
  BY DEF Bounded
<1> QED BY <1>1, <1>2 DEF RawInv

LEMMA SingletonRests ==
  ASSUME SoundVariants, build \in Builds
  PROVE  AtRest(Singleton) /\ Bounded(Singleton) /\ FullBuckets(Singleton) = {} /\ Singleton.items = 0
<1>1. 1 \in BucketCounts
  BY DEF BucketCounts
<1>2. AtRest(Singleton) /\ Singleton.buckets = 1 /\ Singleton.items = 0 /\ FullBuckets(Singleton) = {}
  BY <1>1, EmptyTableRests DEF Singleton
<1> QED BY <1>2, BoundAssumption DEF Bounded

LEMMA RawStart == ASSUME SoundVariants, Init PROVE RawInv
<1>1. build \in Builds /\ table = Singleton /\ ~rehashing /\ pending = None /\ rehashing \in BOOLEAN
  BY DEF Init
<1> QED BY <1>1, SingletonRests DEF RawInv

\* A call that leaves the table at rest.
LEMMA BecomesKeeps ==
  ASSUME SoundVariants, RawInv, NEW t, AtRest(t), Bounded(t), Becomes(t)
  PROVE  RawInv'
<1>1. build \in Builds /\ rehashing = FALSE /\ pending = None
  BY DEF RawInv, Becomes
<1>2. build' = build /\ rehashing' = rehashing /\ pending' = pending /\ table' = t
  BY DEF Becomes
<1> QED BY <1>1, <1>2, RestsAfter

LEMMA BeginRehashKeeps ==
  ASSUME SoundVariants, RawInv, NEW hash \in Hashes \cup {None}, BeginRehash(hash),
         hash # None => table.items < MaxItems,
         table.items < BucketMaskToCapacity(table.buckets)
  PROVE  RawInv'
<1> DEFINE u == PreparedForRehash(table)
<1>1. build \in Builds /\ AtRest(table) /\ Bounded(table)
  BY DEF RawInv, BeginRehash
<1>2. InRehash(u) /\ u.buckets = table.buckets /\ u.items = table.items
  BY <1>1, PrepareKeeps
<1>3. build' = build /\ rehashing' = TRUE /\ pending' = hash /\ table' = u
  BY DEF BeginRehash
<1> HIDE DEF u
<1>4. Bounded(u)
  BY <1>1, <1>2 DEF Bounded
<1> QED BY <1>1, <1>2, <1>3, <1>4, RehashesAfter

\* What holds before a call on a table at rest.
LEMMA BeforeCall ==
  ASSUME SoundVariants, RawInv, ~rehashing
  PROVE  /\ build \in Builds /\ AtRest(table) /\ Bounded(table) /\ pending = None
         /\ table.items \in Nat /\ table.items \in 0..MaxItems
         /\ table.growthLeft \in Nat
         /\ BucketMaskToCapacity(table.buckets) \in Nat
         /\ table.buckets \in BucketCounts /\ table.buckets <= MaxBuckets
         /\ MaxItems \in Nat /\ MaxReserve \in Nat
<1>1. build \in Builds /\ AtRest(table) /\ Bounded(table) /\ pending = None
  BY DEF RawInv
<1>2. MaxItems \in Nat /\ MaxReserve \in Nat
  BY BoundAssumption
<1>3. Shaped(table) /\ table.items \in Nat
      /\ table.growthLeft \in 0..BucketMaskToCapacity(table.buckets)
  BY <1>1, RestFacts
<1>4. BucketMaskToCapacity(table.buckets) \in Nat
  <2>1. BucketMaskToCapacity(table.buckets) \in 0..table.buckets - 1 /\ table.buckets \in Nat
    BY <1>1, <1>3, Sized DEF Shaped
  <2> QED BY <2>1
<1> QED BY <1>1, <1>2, <1>3, <1>4 DEF Bounded, Shaped

\* reserve_rehash for a new element, and then the insert.
LEMMA MakeRoomKeeps ==
  ASSUME SoundVariants, RawInv, ~rehashing, NEW hash \in Hashes, table.items < MaxItems,
         \/ /\ ReserveResizes(table, 1)
            /\ Becomes(Inserted(Resized(table, GrownCapacity(table, 1)), hash))
         \/ ReserveRehashes(table, 1) /\ BeginRehash(hash)
  PROVE  RawInv'
<1>1. /\ build \in Builds /\ AtRest(table) /\ Bounded(table) /\ table.items \in Nat
      /\ BucketMaskToCapacity(table.buckets) \in Nat /\ table.buckets <= MaxBuckets
      /\ MaxItems \in Nat /\ MaxReserve \in Nat
  BY BeforeCall
<1>2. CASE /\ ReserveResizes(table, 1)
           /\ Becomes(Inserted(Resized(table, GrownCapacity(table, 1)), hash))
  <2> DEFINE v == Resized(table, GrownCapacity(table, 1))
             u == Inserted(v, hash)
  <2>1. table.items + 1 <= MaxItems + MaxReserve
    BY <1>1
  <2>2. AtRest(v) /\ v.buckets <= MaxBuckets /\ v.items = table.items /\ 1 <= v.growthLeft
    BY <1>1, <1>2, <2>1, GrowKeeps DEF ReserveResizes
  <2> HIDE DEF v
  <2>3. v.growthLeft > 0
    <3>1. v.growthLeft \in Nat
      BY <2>2 DEF AtRest
    <3> QED BY <2>2, <3>1
  <2>4. AtRest(u) /\ u.buckets = v.buckets /\ u.items = v.items + 1
    BY <1>1, <2>2, <2>3, InsertedKeeps
  <2>5. Bounded(u)
    <3> HIDE DEF u
    <3> QED BY <1>1, <2>2, <2>4 DEF Bounded
  <2> QED BY <1>2, <2>4, <2>5, BecomesKeeps DEF v
<1>3. CASE ReserveRehashes(table, 1) /\ BeginRehash(hash)
  <2>1. table.items < BucketMaskToCapacity(table.buckets)
    <3>1. table.items + 1 <= BucketMaskToCapacity(table.buckets) \div 2
      BY <1>3 DEF ReserveRehashes
    <3> QED BY <1>1, <3>1
  <2> QED BY <1>3, <2>1, BeginRehashKeeps
<1> QED BY <1>2, <1>3

LEMMA InsertStep ==
  ASSUME SoundVariants, RawInv, NEW hash \in Hashes, Insert(hash) \/ FindOrInsert(hash)
  PROVE  RawInv'
<1>1. ~rehashing /\ table.items < MaxItems
  BY DEF Insert, FindOrInsert
<1>2. /\ build \in Builds /\ AtRest(table) /\ Bounded(table) /\ table.items \in Nat
      /\ table.growthLeft \in Nat /\ MaxItems \in Nat
  BY <1>1, BeforeCall
<1>3. CASE /\ table.ctrl[FindInsertSlot(table, hash)] = EMPTY => table.growthLeft > 0
           /\ Becomes(Inserted(table, hash))
  <2> DEFINE u == Inserted(table, hash)
  <2>1. AtRest(u) /\ u.buckets = table.buckets /\ u.items = table.items + 1
    BY <1>2, <1>3, InsertedKeeps
  <2>2. Bounded(u)
    <3> HIDE DEF u
    <3> QED BY <1>1, <1>2, <2>1 DEF Bounded
  <2> QED BY <1>3, <2>1, <2>2, BecomesKeeps
<1>4. CASE \/ /\ ReserveResizes(table, 1)
              /\ Becomes(Inserted(Resized(table, GrownCapacity(table, 1)), hash))
           \/ ReserveRehashes(table, 1) /\ BeginRehash(hash)
  BY <1>1, <1>4, MakeRoomKeeps
<1>5. CASE Insert(hash)
  <2>1. \/ /\ ~(table.growthLeft = 0 /\ table.ctrl[FindInsertSlot(table, hash)] = EMPTY)
           /\ Becomes(Inserted(table, hash))
        \/ /\ ReserveResizes(table, 1)
           /\ Becomes(Inserted(Resized(table, GrownCapacity(table, 1)), hash))
        \/ ReserveRehashes(table, 1) /\ BeginRehash(hash)
    BY <1>5 DEF Insert
  <2>2. table.growthLeft # 0 => table.growthLeft > 0
    BY <1>2
  <2> QED BY <1>3, <1>4, <2>1, <2>2
<1>6. CASE FindOrInsert(hash)
  <2>1. \/ table.growthLeft > 0 /\ Becomes(Inserted(table, hash))
        \/ /\ ReserveResizes(table, 1)
           /\ Becomes(Inserted(Resized(table, GrownCapacity(table, 1)), hash))
        \/ ReserveRehashes(table, 1) /\ BeginRehash(hash)
    BY <1>6 DEF FindOrInsert
  <2> QED BY <1>3, <1>4, <2>1
<1> QED BY <1>5, <1>6

LEMMA ReserveStep ==
  ASSUME SoundVariants, RawInv, NEW n \in 0..MaxReserve, Reserve(n)
  PROVE  RawInv'
<1>1. ~rehashing
  BY DEF Reserve, Becomes, BeginRehash
<1>2. /\ build \in Builds /\ AtRest(table) /\ Bounded(table) /\ table.items \in 0..MaxItems
      /\ table.growthLeft \in Nat /\ MaxItems \in Nat /\ MaxReserve \in Nat /\ n \in Nat
      /\ BucketMaskToCapacity(table.buckets) \in Nat /\ table.buckets <= MaxBuckets
  BY <1>1, BeforeCall
<1>3. table.items + n <= MaxItems + MaxReserve
  BY <1>2
<1>4. CASE ReserveResizes(table, n) /\ Becomes(Resized(table, GrownCapacity(table, n)))
  <2> DEFINE u == Resized(table, GrownCapacity(table, n))
  <2>1. AtRest(u) /\ u.buckets <= MaxBuckets /\ u.items = table.items
    BY <1>2, <1>3, <1>4, GrowKeeps DEF ReserveResizes
  <2>2. Bounded(u)
    <3> HIDE DEF u
    <3> QED BY <1>2, <2>1 DEF Bounded
  <2> QED BY <1>4, <2>1, <2>2, BecomesKeeps
<1>5. CASE ReserveRehashes(table, n) /\ BeginRehash(None)
  <2>1. table.items < BucketMaskToCapacity(table.buckets)
    <3>1. table.items + n <= BucketMaskToCapacity(table.buckets) \div 2 /\ n > table.growthLeft
      BY <1>5 DEF ReserveRehashes
    <3> QED BY <1>2, <3>1
  <2>2. None \in Hashes \cup {None}
    OBVIOUS
  <2> QED BY <1>5, <2>1, <2>2, BeginRehashKeeps
<1> QED BY <1>4, <1>5 DEF Reserve

LEMMA ShrinkStep ==
  ASSUME SoundVariants, RawInv, NEW n \in 0..MaxReserve, ShrinkTo(n)
  PROVE  RawInv'
<1> DEFINE size == Max({table.items, n})
           b == CapacityToBuckets(size)
<1>1. ~rehashing
  BY DEF ShrinkTo, Becomes
<1>2. /\ build \in Builds /\ AtRest(table) /\ Bounded(table) /\ table.items \in 0..MaxItems
      /\ table.items \in Nat
      /\ MaxItems \in Nat /\ MaxReserve \in Nat /\ MaxBuckets \in Nat /\ n \in Nat
      /\ table.buckets \in Nat /\ table.buckets <= MaxBuckets
  <2>1. table.buckets \in BucketCounts /\ MaxBuckets \in Nat
    BY <1>1, BeforeCall, BoundAssumption
  <2>2. table.buckets \in Nat
    BY <1>1, <2>1, BeforeCall, Sized
  <2> QED BY <1>1, <2>1, <2>2, BeforeCall
<1>3. size \in Asked /\ table.items <= size
  <2>1. size \in {table.items, n} /\ table.items <= size
    BY <1>2, LargerIs
  <2> HIDE DEF size
  <2> QED BY <1>2, <2>1 DEF Asked
<1>4. CASE Becomes(Singleton)
  BY <1>2, <1>4, SingletonRests, BecomesKeeps
<1>5. b \in BucketCounts
  BY <1>3, EnoughBuckets
<1>6. b \in Nat
  BY <1>5, SizeFacts
<1>7. CASE b < table.buckets /\ table.items = 0 /\ Becomes(WithCapacity(size))
  <2> HIDE DEF size, b
  <2> DEFINE u == EmptyTable(b)
  <2>1. AtRest(u) /\ u.buckets = b /\ u.items = 0
    BY <1>2, <1>5, EmptyTableRests
  <2>2. Bounded(u)
    <3> HIDE DEF u
    <3> QED BY <1>2, <1>6, <1>7, <2>1 DEF Bounded
  <2>3. WithCapacity(size) = u
    BY DEF WithCapacity, b
  <2> HIDE DEF u
  <2> QED BY <1>7, <2>1, <2>2, <2>3, BecomesKeeps
<1>8. CASE b < table.buckets /\ Becomes(Resized(table, size))
  <2> DEFINE u == Resized(table, size)
  <2>1. AtRest(u) /\ u.buckets = b /\ u.items = table.items
    BY <1>2, <1>3, ResizeKeeps
  <2>2. Bounded(u)
    <3> HIDE DEF u, b
    <3> QED BY <1>2, <1>6, <1>8, <2>1 DEF Bounded
  <2> QED BY <1>8, <2>1, <2>2, BecomesKeeps
<1>9. \/ Becomes(Singleton)
      \/ b < table.buckets /\ table.items = 0 /\ Becomes(WithCapacity(size))
      \/ b < table.buckets /\ Becomes(Resized(table, size))
  BY DEF ShrinkTo
<1> QED BY <1>4, <1>7, <1>8, <1>9

LEMMA RemoveStep ==
  ASSUME SoundVariants, RawInv, Remove \/ Clear
  PROVE  RawInv'
<1>1. ~rehashing
  BY DEF Remove, Clear, Becomes
<1>2. /\ build \in Builds /\ AtRest(table) /\ Bounded(table) /\ table.items \in 0..MaxItems
      /\ table.items \in Nat /\ MaxItems \in Nat /\ table.buckets \in BucketCounts
  BY <1>1, BeforeCall
<1>3. CASE Remove
  <2>1. PICK i \in FullBuckets(table) : Becomes(Erased(table, i))
    BY <1>3 DEF Remove
  <2> DEFINE u == Erased(table, i)
  <2>2. AtRest(u) /\ u.buckets = table.buckets /\ u.items = table.items - 1
    BY <1>2, <2>1, EraseKeeps
  <2>3. Bounded(u)
    <3> HIDE DEF u
    <3> QED BY <1>2, <2>2 DEF Bounded
  <2> QED BY <2>1, <2>2, <2>3, BecomesKeeps
<1>4. CASE Clear
  <2> DEFINE u == EmptyTable(table.buckets)
  <2>1. AtRest(u) /\ u.buckets = table.buckets /\ u.items = 0
    BY <1>2, EmptyTableRests
  <2>2. Becomes(u)
    BY <1>4 DEF Clear
  <2> HIDE DEF u
  <2>3. Bounded(u)
    BY <1>2, <2>1 DEF Bounded
  <2> QED BY <2>1, <2>2, <2>3, BecomesKeeps
<1> QED BY <1>3, <1>4

LEMMA PlacingStep ==
  ASSUME SoundVariants, RawInv, Stay \/ Move \/ Swap
  PROVE  RawInv'
<1> DEFINE i == Min(Tombstones(table))
           hash == table.slot[i]
           place == FindInsertSlot(table, hash)
<1>1. rehashing /\ Tombstones(table) # {}
  BY DEF Stay, Move, Swap, Placing
<1>2. build \in Builds /\ InRehash(table) /\ Bounded(table)
      /\ pending \in Hashes \cup {None} /\ (pending # None => table.items < MaxItems)
  BY <1>1 DEF RawInv
<1>3. /\ i \in Tombstones(table) /\ i \in Indices(table) /\ hash \in Hashes
      /\ place \in Indices(table) /\ Nearest(table, place, hash)
      /\ table.ctrl[place] = EMPTY \/ table.ctrl[place] = DELETED
  BY <1>1, <1>2, NewPlaceIs
<1>4. ASSUME NEW u, InRehash(u), u.buckets = table.buckets, u.items = table.items, Placing(u)
      PROVE  RawInv'
  <2>1. table' = u /\ build' = build /\ rehashing' = TRUE /\ pending' = pending
    BY <1>1, <1>4 DEF Placing, RawInv
  <2>2. Bounded(u)
    BY <1>2, <1>4 DEF Bounded
  <2> QED BY <1>2, <1>4, <2>1, <2>2, RehashesAfter
<1>5. i = Unplaced /\ place = NewPlace
  BY DEF Unplaced, NewPlace
<1>6. CASE Stay
  <2> DEFINE u == SetCtrl(table, i, Tag(hash))
  <2>1. Placing(u) /\ InSameGroup(table, i, place, hash)
    BY <1>5, <1>6 DEF Stay
  <2> HIDE DEF i, place
  <2>2. InRehash(u) /\ u.buckets = table.buckets /\ u.items = table.items
    BY <1>2, <1>3, <2>1, StayPlaces
  <2> QED BY <1>4, <2>1, <2>2
<1>7. CASE Move
  <2> DEFINE u == [SetCtrl(Placed(table, place, hash), i, EMPTY) EXCEPT !.slot[i] = None]
  <2>1. Placing(u) /\ table.ctrl[place] = EMPTY
    BY <1>5, <1>7 DEF Move
  <2> HIDE DEF i, place
  <2>2. InRehash(u) /\ u.buckets = table.buckets /\ u.items = table.items
    BY <1>2, <1>3, <2>1, MovePlaces
  <2> QED BY <1>4, <2>1, <2>2
<1>8. CASE Swap
  <2> DEFINE u == [Placed(table, place, hash) EXCEPT !.slot[i] = table.slot[place]]
  <2>1. Placing(u) /\ table.ctrl[place] # EMPTY /\ ~InSameGroup(table, i, place, hash)
    BY <1>5, <1>8 DEF Swap
  <2>2. i # place
    BY <2>1 DEF InSameGroup
  <2> HIDE DEF i, place
  <2>3. InRehash(u) /\ u.buckets = table.buckets /\ u.items = table.items
    BY <1>2, <1>3, <2>1, <2>2, SwapPlaces
  <2> QED BY <1>4, <2>1, <2>3
<1> QED BY <1>6, <1>7, <1>8

LEMMA EndStep ==
  ASSUME SoundVariants, RawInv, EndRehash \/ HasherPanics
  PROVE  RawInv'
<1>1. /\ build \in Builds /\ InRehash(table) /\ Bounded(table)
      /\ pending \in Hashes \cup {None} /\ (pending # None => table.items < MaxItems)
      /\ table.items \in Nat /\ MaxItems \in Nat
  BY RehashFacts, BoundAssumption DEF RawInv, EndRehash, HasherPanics
<1>2. build' = build /\ rehashing' = FALSE /\ pending' = None
  BY DEF EndRehash, HasherPanics
<1>3. ASSUME NEW u, AtRest(u), Bounded(u), table' = u PROVE RawInv'
  BY <1>1, <1>2, <1>3, RestsAfter
<1>4. CASE EndRehash
  <2> DEFINE v == Recounted(table)
             u == Inserted(v, pending)
  <2>1. AtRest(v) /\ v.buckets = table.buckets /\ v.items = table.items /\ v.growthLeft > 0
    BY <1>1, <1>4, EndKeeps DEF EndRehash
  <2>2. table' = IF pending = None THEN v ELSE u
    BY <1>4 DEF EndRehash
  <2> HIDE DEF v
  <2>3. CASE pending = None
    <3>1. Bounded(v)
      BY <1>1, <2>1 DEF Bounded
    <3> QED BY <1>3, <2>1, <2>2, <2>3, <3>1
  <2>4. CASE pending # None
    <3>1. AtRest(u) /\ u.buckets = v.buckets /\ u.items = v.items + 1
      BY <1>1, <2>1, <2>4, InsertedKeeps
    <3>2. Bounded(u)
      <4> HIDE DEF u
      <4> QED BY <1>1, <2>1, <2>4, <3>1 DEF Bounded
    <3> QED BY <1>3, <2>2, <2>4, <3>1, <3>2
  <2> QED BY <2>3, <2>4
<1>5. CASE HasherPanics
  <2> DEFINE u == Recounted(Abandoned(table))
  <2>1. build.needsDrop
    BY <1>1, <1>5, ByteFacts DEF HasherPanics
  <2>2. AtRest(u) /\ u.buckets = table.buckets /\ u.items \in 0..table.items
    BY <1>1, <2>1, AbandonKeeps
  <2>3. table' = u
    BY <1>5 DEF HasherPanics
  <2> HIDE DEF u
  <2>4. Bounded(u)
    BY <1>1, <2>2 DEF Bounded
  <2> QED BY <1>3, <2>2, <2>3, <2>4
<1> QED BY <1>4, <1>5

LEMMA RawStep == ASSUME SoundVariants, RawInv, [Next]_vars PROVE RawInv'
<1>1. CASE UNCHANGED vars
  <2>1. build' = build /\ table' = table /\ rehashing' = rehashing /\ pending' = pending
    BY <1>1 DEF vars
  <2>2. Bounded(table)' /\ (AtRest(table)' <=> AtRest(table)) /\ (InRehash(table)' <=> InRehash(table))
    BY <2>1, SameRest DEF RawInv, Bounded
  <2> QED BY <2>1, <2>2 DEF RawInv
<1>2. CASE Next
  BY <1>2, InsertStep, ReserveStep, ShrinkStep, RemoveStep, PlacingStep, EndStep
     DEF Next, RehashStep
<1> QED BY <1>1, <1>2

------------------------------------------------------------------------------
(* Iterators *)

\* What is left to an iterator over t: the group it has read, all of it below the
\* groups to come, and the full buckets in those.
Remaining(iter, unseen, t) ==
  /\ iter = [group |-> iter.group, next |-> iter.next, items |-> iter.items]
  /\ iter.items = Cardinality(unseen)
  /\ unseen = iter.group \cup {i \in FullBuckets(t) : i >= iter.next}
  /\ unseen \subseteq FullBuckets(t)
  /\ \E m \in Nat \ {0} : iter.next = Width * m
  /\ \A x \in iter.group : x < iter.next

\* A group of bytes that begins at a multiple of the width and does not begin past the
\* last bucket shows exactly the full buckets there.
LEMMA GroupShows ==
  ASSUME SoundVariants, build \in Builds, NEW t, Shaped(t), NEW m \in Nat, Width * m < t.buckets
  PROVE  FullIn(t, Width * m) = {i \in FullBuckets(t) : Width * m <= i /\ i < Width * m + Width}
<1> DEFINE c == Width * m
           b == t.buckets
<1>1. Width \in {4, 8, 16} /\ b \in Nat \ {0} /\ Indices(t) = 0..b - 1 /\ c \in Nat /\ c < b
  BY Sized DEF Shaped
<1>2. (b < Width => b \in {1, 4, 8}) /\ (b >= Width => \E j \in Nat : b = Width * 2 ^ j)
  BY <1>1, SizeFacts DEF Shaped
<1>3. ASSUME NEW k \in Offsets, IsFull(t.ctrl[c + k]) PROVE c + k < b
  <2>1. CASE b < Width
    <3>1. m = 0 /\ c = 0
      BY <1>1, <2>1
    <3>2. SUFFICES ASSUME c + k >= b PROVE FALSE
      BY <1>1 DEF Offsets
    <3>3. c + k \in b..b + Width - 1 /\ c + k < Width /\ ~(b >= Width)
      BY <1>1, <2>1, <3>1, <3>2 DEF Offsets
    <3>4. t.ctrl[c + k] = EMPTY
      BY <3>3 DEF Shaped, Mirrored
    <3>5. ~IsFull(EMPTY)
      BY ByteFacts DEF Bytes
    <3> QED BY <1>3, <3>4, <3>5
  <2>2. CASE b >= Width
    <3>1. PICK j \in Nat : b = Width * 2 ^ j
      BY <1>2, <2>2
    <3> DEFINE q == 2 ^ j
    <3>2. q \in Nat /\ b = Width * q
      BY <3>1, PowerType
    <3> HIDE DEF q
    <3>3. m < q
      BY <1>1, <3>2
    <3>4. m + 1 <= q
      BY <3>2, <3>3
    <3>5. c + Width <= b
      BY <1>1, <3>2, <3>4
    <3> QED BY <1>1, <3>5 DEF Offsets
  <2> QED BY <1>1, <2>1, <2>2
<1>4. ASSUME NEW i \in FullIn(t, c)
      PROVE  i \in FullBuckets(t) /\ c <= i /\ i < c + Width
  <2>1. PICK k \in Offsets : i = c + k /\ IsFull(t.ctrl[c + k])
    BY DEF FullIn
  <2>2. c + k < b
    BY <1>3, <2>1
  <2>3. k \in 0..Width - 1
    BY DEF Offsets
  <2>4. i \in Indices(t) /\ c <= i /\ i < c + Width
    BY <1>1, <2>1, <2>2, <2>3
  <2> QED BY <2>1, <2>4 DEF FullBuckets
<1>5. ASSUME NEW i \in FullBuckets(t), c <= i, i < c + Width
      PROVE  i \in FullIn(t, c)
  <2>1. i \in Indices(t) /\ IsFull(t.ctrl[i])
    BY DEF FullBuckets
  <2>2. i - c \in Offsets /\ c + (i - c) = i
    BY <1>1, <1>5, <2>1 DEF Offsets
  <2> QED BY <2>1, <2>2 DEF FullIn
<1> QED BY <1>4, <1>5

\* The group a bucket is in.
LEMMA GroupOf ==
  ASSUME SoundVariants, build \in Builds, NEW i \in Nat, NEW m \in Nat, i >= Width * m
  PROVE  \E q \in Nat : m <= q /\ Width * q <= i /\ i < Width * q + Width
<1> DEFINE q == i \div Width
<1>1. Width \in {4, 8, 16}
  BY ByteFacts
<1>2. q \in Nat /\ Width * q <= i /\ i < Width * q + Width
  BY <1>1
<1> HIDE DEF q
<1>3. m <= q
  BY <1>1, <1>2
<1> QED BY <1>2, <1>3

LEMMA Starts ==
  ASSUME SoundVariants, build \in Builds, NEW t, AtRest(t)
  PROVE  Remaining(IterOf(t), FullBuckets(t), t)
<1> DEFINE iter == IterOf(t)
<1>1. iter = [group |-> FullIn(t, 0), next |-> Width, items |-> t.items]
  BY DEF IterOf
<1> HIDE DEF iter
<1>2. Shaped(t) /\ t.items = Cardinality(FullBuckets(t))
  BY DEF AtRest
<1>3. Width \in {4, 8, 16} /\ Width * 1 = Width /\ Width * 0 = 0 /\ t.buckets \in Nat \ {0}
      /\ Indices(t) = 0..t.buckets - 1
  BY <1>2, Sized DEF Shaped
<1>4. FullIn(t, 0) = {i \in FullBuckets(t) : 0 <= i /\ i < Width}
  <2>1. FullIn(t, Width * 0)
          = {i \in FullBuckets(t) : Width * 0 <= i /\ i < Width * 0 + Width}
    BY <1>2, <1>3, GroupShows
  <2>2. Width * 0 = 0 /\ 0 + Width = Width
    BY <1>3
  <2> QED BY <2>1, <2>2
<1>5. \A i \in FullBuckets(t) : i \in Nat
  BY <1>3 DEF FullBuckets
<1>6. FullBuckets(t) = FullIn(t, 0) \cup {i \in FullBuckets(t) : i >= Width}
  BY <1>3, <1>4, <1>5
<1> QED BY <1>1, <1>2, <1>3, <1>4, <1>6 DEF Remaining, iter

\* On to the next group with a full bucket: while elements are to come there is one, and
\* no full bucket is skipped.
LEMMA NextGroup ==
  ASSUME SoundVariants, build \in Builds, NEW t, Shaped(t), NEW iter, NEW unseen,
         Remaining(iter, unseen, t), iter.items > 0
  PROVE  LET next == AtGroup(iter, t)
         IN Remaining(next, unseen, t) /\ next.group # {} /\ next.items = iter.items
<1> DEFINE next == AtGroup(iter, t)
           b == t.buckets
<1>1. CASE iter.group # {}
  BY <1>1 DEF AtGroup
<1>2. CASE iter.group = {}
  <2> DEFINE ahead == GroupsAhead(iter, t)
             c == Min(ahead)
             after == {i \in FullBuckets(t) : i >= c + Width}
  <2>1. Width \in {4, 8, 16} /\ b \in Nat \ {0} /\ Indices(t) = 0..b - 1
    BY Sized DEF Shaped
  <2>2. PICK m \in Nat \ {0} : iter.next = Width * m
    BY DEF Remaining
  <2>3. /\ iter = [group |-> iter.group, next |-> iter.next, items |-> iter.items]
        /\ iter.items = Cardinality(unseen)
        /\ unseen = {i \in FullBuckets(t) : i >= iter.next}
        /\ unseen \subseteq FullBuckets(t)
    BY <1>2 DEF Remaining
  <2>4. ASSUME NEW i \in unseen
        PROVE  \E q \in Nat : m <= q /\ Width * q <= i /\ i < Width * q + Width /\ Width * q \in ahead
    <3>1. i \in Nat /\ i < b /\ i \in FullBuckets(t) /\ i >= Width * m
      BY <2>1, <2>2, <2>3 DEF FullBuckets
    <3>2. PICK q \in Nat : m <= q /\ Width * q <= i /\ i < Width * q + Width
      BY <2>2, <3>1, GroupOf
    <3>3. Width * q < b
      BY <2>1, <3>1, <3>2
    <3>4. i \in FullIn(t, Width * q)
      BY <3>1, <3>2, <3>3, GroupShows
    <3>5. (Width * q - Width * m) % Width = 0
      <4>1. Width * q - Width * m = Width * (q - m) + 0 /\ q - m \in Int /\ 0 \in 0..Width - 1
            /\ Width \in Nat \ {0}
        BY <2>1, <2>2, <3>2
      <4> DEFINE d == q - m
      <4>2. d \in Int
        BY <4>1
      <4> HIDE DEF d
      <4>3. (Width * d + 0) % Width = 0
        BY <4>1, <4>2, Remainder
      <4> QED BY <4>1, <4>3 DEF d
    <3>6. Width * q \in iter.next..b
      BY <2>1, <2>2, <3>2, <3>3
    <3>7. Width * q \in ahead
      BY <2>2, <3>4, <3>5, <3>6 DEF GroupsAhead
    <3> QED BY <3>2, <3>7
  <2>5. PICK i0 \in unseen : TRUE
    <3>1. unseen # {}
      BY <2>3, FS_EmptySet
    <3> QED BY <3>1
  <2>6. PICK q0 \in Nat : Width * q0 <= i0 /\ Width * q0 \in ahead
    BY <2>4, <2>5
  <2>7. c \in ahead /\ \A y \in ahead : c <= y
    <3>1. ahead \subseteq Nat /\ ahead # {}
      BY <2>1, <2>2, <2>6 DEF GroupsAhead
    <3> HIDE DEF ahead
    <3> QED BY <3>1, MinIs
  <2>8. c \in iter.next..b /\ (c - iter.next) % Width = 0 /\ FullIn(t, c) # {}
    BY <2>7 DEF GroupsAhead
  <2> HIDE DEF c, ahead
  <2>9. PICK p \in Nat : c = Width * p /\ m <= p
    <3> DEFINE d == c - iter.next
               e == d \div Width
    <3>1. c \in Nat /\ d \in Nat /\ Width \in Nat \ {0}
      BY <2>1, <2>2, <2>8
    <3>2. d % Width = 0
      BY <2>8
    <3>3. c = Width * m + d
      BY <2>1, <2>2, <3>1
    <3> HIDE DEF d
    <3>4. e \in Int /\ d = Width * e + (d % Width)
      BY <3>1, Quotient
    <3> HIDE DEF e
    <3>5. e \in Nat
      BY <2>1, <3>1, <3>2, <3>4
    <3>6. c = Width * (m + e) /\ m + e \in Nat /\ m <= m + e
      BY <2>1, <2>2, <3>2, <3>3, <3>4, <3>5
    <3> QED BY <3>6
  <2>10. i0 < b /\ i0 \in Nat
    BY <2>1, <2>3, <2>5 DEF FullBuckets
  <2>11. Width * p < b
    BY <2>1, <2>6, <2>7, <2>9, <2>10
  <2>12. FullIn(t, c) = {i \in FullBuckets(t) : c <= i /\ i < c + Width}
    BY <2>9, <2>11, GroupShows
  <2>13. ASSUME NEW i \in unseen PROVE i >= c
    <3>1. PICK q \in Nat : Width * q <= i /\ Width * q \in ahead
      BY <2>4
    <3>2. i \in Nat
      BY <2>1, <2>3 DEF FullBuckets
    <3> QED BY <2>1, <2>7, <2>9, <3>1, <3>2
  <2>14. next = [group |-> FullIn(t, c), next |-> c + Width, items |-> iter.items]
    BY <1>2, <2>3 DEF AtGroup, c, ahead
  <2>15. unseen = FullIn(t, c) \cup after
    <3>1. \A i \in FullBuckets(t) : i \in Nat
      BY <2>1 DEF FullBuckets
    <3>2. c \in Nat /\ iter.next \in Nat /\ c >= iter.next
      BY <2>1, <2>2, <2>8
    <3>3. \A i \in FullBuckets(t) : i \in unseen <=> i >= c
      BY <2>3, <2>13, <3>1, <3>2
    <3> QED BY <2>1, <2>3, <2>12, <3>1, <3>2, <3>3
  <2>16. c + Width = Width * (p + 1) /\ p + 1 \in Nat \ {0}
    BY <2>1, <2>9
  <2> HIDE DEF next
  <2>17. Remaining(next, unseen, t)
    <3>1. \A x \in FullIn(t, c) : x < c + Width
      BY <2>12
    <3> QED BY <2>3, <2>14, <2>15, <2>16, <3>1 DEF Remaining
  <2> QED BY <2>8, <2>14, <2>17 DEF next
<1> QED BY <1>1, <1>2

\* next returns the first of the elements to come, and leaves the others.
LEMMA Advances ==
  ASSUME SoundVariants, build \in Builds, NEW t, Shaped(t), NEW iter, NEW unseen,
         Remaining(iter, unseen, t), HasNext(iter, t)
  PROVE  LET i == Yielded(iter, t)
             after == Advanced(iter, t)
         IN /\ i \in unseen /\ i \in FullBuckets(t) /\ i \in Nat /\ \A j \in unseen \ {i} : i < j
            /\ Remaining(after, unseen \ {i}, t) /\ i < after.next
            /\ after.items = iter.items - 1
<1> DEFINE next == AtGroup(iter, t)
           i == Min(next.group)
           after == Advanced(iter, t)
<1>1. iter.items > 0
  BY DEF HasNext
<1>2. Remaining(next, unseen, t) /\ next.group # {} /\ next.items = iter.items
  BY <1>1, NextGroup
<1>3. i = Yielded(iter, t) /\ after = [next EXCEPT !.group = @ \ {Min(@)}, !.items = @ - 1]
  BY DEF Yielded, Advanced
<1> HIDE DEF next
<1>4. /\ next = [group |-> next.group, next |-> next.next, items |-> next.items]
      /\ next.items = Cardinality(unseen)
      /\ unseen = next.group \cup {j \in FullBuckets(t) : j >= next.next}
      /\ unseen \subseteq FullBuckets(t)
      /\ \E m \in Nat \ {0} : next.next = Width * m
      /\ \A x \in next.group : x < next.next
  BY <1>2 DEF Remaining
<1>5. Width \in {4, 8, 16} /\ Indices(t) = 0..t.buckets - 1 /\ t.buckets \in Nat
  BY Sized DEF Shaped
<1>6. next.next \in Nat /\ next.group \subseteq Nat /\ \A j \in FullBuckets(t) : j \in Nat
  BY <1>4, <1>5 DEF FullBuckets
<1>7. i \in next.group /\ \A y \in next.group : i <= y
  BY <1>2, <1>6, MinIs
<1> DEFINE rest == next.group \ {i}
           fewer == next.items - 1
<1>8. after = [group |-> next.group \ {i}, next |-> next.next, items |-> next.items - 1]
  <2>1. after = [next EXCEPT !.group = rest, !.items = fewer]
    BY <1>3, <1>4
  <2> HIDE DEF i, after, rest, fewer
  <2>2. after = [group |-> rest, next |-> next.next, items |-> fewer]
    BY <1>4, <2>1
  <2> QED BY <2>2 DEF rest, fewer
<1> HIDE DEF i, after
<1>9. i \in unseen /\ i \in FullBuckets(t) /\ i \in Nat /\ i < next.next
  BY <1>4, <1>6, <1>7
<1>10. \A j \in unseen \ {i} : i < j
  BY <1>4, <1>6, <1>7, <1>9
<1>11. unseen \ {i} = (next.group \ {i}) \cup {j \in FullBuckets(t) : j >= next.next}
  BY <1>4, <1>6, <1>9
<1>12. Cardinality(unseen \ {i}) = next.items - 1
  <2>1. IsFiniteSet(unseen)
    BY <1>4, CountType, FS_Subset
  <2> QED BY <1>4, <1>9, <2>1, OneElement
<1>13. Remaining(after, unseen \ {i}, t)
  <2> DEFINE left == unseen \ {i}
  <2>1. /\ left = (next.group \ {i}) \cup {j \in FullBuckets(t) : j >= next.next}
        /\ Cardinality(left) = next.items - 1 /\ left \subseteq FullBuckets(t)
    BY <1>4, <1>11, <1>12
  <2> HIDE DEF left
  <2>2. Remaining(after, left, t)
    BY <1>4, <1>8, <2>1 DEF Remaining
  <2> QED BY <2>2 DEF left
<1>14. i < after.next /\ after.items = iter.items - 1
  BY <1>2, <1>8, <1>9
<1> QED BY <1>3, <1>9, <1>10, <1>13, <1>14 DEF after

\* An erase behind the iterator takes nothing from it.
LEMMA ErasedBehind ==
  ASSUME NEW t, NEW u, NEW iter, NEW unseen, NEW i, Remaining(iter, unseen, t),
         FullBuckets(u) = FullBuckets(t) \ {i}, i \notin unseen
  PROVE  Remaining(iter, unseen, u)
<1>1. {j \in FullBuckets(u) : j >= iter.next} = {j \in FullBuckets(t) : j >= iter.next}
  BY DEF Remaining
<1> QED BY <1>1 DEF Remaining

------------------------------------------------------------------------------
(* Elements taken out and put back *)

\* A table at rest is one by what its buckets hold.
LEMMA SameBuckets ==
  ASSUME SoundVariants, build \in Builds, NEW t, AtRest(t), NEW u, Shaped(u),
         u.buckets = t.buckets, u.items = t.items, u.growthLeft = t.growthLeft,
         \A j \in Indices(t) : u.ctrl[j] = t.ctrl[j] /\ u.slot[j] = t.slot[j]
  PROVE  AtRest(u)
<1>1. /\ Shaped(t) /\ t.growthLeft \in Nat /\ t.items = Cardinality(FullBuckets(t))
      /\ t.growthLeft + t.items + Cardinality(Tombstones(t)) = BucketMaskToCapacity(t.buckets)
      /\ (t.buckets < Width => Tombstones(t) = {})
      /\ \A i \in Indices(t) : t.slot[i] # None <=> IsFull(t.ctrl[i])
  BY DEF AtRest
<1>2. Indices(u) = Indices(t) /\ FullBuckets(u) = FullBuckets(t) /\ Tombstones(u) = Tombstones(t)
  BY DEF Indices, FullBuckets, Tombstones
<1>3. ASSUME NEW i \in FullBuckets(u) PROVE u.ctrl[i] = Tag(u.slot[i]) /\ Reached(u, i, u.slot[i])
  <2>1. i \in FullBuckets(t) /\ i \in Indices(t) /\ t.slot[i] \in Hashes
    BY <1>2, RestFacts
  <2>2. t.ctrl[i] = Tag(t.slot[i]) /\ Reached(t, i, t.slot[i])
    BY <2>1 DEF AtRest
  <2>3. Reached(u, i, t.slot[i])
    BY <1>1, <2>1, <2>2, ReachStays DEF Shaped
  <2> QED BY <2>1, <2>2, <2>3
<1> QED BY <1>1, <1>2, <1>3 DEF AtRest

\* What replace_bucket_with makes of the table when the function gives an element back.
Restored(c, t) ==
  [SetCtrl(t, c.index, c.byte) EXCEPT
     !.slot[c.index] = c.hash, !.items = @ + 1, !.growthLeft = c.growthLeft]

LEMMA RestoredIs ==
  ASSUME SoundVariants, build \in Builds, NEW t, AtRest(t), NEW i \in FullBuckets(t), NEW c,
         c.index = i, c.byte = t.ctrl[i], c.hash = t.slot[i], c.growthLeft = t.growthLeft
  PROVE  LET u == Restored(c, Erased(t, i))
         IN AtRest(u) /\ u.buckets = t.buckets /\ u.items = t.items
<1> DEFINE r == Erased(t, i)
           byte == t.ctrl[i]
           hash == t.slot[i]
           v == SetCtrl(r, i, byte)
           w == [v EXCEPT !.slot[i] = hash]
           items == t.items
           left == t.growthLeft
           u == Counts(w, items, left)
<1>1. Shaped(t) /\ t.growthLeft \in Nat /\ i \in Indices(t) /\ byte \in Bytes
      /\ hash \in Hashes \cup {None} /\ t.items \in Nat
  BY RestFacts, CountType DEF AtRest, FullBuckets
<1>2. /\ Shaped(r) /\ r.buckets = t.buckets /\ Indices(r) = Indices(t)
      /\ r.items = t.items - 1
      /\ \A j \in Indices(t) : j # i => r.ctrl[j] = t.ctrl[j] /\ r.slot[j] = t.slot[j]
  BY <1>1, ErasedIs
<1> HIDE DEF r, byte, hash
<1>3. /\ Shaped(v) /\ v.buckets = r.buckets /\ v.slot = r.slot
      /\ v.items = r.items /\ v.growthLeft = r.growthLeft
      /\ \A j \in Indices(r) : v.ctrl[j] = IF j = i THEN byte ELSE r.ctrl[j]
  BY <1>1, <1>2, SetCtrlIs
<1> HIDE DEF v
<1>4. Indices(v) = Indices(t)
  BY <1>2, <1>3 DEF Indices
<1>5. /\ Shaped(w) /\ w.buckets = v.buckets /\ w.ctrl = v.ctrl
      /\ w.items = v.items /\ w.growthLeft = v.growthLeft
      /\ \A j \in Indices(v) : w.slot[j] = IF j = i THEN hash ELSE v.slot[j]
  BY <1>1, <1>3, <1>4, WithElement
<1>6. Restored(c, r) = u
  <2>1. Restored(c, r) = [v EXCEPT !.slot[i] = hash, !.items = @ + 1, !.growthLeft = left]
    BY DEF Restored, v, byte, hash
  <2>2. v.items + 1 = items
    BY <1>1, <1>2, <1>3
  <2>3. [v EXCEPT !.slot[i] = hash, !.items = @ + 1, !.growthLeft = left]
          = [v EXCEPT !.slot[i] = hash, !.items = v.items + 1, !.growthLeft = left]
    BY <1>3 DEF Shaped, Record
  <2> QED BY <2>1, <2>2, <2>3 DEF Counts
<1> HIDE DEF w, items, left
<1>7. /\ Shaped(u) /\ u.buckets = w.buckets /\ u.ctrl = w.ctrl /\ u.slot = w.slot
      /\ u.items = items /\ u.growthLeft = left
  BY <1>5, WithCounts
<1> HIDE DEF u
<1>8. \A j \in Indices(t) : u.ctrl[j] = t.ctrl[j] /\ u.slot[j] = t.slot[j]
  BY <1>2, <1>3, <1>4, <1>5, <1>7 DEF byte, hash
<1>9. u.buckets = t.buckets /\ u.items = t.items /\ u.growthLeft = t.growthLeft
  BY <1>2, <1>3, <1>5, <1>7 DEF items, left
<1>10. AtRest(u)
  BY <1>7, <1>8, <1>9, SameBuckets
<1> QED BY <1>6, <1>9, <1>10 DEF r

\* An entry that was vacated may be filled again.
LEMMA RefilledIs ==
  ASSUME SoundVariants, build \in Builds, NEW t, AtRest(t), NEW i \in FullBuckets(t)
  PROVE  LET u == InsertInSlot(Erased(t, i), i, t.slot[i])
         IN AtRest(u) /\ u.buckets = t.buckets /\ u.items = t.items
<1> DEFINE r == Erased(t, i)
           hash == t.slot[i]
<1>1. hash \in Hashes /\ t.items \in Nat
  BY RestFacts
<1>2. /\ AtRest(r) /\ r.buckets = t.buckets /\ Indices(r) = Indices(t) /\ r.items = t.items - 1
      /\ i \in Indices(t) /\ ~IsFull(r.ctrl[i]) /\ Reached(r, i, hash)
      /\ (r.ctrl[i] = EMPTY => r.growthLeft > 0)
  BY EraseKeeps
<1> DEFINE u == InsertInSlot(r, i, hash)
<1> HIDE DEF r, hash
<1>3. AtRest(u) /\ u.buckets = r.buckets /\ u.items = r.items + 1
  BY <1>1, <1>2, InsertKeeps
<1> HIDE DEF u
<1>4. u.buckets = t.buckets /\ u.items = t.items
  BY <1>1, <1>2, <1>3
<1> QED BY <1>3, <1>4 DEF u, r, hash

------------------------------------------------------------------------------
(* The inductive invariant of the calls *)

Iterating(c, t) ==
  /\ c = [kind |-> "iterate", iter |-> c.iter, unseen |-> c.unseen]
  /\ Remaining(c.iter, c.unseen, t)

\* The table moved into the iterator is whole.
Draining(c) ==
  /\ c = [kind |-> "drain", moved |-> c.moved, iter |-> c.iter, unseen |-> c.unseen]
  /\ AtRest(c.moved) /\ Bounded(c.moved)
  /\ Remaining(c.iter, c.unseen, c.moved)

\* The elements cloned are those below the guard's index.
Cloning(c, t) ==
  /\ c = [kind |-> "clone", cloned |-> c.cloned, index |-> c.index, iter |-> c.iter,
          unseen |-> c.unseen]
  /\ Remaining(c.iter, c.unseen, t)
  /\ c.cloned \cup c.unseen = FullBuckets(t)
  /\ c.index \in 0..t.buckets
  /\ \A i \in c.cloned : i < c.index
  /\ \A i \in c.unseen : c.index <= i

\* The element taken out can come back, to the bucket it left.
TakenOut(c, t) == c.index \in Indices(t) /\ t.slot[c.index] = None /\ c.hash \in Hashes
Replacing(c, t) ==
  /\ c.kind = "replace" /\ TakenOut(c, t)
  /\ AtRest(Restored(c, t)) /\ Bounded(Restored(c, t))
Vacant(c, t) ==
  /\ c.kind = "vacant" /\ TakenOut(c, t)
  /\ AtRest(InsertInSlot(t, c.index, c.hash)) /\ Bounded(InsertInSlot(t, c.index, c.hash))

CallInv(c, t) ==
  c = NoCall \/ Iterating(c, t) \/ Draining(c) \/ Cloning(c, t) \/ Replacing(c, t) \/ Vacant(c, t)

CallsInv ==
  /\ RawInv
  /\ call # NoCall => rehashing = FALSE
  /\ CallInv(call, table)

LEMMA KindIs ==
  ASSUME NEW c, NEW t, CallInv(c, t)
  PROVE  /\ c.kind = "none" => c = NoCall
         /\ c.kind = "iterate" => Iterating(c, t)
         /\ c.kind = "drain" => Draining(c)
         /\ c.kind = "clone" => Cloning(c, t)
         /\ c.kind = "replace" => Replacing(c, t)
         /\ c.kind = "vacant" => Vacant(c, t)
<1>1. NoCall.kind = "none"
  BY DEF NoCall
<1>2. Iterating(c, t) => c.kind = "iterate"
  BY DEF Iterating
<1>3. Draining(c) => c.kind = "drain"
  BY DEF Draining
<1>4. Cloning(c, t) => c.kind = "clone"
  BY DEF Cloning
<1>5. Replacing(c, t) => c.kind = "replace"
  BY DEF Replacing
<1>6. Vacant(c, t) => c.kind = "vacant"
  BY DEF Vacant
<1> QED BY <1>1, <1>2, <1>3, <1>4, <1>5, <1>6 DEF CallInv

LEMMA SameCall ==
  ASSUME build' = build, NEW c, NEW t
  PROVE  CallInv(c, t)' <=> CallInv(c, t)
<1>1. \A iter, unseen, u : Remaining(iter, unseen, u)' <=> Remaining(iter, unseen, u)
  BY SameEncoding, SameShape DEF Remaining
<1>2. \A i, byte : MirrorOf(t, i)' = MirrorOf(t, i) /\ SetCtrl(t, i, byte)' = SetCtrl(t, i, byte)
  BY SameEncoding DEF MirrorOf, SetCtrl
<1>3. Restored(c, t)' = Restored(c, t)
  BY <1>2 DEF Restored
<1>4. \A i, hash : InsertInSlot(t, i, hash)' = InsertInSlot(t, i, hash)
  <2>1. ASSUME NEW i, NEW hash PROVE Placed(t, i, hash)' = Placed(t, i, hash)
    <3>1. Tag(hash)' = Tag(hash)
      BY SameEncoding
    <3>2. SetCtrl(t, i, Tag(hash))' = SetCtrl(t, i, Tag(hash))
      BY <3>1, SameEncoding DEF MirrorOf, SetCtrl
    <3> QED BY <3>2 DEF Placed
  <2> QED BY <2>1, SameEncoding DEF InsertInSlot
<1>5. \A u : Bounded(u)' <=> Bounded(u)
  BY DEF Bounded
<1>6. Iterating(c, t)' <=> Iterating(c, t)
  BY <1>1 DEF Iterating
<1>7. Draining(c)' <=> Draining(c)
  BY <1>1, <1>5, SameRest DEF Draining
<1>8. Cloning(c, t)' <=> Cloning(c, t)
  BY <1>1, SameShape DEF Cloning
<1>9. Replacing(c, t)' <=> Replacing(c, t)
  BY <1>3, <1>5, SameRest DEF Replacing, TakenOut, Indices
<1>10. Vacant(c, t)' <=> Vacant(c, t)
  BY <1>4, <1>5, SameRest DEF Vacant, TakenOut, Indices
<1> QED BY <1>6, <1>7, <1>8, <1>9, <1>10 DEF CallInv, NoCall

\* A step of a call.
LEMMA CallKeeps ==
  ASSUME SoundVariants, CallsInv, rehashing = FALSE, UNCHANGED <<build, rehashing, pending>>,
         NEW c, NEW t, AtRest(t), Bounded(t), CallInv(c, t), call' = c, table' = t
  PROVE  CallsInv'
<1>1. build \in Builds /\ pending = None
  BY DEF CallsInv, RawInv
<1>2. build' = build /\ rehashing' = FALSE /\ pending' = None
  BY <1>1
<1>3. RawInv'
  BY <1>1, <1>2, RestsAfter
<1>4. CallInv(call, table)'
  BY <1>2, SameCall
<1> QED BY <1>2, <1>3, <1>4 DEF CallsInv

LEMMA CallEnds ==
  ASSUME SoundVariants, CallsInv, rehashing = FALSE, UNCHANGED <<build, rehashing, pending>>,
         NEW t, AtRest(t), Bounded(t), call' = NoCall, table' = t
  PROVE  CallsInv'
<1>1. CallInv(NoCall, t)
  BY DEF CallInv
<1> QED BY <1>1, CallKeeps

\* What holds before a call begins, and during one.
LEMMA Beginning ==
  ASSUME SoundVariants, CallsInv, NEW c, NEW t, Begin(c, t)
  PROVE  /\ rehashing = FALSE /\ UNCHANGED <<build, rehashing, pending>> /\ call' = c /\ table' = t
         /\ build \in Builds /\ AtRest(table) /\ Bounded(table) /\ Shaped(table)
<1>1. rehashing = FALSE /\ UNCHANGED <<build, rehashing, pending>> /\ call' = c /\ table' = t
  BY DEF Begin, CallsInv, RawInv
<1>2. build \in Builds /\ AtRest(table) /\ Bounded(table)
  BY <1>1 DEF CallsInv, RawInv
<1> QED BY <1>1, <1>2 DEF AtRest

LEMMA During ==
  ASSUME SoundVariants, CallsInv, NEW kind, kind # "none", NEW c, NEW t, Go(kind, c, t)
  PROVE  /\ rehashing = FALSE /\ UNCHANGED <<build, rehashing, pending>> /\ call' = c /\ table' = t
         /\ build \in Builds /\ AtRest(table) /\ Bounded(table) /\ Shaped(table)
         /\ CallInv(call, table) /\ call.kind = kind
<1>1. call # NoCall
  BY DEF Go, NoCall
<1>2. rehashing = FALSE /\ UNCHANGED <<build, rehashing, pending>> /\ call' = c /\ table' = t
  BY <1>1 DEF Go, CallsInv
<1>3. build \in Builds /\ AtRest(table) /\ Bounded(table) /\ CallInv(call, table) /\ call.kind = kind
  BY <1>2 DEF CallsInv, RawInv, Go
<1> QED BY <1>2, <1>3 DEF AtRest

LEMMA IterateStep ==
  ASSUME SoundVariants, CallsInv, BeginIteration \/ Keep \/ EraseYielded \/ EndIteration
  PROVE  CallsInv'
<1>1. CASE BeginIteration
  <2> DEFINE c == [kind |-> "iterate", iter |-> IterOf(table), unseen |-> FullBuckets(table)]
  <2>1. Begin(c, table)
    BY <1>1 DEF BeginIteration
  <2>2. c = [kind |-> "iterate", iter |-> c.iter, unseen |-> c.unseen]
        /\ c.iter = IterOf(table) /\ c.unseen = FullBuckets(table)
    OBVIOUS
  <2> HIDE DEF c
  <2>3. /\ rehashing = FALSE /\ UNCHANGED <<build, rehashing, pending>> /\ call' = c /\ table' = table
        /\ build \in Builds /\ AtRest(table) /\ Bounded(table)
    BY <2>1, Beginning
  <2>4. CallInv(c, table)
    BY <2>2, <2>3, Starts DEF CallInv, Iterating
  <2> QED BY <2>3, <2>4, CallKeeps
<1>2. CASE Keep \/ EraseYielded
  <2> DEFINE i == Yielded(call.iter, table)
             c == Passing(call, table)
             after == Advanced(call.iter, table)
             rest == call.unseen \ {i}
  <2>1. HasNext(call.iter, table) /\ (Go("iterate", c, table) \/ Go("iterate", c, Erased(table, i)))
    BY <1>2 DEF Keep, EraseYielded
  <2>2. /\ rehashing = FALSE /\ UNCHANGED <<build, rehashing, pending>> /\ call' = c
        /\ table' = table \/ table' = Erased(table, i)
        /\ build \in Builds /\ AtRest(table) /\ Bounded(table) /\ Shaped(table)
        /\ CallInv(call, table) /\ call.kind = "iterate"
    BY <2>1, During
  <2>3. Iterating(call, table)
    BY <2>2, KindIs
  <2>4. /\ i \in FullBuckets(table) /\ i \in call.unseen
        /\ Remaining(after, rest, table)
    BY <2>1, <2>2, <2>3, Advances DEF Iterating
  <2>5. c = [kind |-> "iterate", iter |-> after, unseen |-> rest]
    <3>1. c = [call EXCEPT !.iter = after, !.unseen = rest]
      BY DEF Passing
    <3>2. call = [kind |-> "iterate", iter |-> call.iter, unseen |-> call.unseen]
      BY <2>3 DEF Iterating
    <3> DEFINE advanced == [call EXCEPT !.iter = after]
    <3>3. c = [advanced EXCEPT !.unseen = rest]
      BY <3>1
    <3> HIDE DEF c, after, rest
    <3>4. advanced = [kind |-> "iterate", iter |-> after, unseen |-> call.unseen]
      BY <3>2
    <3> HIDE DEF advanced
    <3> QED BY <3>3, <3>4
  <2> HIDE DEF c, after
  <2>6. CASE table' = table
    <3>1. CallInv(c, table)
      BY <2>4, <2>5 DEF CallInv, Iterating
    <3> QED BY <2>2, <2>6, <3>1, CallKeeps
  <2>7. CASE table' = Erased(table, i)
    <3> DEFINE u == Erased(table, i)
    <3> HIDE DEF i
    <3>1. /\ AtRest(u) /\ u.buckets = table.buckets /\ u.items = table.items - 1
          /\ FullBuckets(u) = FullBuckets(table) \ {i}
      BY <2>2, <2>4, EraseKeeps
    <3>2. table.items \in Nat /\ MaxItems \in Nat
      BY <2>2, RestFacts, BoundAssumption
    <3> HIDE DEF u
    <3>3. Bounded(u)
      BY <2>2, <3>1, <3>2 DEF Bounded
    <3>4. i \notin rest
      OBVIOUS
    <3> HIDE DEF rest
    <3>5. Remaining(after, rest, u)
      BY <2>4, <3>1, <3>4, ErasedBehind
    <3>6. CallInv(c, u)
      BY <2>5, <3>5 DEF CallInv, Iterating
    <3>7. table' = u
      BY <2>7 DEF u
    <3> QED BY <2>2, <3>1, <3>3, <3>6, <3>7, CallKeeps
  <2> QED BY <2>2, <2>6, <2>7
<1>3. CASE EndIteration
  <2>1. Go("iterate", NoCall, table)
    BY <1>3 DEF EndIteration
  <2> QED BY <2>1, During, CallEnds
<1> QED BY <1>1, <1>2, <1>3

LEMMA DrainStep ==
  ASSUME SoundVariants, CallsInv, BeginDrain \/ Drain \/ DropDrain \/ ForgetDrain
  PROVE  CallsInv'
<1>1. CASE BeginDrain
  <2> DEFINE c == [kind |-> "drain", moved |-> table, iter |-> IterOf(table),
                   unseen |-> FullBuckets(table)]
  <2>1. Begin(c, Singleton)
    BY <1>1 DEF BeginDrain
  <2>2. c = [kind |-> "drain", moved |-> c.moved, iter |-> c.iter, unseen |-> c.unseen]
        /\ c.moved = table /\ c.iter = IterOf(table) /\ c.unseen = FullBuckets(table)
    OBVIOUS
  <2> HIDE DEF c
  <2>3. /\ rehashing = FALSE /\ UNCHANGED <<build, rehashing, pending>> /\ call' = c
        /\ table' = Singleton
        /\ build \in Builds /\ AtRest(table) /\ Bounded(table)
    BY <2>1, Beginning
  <2>4. CallInv(c, Singleton)
    BY <2>2, <2>3, Starts DEF CallInv, Draining
  <2>5. AtRest(Singleton) /\ Bounded(Singleton)
    BY <2>3, SingletonRests
  <2> QED BY <2>3, <2>4, <2>5, CallKeeps
<1>2. CASE Drain
  <2> DEFINE i == Yielded(call.iter, call.moved)
             c == Passing(call, call.moved)
             after == Advanced(call.iter, call.moved)
             rest == call.unseen \ {i}
  <2>1. HasNext(call.iter, call.moved) /\ Go("drain", c, table)
    BY <1>2 DEF Drain
  <2>2. /\ rehashing = FALSE /\ UNCHANGED <<build, rehashing, pending>> /\ call' = c
        /\ table' = table
        /\ build \in Builds /\ AtRest(table) /\ Bounded(table)
        /\ CallInv(call, table) /\ call.kind = "drain"
    BY <2>1, During
  <2>3. Draining(call)
    BY <2>2, KindIs
  <2>4. Remaining(after, rest, call.moved)
    BY <2>1, <2>2, <2>3, Advances DEF Draining, AtRest
  <2>5. c = [kind |-> "drain", moved |-> call.moved, iter |-> after, unseen |-> rest]
    <3>1. c = [call EXCEPT !.iter = after, !.unseen = rest]
      BY DEF Passing
    <3>2. call = [kind |-> "drain", moved |-> call.moved, iter |-> call.iter, unseen |-> call.unseen]
      BY <2>3 DEF Draining
    <3> DEFINE advanced == [call EXCEPT !.iter = after]
    <3>3. c = [advanced EXCEPT !.unseen = rest]
      BY <3>1
    <3> HIDE DEF c, after, rest
    <3>4. advanced = [kind |-> "drain", moved |-> call.moved, iter |-> after, unseen |-> call.unseen]
      BY <3>2
    <3> HIDE DEF advanced
    <3> QED BY <3>3, <3>4
  <2> HIDE DEF c, after, rest
  <2>6. CallInv(c, table)
    BY <2>3, <2>4, <2>5 DEF CallInv, Draining
  <2> QED BY <2>2, <2>6, CallKeeps
<1>3. CASE DropDrain
  <2> DEFINE u == EmptyTable(call.moved.buckets)
  <2>1. Go("drain", NoCall, u)
    BY <1>3 DEF DropDrain
  <2>2. /\ rehashing = FALSE /\ UNCHANGED <<build, rehashing, pending>> /\ call' = NoCall
        /\ table' = u /\ build \in Builds /\ CallInv(call, table) /\ call.kind = "drain"
    BY <2>1, During
  <2>3. AtRest(call.moved) /\ Bounded(call.moved) /\ call.moved.buckets \in BucketCounts
    BY <2>2, KindIs DEF Draining, AtRest, Shaped
  <2>4. AtRest(u) /\ u.buckets = call.moved.buckets /\ u.items = 0
    BY <2>2, <2>3, EmptyTableRests
  <2> HIDE DEF u
  <2>5. Bounded(u)
    BY <2>3, <2>4, BoundAssumption DEF Bounded
  <2> QED BY <2>2, <2>4, <2>5, CallEnds
<1>4. CASE ForgetDrain
  <2>1. Go("drain", NoCall, table)
    BY <1>4 DEF ForgetDrain
  <2> QED BY <2>1, During, CallEnds
<1> QED BY <1>1, <1>2, <1>3, <1>4

LEMMA CloneStep ==
  ASSUME SoundVariants, CallsInv, BeginClone \/ CloneElement \/ FinishClone \/ ClonePanics
  PROVE  CallsInv'
<1>1. CASE BeginClone
  <2> DEFINE c == [kind |-> "clone", cloned |-> {}, index |-> 0, iter |-> IterOf(table),
                   unseen |-> FullBuckets(table)]
  <2>1. Begin(c, table)
    BY <1>1 DEF BeginClone
  <2>2. c = [kind |-> "clone", cloned |-> c.cloned, index |-> c.index, iter |-> c.iter,
             unseen |-> c.unseen]
        /\ c.cloned = {} /\ c.index = 0 /\ c.iter = IterOf(table) /\ c.unseen = FullBuckets(table)
    OBVIOUS
  <2> HIDE DEF c
  <2>3. /\ rehashing = FALSE /\ UNCHANGED <<build, rehashing, pending>> /\ call' = c
        /\ table' = table
        /\ build \in Builds /\ AtRest(table) /\ Bounded(table) /\ Shaped(table)
    BY <2>1, Beginning
  <2>4. table.buckets \in Nat /\ Indices(table) = 0..table.buckets - 1
    BY <2>3, Sized DEF Shaped
  <2>5. c.index \in 0..table.buckets /\ \A i \in FullBuckets(table) : 0 <= i
    BY <2>2, <2>4 DEF FullBuckets
  <2>6. CallInv(c, table)
    BY <2>2, <2>3, <2>5, Starts DEF CallInv, Cloning
  <2> QED BY <2>3, <2>6, CallKeeps
<1>2. CASE CloneElement
  <2> DEFINE i == Yielded(call.iter, table)
             c == [Passing(call, table) EXCEPT !.cloned = @ \cup {i}, !.index = i + 1]
             after == Advanced(call.iter, table)
             rest == call.unseen \ {i}
             cloned == call.cloned \cup {i}
             index == i + 1
  <2>1. HasNext(call.iter, table) /\ Go("clone", c, table)
    BY <1>2 DEF CloneElement
  <2>2. /\ rehashing = FALSE /\ UNCHANGED <<build, rehashing, pending>> /\ call' = c
        /\ table' = table
        /\ build \in Builds /\ AtRest(table) /\ Bounded(table) /\ Shaped(table)
        /\ CallInv(call, table) /\ call.kind = "clone"
    BY <2>1, During
  <2>3. Cloning(call, table)
    BY <2>2, KindIs
  <2>4. /\ i \in call.unseen /\ i \in FullBuckets(table) /\ i \in Nat
        /\ \A j \in rest : i < j
        /\ Remaining(after, rest, table)
    BY <2>1, <2>2, <2>3, Advances DEF Cloning
  <2>5. c = [kind |-> "clone", cloned |-> cloned, index |-> index, iter |-> after, unseen |-> rest]
    <3> DEFINE passing == Passing(call, table)
    <3>1. passing = [call EXCEPT !.iter = after, !.unseen = rest]
      BY DEF Passing
    <3>2. c = [passing EXCEPT !.cloned = @ \cup {i}, !.index = index]
      OBVIOUS
    <3> HIDE DEF c, passing, after, rest, index
    <3>3. passing = [kind |-> "clone", cloned |-> call.cloned, index |-> call.index,
                     iter |-> after, unseen |-> rest]
      <4>1. call = [kind |-> "clone", cloned |-> call.cloned, index |-> call.index,
                    iter |-> call.iter, unseen |-> call.unseen]
        BY <2>3 DEF Cloning
      <4> DEFINE advanced == [call EXCEPT !.iter = after]
      <4>2. passing = [advanced EXCEPT !.unseen = rest]
        BY <3>1
      <4>3. advanced = [kind |-> "clone", cloned |-> call.cloned, index |-> call.index,
                        iter |-> after, unseen |-> call.unseen]
        BY <4>1
      <4> HIDE DEF advanced
      <4> QED BY <4>2, <4>3
    <3>4. c = [passing EXCEPT !.cloned = cloned, !.index = index]
      BY <3>2, <3>3
    <3> HIDE DEF cloned
    <3> QED BY <3>3, <3>4
  <2>6. table.buckets \in Nat /\ Indices(table) = 0..table.buckets - 1
    BY <2>2, Sized DEF Shaped
  <2>7. /\ call.cloned \cup call.unseen = FullBuckets(table)
        /\ call.index \in 0..table.buckets
        /\ \A j \in call.cloned : j < call.index
        /\ \A j \in call.unseen : call.index <= j
    BY <2>3 DEF Cloning
  <2>8. \A j \in FullBuckets(table) : j \in 0..table.buckets - 1
    BY <2>6 DEF FullBuckets
  <2>9. /\ cloned \cup rest = FullBuckets(table) /\ index \in 0..table.buckets
        /\ \A j \in cloned : j < index
        /\ \A j \in rest : index <= j
    <3>1. cloned \cup rest = FullBuckets(table)
      BY <2>4, <2>7
    <3>2. index \in 0..table.buckets
      BY <2>4, <2>6, <2>8
    <3>3. \A j \in cloned : j < index
      BY <2>4, <2>6, <2>7, <2>8
    <3>4. \A j \in rest : index <= j
      BY <2>4, <2>7, <2>8
    <3> QED BY <3>1, <3>2, <3>3, <3>4
  <2> HIDE DEF c, after, rest, cloned, index
  <2>10. CallInv(c, table)
    BY <2>4, <2>5, <2>9 DEF CallInv, Cloning
  <2> QED BY <2>2, <2>10, CallKeeps
<1>3. CASE FinishClone
  <2>1. Go("clone", NoCall, table)
    BY <1>3 DEF FinishClone
  <2> QED BY <2>1, During, CallEnds
<1>4. CASE ClonePanics
  <2> DEFINE u == EmptyTable(table.buckets)
  <2>1. Go("clone", NoCall, table) \/ Go("clone", NoCall, u)
    BY <1>4 DEF ClonePanics
  <2>2. CASE Go("clone", NoCall, table)
    BY <2>2, During, CallEnds
  <2>3. CASE Go("clone", NoCall, u)
    <3>1. /\ rehashing = FALSE /\ UNCHANGED <<build, rehashing, pending>> /\ call' = NoCall
          /\ table' = u /\ build \in Builds /\ Bounded(table) /\ table.buckets \in BucketCounts
      BY <2>3, During DEF Shaped
    <3>2. AtRest(u) /\ u.buckets = table.buckets /\ u.items = 0
      BY <3>1, EmptyTableRests
    <3> HIDE DEF u
    <3>3. Bounded(u)
      BY <3>1, <3>2, BoundAssumption DEF Bounded
    <3> QED BY <3>1, <3>2, <3>3, CallEnds
  <2> QED BY <2>1, <2>2, <2>3
<1> QED BY <1>1, <1>2, <1>3, <1>4

LEMMA EntryStep ==
  ASSUME SoundVariants, CallsInv,
         BeginReplace \/ PutBack \/ LeaveOut \/ Vacate \/ Refill \/ DropVacant
  PROVE  CallsInv'
<1>1. ASSUME AtRest(table), Bounded(table), build \in Builds, NEW i \in FullBuckets(table)
      PROVE  /\ AtRest(Erased(table, i)) /\ Bounded(Erased(table, i))
             /\ i \in Indices(Erased(table, i)) /\ Erased(table, i).slot[i] = None
             /\ table.slot[i] \in Hashes
  <2> DEFINE u == Erased(table, i)
  <2>1. /\ AtRest(u) /\ u.buckets = table.buckets /\ u.items = table.items - 1
        /\ i \in Indices(u) /\ u.slot[i] = None
    BY <1>1, EraseKeeps
  <2>2. table.items \in Nat /\ MaxItems \in Nat
    BY <1>1, RestFacts, BoundAssumption
  <2> HIDE DEF u
  <2>3. Bounded(u)
    BY <1>1, <2>1, <2>2 DEF Bounded
  <2> QED BY <1>1, <2>1, <2>3, RestFacts DEF u
<1>2. CASE BeginReplace
  <2>1. PICK i \in FullBuckets(table) :
          Begin([kind |-> "replace", index |-> i, byte |-> table.ctrl[i], hash |-> table.slot[i],
                 growthLeft |-> table.growthLeft], Erased(table, i))
    BY <1>2 DEF BeginReplace
  <2> DEFINE c == [kind |-> "replace", index |-> i, byte |-> table.ctrl[i], hash |-> table.slot[i],
                   growthLeft |-> table.growthLeft]
             t == Erased(table, i)
             u == Restored(c, t)
  <2>2. c.kind = "replace" /\ c.index = i /\ c.byte = table.ctrl[i] /\ c.hash = table.slot[i]
        /\ c.growthLeft = table.growthLeft
    OBVIOUS
  <2>3. Begin(c, t)
    BY <2>1
  <2> HIDE DEF c
  <2>4. /\ rehashing = FALSE /\ UNCHANGED <<build, rehashing, pending>> /\ call' = c /\ table' = t
        /\ build \in Builds /\ AtRest(table) /\ Bounded(table)
    BY <2>3, Beginning
  <2>5. AtRest(u) /\ u.buckets = table.buckets /\ u.items = table.items
    BY <2>1, <2>2, <2>4, RestoredIs
  <2>6. AtRest(t) /\ Bounded(t) /\ i \in Indices(t) /\ t.slot[i] = None /\ table.slot[i] \in Hashes
    BY <1>1, <2>1, <2>4
  <2> HIDE DEF t
  <2>7. CallInv(c, t)
    <3>1. Bounded(u)
      <4> HIDE DEF u
      <4> QED BY <2>4, <2>5 DEF Bounded
    <3> QED BY <2>2, <2>5, <2>6, <3>1 DEF CallInv, Replacing, TakenOut
  <2> QED BY <2>4, <2>6, <2>7, CallKeeps
<1>3. CASE PutBack
  <2> DEFINE u == Restored(call, table)
  <2>1. Go("replace", NoCall, u)
    BY <1>3 DEF PutBack, Restored
  <2>2. AtRest(u) /\ Bounded(u)
    <3>1. CallInv(call, table) /\ call.kind = "replace"
      <4> HIDE DEF u
      <4> QED BY <2>1, During
    <3> QED BY <3>1, KindIs DEF Replacing
  <2> HIDE DEF u
  <2> QED BY <2>1, <2>2, During, CallEnds
<1>4. CASE LeaveOut
  <2>1. Go("replace", NoCall, table)
    BY <1>4 DEF LeaveOut
  <2> QED BY <2>1, During, CallEnds
<1>5. CASE Vacate
  <2>1. PICK i \in FullBuckets(table) :
          Begin([kind |-> "vacant", index |-> i, hash |-> table.slot[i]], Erased(table, i))
    BY <1>5 DEF Vacate
  <2> DEFINE c == [kind |-> "vacant", index |-> i, hash |-> table.slot[i]]
             t == Erased(table, i)
             u == InsertInSlot(t, i, table.slot[i])
  <2>2. c.kind = "vacant" /\ c.index = i /\ c.hash = table.slot[i]
    OBVIOUS
  <2>3. Begin(c, t)
    BY <2>1
  <2> HIDE DEF c
  <2>4. /\ rehashing = FALSE /\ UNCHANGED <<build, rehashing, pending>> /\ call' = c /\ table' = t
        /\ build \in Builds /\ AtRest(table) /\ Bounded(table)
    BY <2>3, Beginning
  <2>5. AtRest(u) /\ u.buckets = table.buckets /\ u.items = table.items
    BY <2>1, <2>4, RefilledIs
  <2>6. AtRest(t) /\ Bounded(t) /\ i \in Indices(t) /\ t.slot[i] = None /\ table.slot[i] \in Hashes
    BY <1>1, <2>1, <2>4
  <2> HIDE DEF t
  <2>7. CallInv(c, t)
    <3>1. Bounded(u)
      <4> HIDE DEF u
      <4> QED BY <2>4, <2>5 DEF Bounded
    <3>2. InsertInSlot(t, c.index, c.hash) = u
      BY <2>2
    <3> QED BY <2>2, <2>5, <2>6, <3>1, <3>2 DEF CallInv, Vacant, TakenOut
  <2> QED BY <2>4, <2>6, <2>7, CallKeeps
<1>6. CASE Refill
  <2> DEFINE u == InsertInSlot(table, call.index, call.hash)
  <2>1. Go("vacant", NoCall, u)
    BY <1>6 DEF Refill
  <2>2. AtRest(u) /\ Bounded(u)
    <3>1. CallInv(call, table) /\ call.kind = "vacant"
      <4> HIDE DEF u
      <4> QED BY <2>1, During
    <3> QED BY <3>1, KindIs DEF Vacant
  <2> HIDE DEF u
  <2> QED BY <2>1, <2>2, During, CallEnds
<1>7. CASE DropVacant
  <2>1. Go("vacant", NoCall, table)
    BY <1>7 DEF DropVacant
  <2> QED BY <2>1, During, CallEnds
<1> QED BY <1>2, <1>3, <1>4, <1>5, <1>6, <1>7

LEMMA CallsStep == ASSUME SoundVariants, CallsInv, [CallsNext]_callVars PROVE CallsInv'
<1>1. CASE UNCHANGED callVars
  <2>1. build' = build /\ table' = table /\ rehashing' = rehashing /\ pending' = pending
        /\ call' = call /\ UNCHANGED vars
    BY <1>1 DEF callVars, vars
  <2>2. RawInv'
    BY <2>1, RawStep DEF CallsInv
  <2>3. CallInv(call, table)'
    BY <2>1, SameCall DEF CallsInv
  <2> QED BY <2>1, <2>2, <2>3 DEF CallsInv
<1>2. CASE Whole
  <2>1. RawInv'
    BY <1>2, RawStep DEF CallsInv, Whole
  <2>2. call' = NoCall
    BY <1>2 DEF Whole
  <2>3. CallInv(call, table)' /\ call' = NoCall'
    BY <2>2 DEF CallInv, NoCall
  <2> QED BY <2>1, <2>3 DEF CallsInv
<1> QED BY <1>1, <1>2, IterateStep, DrainStep, CloneStep, EntryStep DEF CallsNext

------------------------------------------------------------------------------
(* What the invariant says *)

\* The table in every state: of its shape, with a bucket a search stops at.
LEMMA TableFacts ==
  ASSUME SoundVariants, RawInv
  PROVE  /\ build \in Builds /\ rehashing \in BOOLEAN
         /\ rehashing => InRehash(table)
         /\ ~rehashing => AtRest(table)
         /\ Shaped(table) /\ table.items \in Nat
         /\ table.growthLeft \in 0..BucketMaskToCapacity(table.buckets)
         /\ \E j \in Indices(table) : table.ctrl[j] = EMPTY /\ ~IsFull(table.ctrl[j])
         /\ \A i \in FullBuckets(table) : i \in Indices(table) /\ table.slot[i] \in Hashes
<1>1. build \in Builds /\ rehashing \in BOOLEAN /\ (rehashing => InRehash(table))
      /\ (~rehashing => AtRest(table))
  BY DEF RawInv
<1>2. CASE rehashing
  <2>1. InRehash(table)
    BY <1>1, <1>2
  <2>2. table.growthLeft \in 0..BucketMaskToCapacity(table.buckets)
    BY <2>1 DEF InRehash
  <2> QED BY <1>1, <2>1, <2>2, RehashFacts
<1>3. CASE ~rehashing
  <2>1. AtRest(table)
    BY <1>1, <1>3
  <2> QED BY <1>1, <2>1, RestFacts
<1> QED BY <1>2, <1>3

LEMMA RawTypes == ASSUME SoundVariants, RawInv PROVE TypeOK
<1>1. build \in Builds /\ Shaped(table) /\ table.items \in Nat
      /\ table.growthLeft \in 0..BucketMaskToCapacity(table.buckets)
  BY TableFacts
<1>2. rehashing \in BOOLEAN /\ pending \in Hashes \cup {None}
      /\ table.buckets <= MaxBuckets /\ table.items <= MaxItems
  BY DEF RawInv, Bounded
<1>3. table.items \in 0..MaxItems
  BY <1>1, <1>2, BoundAssumption
<1>4. table.buckets \in {1} \cup {2 ^ k : k \in 2..30}
  BY <1>1 DEF Shaped, BucketCounts
<1>5. table.ctrl \in [0..table.buckets + Width - 1 -> 0..255]
  <2>1. Bytes \subseteq 0..255
    BY DEF Bytes
  <2>2. table.ctrl \in [0..table.buckets + Width - 1 -> Bytes]
    BY <1>1 DEF Shaped
  <2> QED BY <2>1, <2>2
<1>6. table.slot \in [Indices(table) -> Hashes \cup {None}]
  BY <1>1 DEF Shaped, Indices
<1> QED BY <1>1, <1>2, <1>3, <1>4, <1>5, <1>6 DEF TypeOK

LEMMA RawMirror == ASSUME SoundVariants, RawInv PROVE MirrorAgrees
<1>1. Mirrored(table.buckets, table.ctrl)
  BY TableFacts DEF Shaped
<1> QED BY <1>1 DEF Mirrored, MirrorAgrees

LEMMA RawCounts ==
  ASSUME SoundVariants, RawInv
  PROVE  GrowthIsAccounted /\ ItemsCountFullBuckets /\ SmallTablesHaveNoTombstones
<1>1. ~rehashing => AtRest(table)
  BY TableFacts
<1> QED BY <1>1 DEF AtRest, GrowthIsAccounted, ItemsCountFullBuckets, SmallTablesHaveNoTombstones

LEMMA RawSearches == ASSUME SoundVariants, RawInv PROVE SearchesEnd
<1>1. build \in Builds /\ Shaped(table)
  BY TableFacts
<1>2. PICK j \in Indices(table) : table.ctrl[j] = EMPTY /\ ~IsFull(table.ctrl[j])
  BY TableFacts
<1>3. \A hash \in Hashes :
        /\ HasInsertSlot(table, hash)
        /\ \E n \in Probes(table) : EmptyAt(table, Position(table, hash, n)) # {}
  BY <1>1, <1>2, SearchMeets
<1> QED BY <1>3 DEF SearchesEnd

\* Every full bucket is reached, in a rehash too.
LEMMA FullIsReached ==
  ASSUME SoundVariants, RawInv, NEW i \in FullBuckets(table)
  PROVE  table.ctrl[i] = Tag(table.slot[i]) /\ Reached(table, i, table.slot[i])
<1>1. build \in Builds /\ Shaped(table) /\ rehashing \in BOOLEAN
      /\ (rehashing => InRehash(table)) /\ (~rehashing => AtRest(table))
  BY TableFacts
<1>2. CASE rehashing
  <2>1. InRehash(table)
    BY <1>1, <1>2
  <2>2. table.ctrl[i] = Tag(table.slot[i]) /\ Nearest(table, i, table.slot[i])
    BY <2>1 DEF InRehash
  <2> QED BY <1>1, <2>2, NearestIsReached
<1>3. CASE ~rehashing
  <2>1. AtRest(table)
    BY <1>1, <1>3
  <2> QED BY <2>1 DEF AtRest
<1> QED BY <1>2, <1>3

LEMMA RawFound == ASSUME SoundVariants, RawInv PROVE ElementsAreFound
<1>1. build \in Builds /\ Shaped(table) /\ rehashing \in BOOLEAN
      /\ (rehashing => InRehash(table)) /\ (~rehashing => AtRest(table))
  BY TableFacts
<1>2. ASSUME NEW i \in FullBuckets(table) PROVE Finds(table, i)
  <2>1. i \in Indices(table) /\ table.slot[i] \in Hashes
    BY TableFacts
  <2>2. table.ctrl[i] = Tag(table.slot[i]) /\ Reached(table, i, table.slot[i])
    BY FullIsReached
  <2> QED BY <1>1, <2>1, <2>2, ReachedIsFound
<1>3. ASSUME NEW i \in Indices(table)
      PROVE  table.slot[i] # None <=> \/ i \in FullBuckets(table)
                                      \/ rehashing /\ i \in Tombstones(table)
  <2>1. i \in FullBuckets(table) <=> IsFull(table.ctrl[i])
    BY DEF FullBuckets
  <2>2. i \in Tombstones(table) <=> table.ctrl[i] = DELETED
    BY DEF Tombstones
  <2>3. CASE rehashing
    <3>1. InRehash(table)
      BY <1>1, <2>3
    <3>2. table.slot[i] # None <=> IsFull(table.ctrl[i]) \/ table.ctrl[i] = DELETED
      BY <3>1 DEF InRehash
    <3> QED BY <2>1, <2>2, <2>3, <3>2
  <2>4. CASE ~rehashing
    <3>1. AtRest(table)
      BY <1>1, <2>4
    <3>2. table.slot[i] # None <=> IsFull(table.ctrl[i])
      BY <3>1 DEF AtRest
    <3> QED BY <2>1, <2>4, <3>2
  <2> QED BY <2>3, <2>4
<1> QED BY <1>2, <1>3 DEF ElementsAreFound

LEMMA CallsIterate == ASSUME SoundVariants, CallsInv PROVE IterationIsExact
<1>1. CallInv(call, table)
  BY DEF CallsInv
<1>2. CASE call.kind = "iterate"
  <2>1. Remaining(call.iter, call.unseen, table)
    BY <1>1, <1>2, KindIs DEF Iterating
  <2> QED BY <1>2, <2>1 DEF Remaining, IterationIsExact
<1>3. CASE call.kind = "drain"
  <2>1. Remaining(call.iter, call.unseen, call.moved)
    BY <1>1, <1>3, KindIs DEF Draining
  <2> QED BY <1>3, <2>1 DEF Remaining, IterationIsExact
<1>4. CASE call.kind = "clone"
  <2>1. Remaining(call.iter, call.unseen, table)
    BY <1>1, <1>4, KindIs DEF Cloning
  <2> QED BY <1>4, <2>1 DEF Remaining, IterationIsExact
<1>5. CASE call.kind \notin {"iterate", "drain", "clone"}
  BY <1>5 DEF IterationIsExact
<1> QED BY <1>2, <1>3, <1>4, <1>5

LEMMA CallsUnwind == ASSUME SoundVariants, CallsInv PROVE UnwindDropsCloned
<1> SUFFICES ASSUME call.kind = "clone" PROVE Unwound = call.cloned
  BY DEF UnwindDropsCloned
<1>1. CallInv(call, table) /\ build \in Builds /\ Shaped(table)
  BY TableFacts DEF CallsInv
<1>2. Cloning(call, table)
  BY <1>1, KindIs
<1>3. /\ call.cloned \cup call.unseen = FullBuckets(table)
      /\ call.index \in 0..table.buckets
      /\ \A i \in call.cloned : i < call.index
      /\ \A i \in call.unseen : call.index <= i
  BY <1>2 DEF Cloning
<1>4. table.buckets \in Nat /\ Indices(table) = 0..table.buckets - 1
  BY <1>1, Sized DEF Shaped
<1>5. ASSUME NEW i \in Unwound PROVE i \in call.cloned
  <2>1. i \in 0..call.index - 1 /\ IsFull(table.ctrl[i])
    BY DEF Unwound
  <2>2. i \in FullBuckets(table)
    BY <1>3, <1>4, <2>1 DEF FullBuckets
  <2> QED BY <1>3, <1>4, <2>1, <2>2
<1>6. ASSUME NEW i \in call.cloned PROVE i \in Unwound
  <2>1. i \in Indices(table) /\ IsFull(table.ctrl[i])
    BY <1>3 DEF FullBuckets
  <2> QED BY <1>3, <1>4, <2>1 DEF Unwound
<1> QED BY <1>5, <1>6

\* The places of a window whose byte is not EMPTY stand for different buckets.
LEMMA PlacesDiffer ==
  ASSUME SoundVariants, build \in Builds, NEW t, Shaped(t), NEW p \in 0..t.buckets - 1,
         NEW k \in Offsets, NEW l \in Offsets,
         t.ctrl[p + k] # EMPTY, t.ctrl[p + l] # EMPTY
  PROVE  (p + k) % t.buckets = (p + l) % t.buckets => k = l
<1> DEFINE b == t.buckets
           x == (p + k) % b
           y == (p + l) % b
<1>1. /\ Width \in {4, 8, 16} /\ b \in Nat \ {0} /\ k \in 0..Width - 1 /\ l \in 0..Width - 1
      /\ p \in Nat /\ p < b
  BY Sized DEF Shaped, Offsets
<1>3. /\ b <= p + k /\ p + k < Width => t.ctrl[p + k] = EMPTY
      /\ b < Width /\ Width <= p + k => p + k - Width \in 0..p - 1 /\ x = p + k - Width
      /\ p + k < b => x = p + k
  BY ByteShown
<1>4. /\ b <= p + l /\ p + l < Width => t.ctrl[p + l] = EMPTY
      /\ b < Width /\ Width <= p + l => p + l - Width \in 0..p - 1 /\ y = p + l - Width
      /\ p + l < b => y = p + l
  BY ByteShown
<1>5. CASE b >= Width
  <2>1. ASSUME x = y PROVE Multiple((p + k) - (p + l), b)
    <3>1. p + k \in Int /\ p + l \in Int
      BY <1>1
    <3> QED BY <1>1, <2>1, <3>1, SameRemainder
  <2> HIDE DEF b
  <2>2. (p + k) - (p + l) = k - l /\ k - l \in Int
    BY <1>1
  <2>3. -b < k - l /\ k - l < b
    BY <1>1, <1>5
  <2>4. ASSUME x = y PROVE k - l = 0
    <3>1. Multiple(k - l, b)
      BY <2>1, <2>2, <2>4
    <3> QED BY <1>1, <2>2, <2>3, <3>1, CloseMultiple
  <2>5. k - l = 0 => k = l
    BY <1>1
  <2> QED BY <2>4, <2>5 DEF b
<1>6. CASE b < Width
  <2> HIDE DEF b, x, y
  <2>1. p + k < b \/ (Width <= p + k)
    BY <1>1, <1>3
  <2>2. p + l < b \/ (Width <= p + l)
    BY <1>1, <1>4
  <2>3. CASE p + k < b /\ p + l < b
    BY <1>1, <1>3, <1>4, <2>3 DEF x, y, b
  <2>4. CASE (Width <= p + k) /\ (Width <= p + l)
    <3>1. x = p + k - Width /\ y = p + l - Width
      BY <1>3, <1>4, <1>6, <2>4
    <3>2. x = y => k = l
      BY <1>1, <3>1
    <3> QED BY <3>2 DEF x, y, b
  <2>5. CASE p + k < b /\ Width <= p + l
    <3>1. x = p + k /\ y \in 0..p - 1
      BY <1>3, <1>4, <1>6, <2>5
    <3>2. x # y
      BY <1>1, <3>1
    <3> QED BY <3>2 DEF x, y, b
  <2>6. CASE p + l < b /\ Width <= p + k
    <3>1. y = p + l /\ x \in 0..p - 1
      BY <1>3, <1>4, <1>6, <2>6
    <3>2. x # y
      BY <1>1, <3>1
    <3> QED BY <3>2 DEF x, y, b
  <2> QED BY <2>1, <2>2, <2>3, <2>4, <2>5, <2>6
<1> QED BY <1>1, <1>5, <1>6

\* iter_hash in a table at rest.
LEMMA HashIterationRests ==
  ASSUME SoundVariants, build \in Builds, NEW t, Shaped(t), NEW hash \in Hashes,
         \A i \in Indices(t) : t.slot[i] # None => i \in FullBuckets(t),
         \A i \in FullBuckets(t) : t.ctrl[i] = Tag(t.slot[i]) /\ Reached(t, i, t.slot[i])
  PROVE  LET bucket(place) == BucketAt(t, hash, place)
             places == HashIterReturns(t, hash)
         IN /\ {i \in Indices(t) : t.slot[i] = hash} \subseteq {bucket(p) : p \in places}
            /\ \A p, q \in places : bucket(p) = bucket(q) => p = q
<1> DEFINE b == t.buckets
           places == HashIterReturns(t, hash)
<1>1. Width \in {4, 8, 16} /\ b \in Nat \ {0} /\ b \in BucketCounts /\ Indices(t) = 0..b - 1
  BY Sized DEF Shaped
<1>2. Probes(t) = ProbesIn(b) /\ ProbesIn(b) \subseteq Nat
      /\ \A n \in ProbesIn(b) : 0..n - 1 \subseteq ProbesIn(b) /\ (b <= Width => n = 0)
  BY <1>1, ProbeFacts
<1>3. Tag(hash) \in 0..127 /\ hash # None
  BY ByteFacts, HashAssumption
<1>4. ASSUME NEW i \in Indices(t), t.slot[i] = hash
      PROVE  \E p \in places : BucketAt(t, hash, p) = i
  <2>1. i \in FullBuckets(t) /\ t.ctrl[i] = Tag(hash) /\ Reached(t, i, hash)
    BY <1>3, <1>4
  <2>2. PICK n \in ProbesIn(b) :
          /\ i \in WindowIn(b, hash, n)
          /\ \A m \in 0..n - 1 : \A j \in WindowIn(b, hash, m) : t.ctrl[j] # EMPTY
    BY <2>1 DEF Reached
  <2>3. n \in WindowsOf(t, hash)
    <3>1. ASSUME NEW m \in 0..n - 1 PROVE EmptyAt(t, Position(t, hash, m)) = {}
      <4>1. m \in Nat /\ n # 0 /\ n \in Nat
        BY <1>2
      <4>2. b >= Width
        BY <1>1, <1>2, <4>1
      <4> QED BY <2>2, <4>1, <4>2, WindowShows
    <3> QED BY <1>2, <2>2, <3>1 DEF WindowsOf
  <2>4. n \in Nat
    BY <1>2, <2>2
  <2>5. PICK k \in Offsets :
          (Position(t, hash, n) + k) % b = i /\ t.ctrl[Position(t, hash, n) + k] = t.ctrl[i]
    BY <2>2, <2>4, WindowShows
  <2>6. <<n, k>> \in places
    BY <2>1, <2>3, <2>5 DEF HashIterReturns
  <2>7. BucketAt(t, hash, <<n, k>>) = i
    BY <2>5 DEF BucketAt
  <2> QED BY <2>6, <2>7
<1>5. ASSUME NEW p \in places
      PROVE  \E n \in ProbesIn(b) : \E k \in Offsets :
               /\ p = <<n, k>> /\ t.ctrl[PositionIn(b, hash, n) + k] = Tag(hash)
               /\ BucketAt(t, hash, p) = (PositionIn(b, hash, n) + k) % b
               /\ (PositionIn(b, hash, n) + k) % b \in WindowIn(b, hash, n)
               /\ PositionIn(b, hash, n) \in 0..b - 1
  <2>1. p \in WindowsOf(t, hash) \X Offsets
        /\ t.ctrl[Position(t, hash, p[1]) + p[2]] = Tag(hash)
    BY DEF HashIterReturns
  <2>2. PICK n \in WindowsOf(t, hash) : \E k \in Offsets : p = <<n, k>>
    BY <2>1
  <2>3. PICK k \in Offsets : p = <<n, k>>
    BY <2>2
  <2>4. n \in ProbesIn(b) /\ n \in Nat
    BY <1>2, <2>2 DEF WindowsOf
  <2>5. Position(t, hash, n) = PositionIn(b, hash, n) /\ PositionIn(b, hash, n) \in 0..b - 1
    BY <1>1, <2>4, PositionIs, PositionType
  <2>6. p[1] = n /\ p[2] = k
    BY <2>3
  <2>7. t.ctrl[PositionIn(b, hash, n) + k] = Tag(hash)
    BY <2>1, <2>5, <2>6
  <2>8. BucketAt(t, hash, p) = (PositionIn(b, hash, n) + k) % b
    BY <2>5, <2>6 DEF BucketAt
  <2>9. (PositionIn(b, hash, n) + k) % b \in WindowIn(b, hash, n)
    BY DEF WindowIn
  <2> QED BY <2>3, <2>4, <2>5, <2>7, <2>8, <2>9
<1>6. ASSUME NEW pos \in 0..b - 1, NEW k \in Offsets, NEW l \in Offsets
      PROVE  /\ t.ctrl[pos + k] = Tag(hash) /\ t.ctrl[pos + l] = Tag(hash)
             /\ (pos + k) % b = (pos + l) % b
             => k = l
  <2>1. Tag(hash) # EMPTY
    BY <1>3, ByteFacts
  <2>2. SUFFICES ASSUME t.ctrl[pos + k] # EMPTY, t.ctrl[pos + l] # EMPTY
                 PROVE  (pos + k) % b = (pos + l) % b => k = l
    BY <2>1
  <2> QED BY <2>2, PlacesDiffer
<1>7. ASSUME NEW p \in places, NEW q \in places, BucketAt(t, hash, p) = BucketAt(t, hash, q)
      PROVE  p = q
  <2>1. PICK n \in ProbesIn(b) : \E k \in Offsets :
          /\ p = <<n, k>> /\ t.ctrl[PositionIn(b, hash, n) + k] = Tag(hash)
          /\ BucketAt(t, hash, p) = (PositionIn(b, hash, n) + k) % b
          /\ (PositionIn(b, hash, n) + k) % b \in WindowIn(b, hash, n)
          /\ PositionIn(b, hash, n) \in 0..b - 1
    BY <1>5
  <2>2. PICK k \in Offsets :
          /\ p = <<n, k>> /\ t.ctrl[PositionIn(b, hash, n) + k] = Tag(hash)
          /\ BucketAt(t, hash, p) = (PositionIn(b, hash, n) + k) % b
          /\ (PositionIn(b, hash, n) + k) % b \in WindowIn(b, hash, n)
          /\ PositionIn(b, hash, n) \in 0..b - 1
    BY <2>1
  <2>3. PICK m \in ProbesIn(b) : \E l \in Offsets :
          /\ q = <<m, l>> /\ t.ctrl[PositionIn(b, hash, m) + l] = Tag(hash)
          /\ BucketAt(t, hash, q) = (PositionIn(b, hash, m) + l) % b
          /\ (PositionIn(b, hash, m) + l) % b \in WindowIn(b, hash, m)
          /\ PositionIn(b, hash, m) \in 0..b - 1
    BY <1>5
  <2>4. PICK l \in Offsets :
          /\ q = <<m, l>> /\ t.ctrl[PositionIn(b, hash, m) + l] = Tag(hash)
          /\ BucketAt(t, hash, q) = (PositionIn(b, hash, m) + l) % b
          /\ (PositionIn(b, hash, m) + l) % b \in WindowIn(b, hash, m)
          /\ PositionIn(b, hash, m) \in 0..b - 1
    BY <2>3
  <2> DEFINE i == BucketAt(t, hash, p)
  <2>5. i \in WindowIn(b, hash, n) /\ i \in WindowIn(b, hash, m)
    BY <1>7, <2>2, <2>4
  <2>6. i \in 0..b - 1
    BY <1>1, <1>2, <2>5, PositionType
  <2>7. n = m
    <3> HIDE DEF i
    <3> QED BY <1>1, <2>5, <2>6, WindowsDisjoint
  <2> DEFINE pos == PositionIn(b, hash, n)
  <2>8. /\ pos \in 0..b - 1 /\ t.ctrl[pos + k] = Tag(hash) /\ t.ctrl[pos + l] = Tag(hash)
        /\ (pos + k) % b = (pos + l) % b
    BY <1>7, <2>2, <2>4, <2>7
  <2>9. k = l
    <3> HIDE DEF pos
    <3> QED BY <1>6, <2>8
  <2> QED BY <2>2, <2>4, <2>7, <2>9
<1> QED BY <1>4, <1>7

LEMMA RawHashIteration == ASSUME SoundVariants, RawInv PROVE HashIterationIsExact
<1> SUFFICES ASSUME ~rehashing, NEW hash \in Hashes
             PROVE  LET bucket(place) == BucketAt(table, hash, place)
                        places == HashIterReturns(table, hash)
                    IN /\ {i \in Indices(table) : table.slot[i] = hash}
                            \subseteq {bucket(p) : p \in places}
                       /\ \A p, q \in places : bucket(p) = bucket(q) => p = q
  BY DEF HashIterationIsExact
<1>1. build \in Builds /\ AtRest(table) /\ Shaped(table)
  BY TableFacts
<1>2. \A i \in Indices(table) : table.slot[i] # None => i \in FullBuckets(table)
  BY <1>1 DEF AtRest, FullBuckets
<1>3. \A i \in FullBuckets(table) :
        table.ctrl[i] = Tag(table.slot[i]) /\ Reached(table, i, table.slot[i])
  BY <1>1 DEF AtRest
<1> QED BY <1>1, <1>2, <1>3, HashIterationRests

------------------------------------------------------------------------------
(* Theorems *)

LEMMA CallsStart == ASSUME SoundVariants, CallsInit PROVE CallsInv
<1>1. RawInv /\ call = NoCall
  BY RawStart DEF CallsInit
<1> QED BY <1>1 DEF CallsInv, CallInv

\* The inductive invariant holds in every state of the calls.
LEMMA CallsInvariant == ASSUME SoundVariants PROVE CallsSpec => []CallsInv
<1>1. CallsInit => CallsInv
  BY CallsStart
<1>2. CallsInv /\ [CallsNext]_callVars => CallsInv'
  BY CallsStep
<1> QED BY <1>1, <1>2, PTL DEF CallsSpec

\* Whatever sequence of calls is made, finished or broken off, the table keeps its type:
\* a power of two of buckets, growth_left neither below zero nor above the load factor,
\* every byte a tag or one of the two special ones and every slot an element or none.
THEOREM TableIsTyped == ASSUME SoundVariants PROVE CallsSpec => []TypeOK
<1>1. CallsInv => TypeOK
  BY RawTypes DEF CallsInv
<1> QED BY <1>1, CallsInvariant, PTL

\* Nothing hides an element: whatever was inserted, erased, moved by a resize or by a
\* rehash in place that is still going on, find_inner comes to each element it could
\* return before an EMPTY byte ends the search.
THEOREM EveryElementIsFound == ASSUME SoundVariants PROVE CallsSpec => []ElementsAreFound
<1>1. CallsInv => ElementsAreFound
  BY RawFound DEF CallsInv
<1> QED BY <1>1, CallsInvariant, PTL

\* The loops of find_inner and find_insert_slot end, for every hash: there is always a
\* byte to insert at, and at rest an EMPTY one, in one of the windows of the probe.
THEOREM EverySearchEnds == ASSUME SoundVariants PROVE CallsSpec => []SearchesEnd
<1>1. CallsInv => SearchesEnd
  BY RawSearches DEF CallsInv
<1> QED BY <1>1, CallsInvariant, PTL

\* growth_left is what the load factor leaves after elements and tombstones, in spite of
\* erase, inserts over tombstones, resize, both ends of a rehash, and elements put back.
THEOREM GrowthStaysAccounted == ASSUME SoundVariants PROVE CallsSpec => []GrowthIsAccounted
<1>1. CallsInv => GrowthIsAccounted
  BY RawCounts DEF CallsInv
<1> QED BY <1>1, CallsInvariant, PTL

\* set_ctrl and the two rewrites of all bytes keep the bytes past the last bucket equal to
\* the first ones, in tables smaller than a window too.
THEOREM MirrorStaysEqual == ASSUME SoundVariants PROVE CallsSpec => []MirrorAgrees
<1>1. CallsInv => MirrorAgrees
  BY RawMirror DEF CallsInv
<1> QED BY <1>1, CallsInvariant, PTL

\* erase leaves no tombstone in a table smaller than a window.
THEOREM NoTombstonesInSmallTables ==
  ASSUME SoundVariants PROVE CallsSpec => []SmallTablesHaveNoTombstones
<1>1. CallsInv => SmallTablesHaveNoTombstones
  BY RawCounts DEF CallsInv
<1> QED BY <1>1, CallsInvariant, PTL

\* len() is the number of full buckets whenever the table is at rest, after a hash function
\* that panicked or a caller's function that did as well.
THEOREM ItemsStayCounted == ASSUME SoundVariants PROVE CallsSpec => []ItemsCountFullBuckets
<1>1. CallsInv => ItemsCountFullBuckets
  BY RawCounts DEF CallsInv
<1> QED BY <1>1, CallsInvariant, PTL

\* An iterator returns each element once and does not read past the last group, whatever
\* the caller has erased behind it.
THEOREM IterationStaysExact == ASSUME SoundVariants PROVE CallsSpec => []IterationIsExact
<1>1. CallsInv => IterationIsExact
  BY CallsIterate
<1> QED BY <1>1, CallsInvariant, PTL

\* iter_hash returns every element of a hash, and no bucket twice.
THEOREM HashIterationStaysExact ==
  ASSUME SoundVariants PROVE CallsSpec => []HashIterationIsExact
<1>1. CallsInv => HashIterationIsExact
  BY RawHashIteration DEF CallsInv
<1> QED BY <1>1, CallsInvariant, PTL

\* When the clone of an element panics, the guard drops exactly the elements cloned so far.
THEOREM UnwindDropsExactly == ASSUME SoundVariants PROVE CallsSpec => []UnwindDropsCloned
<1>1. CallsInv => UnwindDropsCloned
  BY CallsUnwind
<1> QED BY <1>1, CallsInvariant, PTL

------------------------------------------------------------------------------
(* The bag of elements *)

\* What the table is to its caller.
Bag(t) == [hash \in Hashes |-> Cardinality({i \in Indices(t) : t.slot[i] = hash})]

LEMMA BagIs == ASSUME NEW t PROVE \A hash \in Hashes : Bag(t)[hash] = SlotCount(t.buckets, t.slot, hash)
BY DEF Bag, SlotCount, SlotsWith, Indices

LEMMA BagStays ==
  ASSUME NEW t, NEW u, \A hash \in Hashes :
           SlotCount(u.buckets, u.slot, hash) = SlotCount(t.buckets, t.slot, hash)
  PROVE  Bag(u) = Bag(t)
<1>1. \A hash \in Hashes : Bag(u)[hash] = Bag(t)[hash]
  BY BagIs
<1>2. Bag(u) = [hash \in Hashes |-> Bag(u)[hash]] /\ Bag(t) = [hash \in Hashes |-> Bag(t)[hash]]
  BY DEF Bag
<1> QED BY <1>1, <1>2

LEMMA BagType == ASSUME NEW t, t.buckets \in Nat PROVE Bag(t) \in [Hashes -> Nat]
<1>1. \A hash \in Hashes : Bag(t)[hash] \in Nat
  BY BagIs, NextSlot
<1>2. Bag(t) = [hash \in Hashes |-> Bag(t)[hash]]
  BY DEF Bag
<1> QED BY <1>1, <1>2

\* The slots differ in one bucket, which was free.
LEMMA BagAdds ==
  ASSUME NEW t, NEW u, t.buckets \in Nat, u.buckets = t.buckets, NEW i \in Indices(t),
         NEW hash \in Hashes, t.slot[i] = None, u.slot[i] = hash,
         \A j \in Indices(t) : j # i => u.slot[j] = t.slot[j]
  PROVE  Bag(u) = [Bag(t) EXCEPT ![hash] = @ + 1]
<1>1. ChangedAt(t.buckets, t.slot, u.slot, i)
  BY DEF ChangedAt, Indices
<1>2. \A h \in Hashes : t.slot[i] # h
  BY HashAssumption
<1>3. ASSUME NEW h \in Hashes PROVE Bag(u)[h] = IF h = hash THEN Bag(t)[h] + 1 ELSE Bag(t)[h]
  <2>1. /\ u.slot[i] = h => SlotCount(t.buckets, u.slot, h) = SlotCount(t.buckets, t.slot, h) + 1
        /\ u.slot[i] # h => SlotCount(t.buckets, u.slot, h) = SlotCount(t.buckets, t.slot, h)
    BY <1>1, <1>2, OneSlot
  <2>2. Bag(u)[h] = SlotCount(t.buckets, u.slot, h) /\ Bag(t)[h] = SlotCount(t.buckets, t.slot, h)
    BY BagIs
  <2> QED BY <2>1, <2>2
<1>4. Bag(u) = [h \in Hashes |-> Bag(u)[h]] /\ Bag(t) = [h \in Hashes |-> Bag(t)[h]]
  BY DEF Bag
<1> QED BY <1>3, <1>4

\* One bucket becomes free.
LEMMA BagTakes ==
  ASSUME NEW t, NEW u, t.buckets \in Nat, u.buckets = t.buckets, NEW i \in Indices(t),
         NEW hash \in Hashes, t.slot[i] = hash, u.slot[i] = None,
         \A j \in Indices(t) : j # i => u.slot[j] = t.slot[j]
  PROVE  Bag(t)[hash] > 0 /\ Bag(u) = [Bag(t) EXCEPT ![hash] = @ - 1]
<1>1. i \in Indices(u) /\ u.buckets \in Nat /\ \A j \in Indices(u) : j # i => t.slot[j] = u.slot[j]
  BY DEF Indices
<1>2. Bag(t) = [Bag(u) EXCEPT ![hash] = @ + 1]
  BY <1>1, BagAdds
<1>3. Bag(u) \in [Hashes -> Nat] /\ Bag(t) \in [Hashes -> Nat]
  BY <1>1, BagType
<1> DEFINE taken == [Bag(t) EXCEPT ![hash] = @ - 1]
<1>4. /\ Bag(t)[hash] = Bag(u)[hash] + 1
      /\ \A h \in Hashes : h # hash => Bag(t)[h] = Bag(u)[h]
      /\ \A h \in Hashes : Bag(u)[h] \in Nat
  BY <1>2, <1>3
<1>5. \A h \in Hashes : taken[h] = Bag(u)[h]
  BY <1>3, <1>4
<1>6. taken = [h \in Hashes |-> taken[h]] /\ Bag(u) = [h \in Hashes |-> Bag(u)[h]]
  BY <1>3
<1> HIDE DEF taken
<1>7. taken = Bag(u)
  BY <1>5, <1>6
<1> QED BY <1>4, <1>7 DEF taken

LEMMA BagEmpty ==
  ASSUME NEW b
  PROVE  Bag(EmptyTable(b)) = [hash \in Hashes |-> 0]
<1>1. ASSUME NEW hash \in Hashes
      PROVE  {i \in Indices(EmptyTable(b)) : EmptyTable(b).slot[i] = hash} = {}
  BY HashAssumption DEF EmptyTable, Indices
<1> QED BY <1>1, FS_EmptySet DEF Bag


LEMMA TakeThenAdd ==
  ASSUME NEW bag \in [Hashes -> Nat], NEW hash \in Hashes, NEW less, NEW more,
         less = [bag EXCEPT ![hash] = @ - 1], more = [less EXCEPT ![hash] = @ + 1]
  PROVE  more = bag
<1>1. \A h \in Hashes : more[h] = bag[h]
  OBVIOUS
<1>2. more = [h \in Hashes |-> more[h]] /\ bag = [h \in Hashes |-> bag[h]]
  OBVIOUS
<1> QED BY <1>1, <1>2

\* Between two tables, an element is taken out of one bucket and put into another.
LEMMA BagMoves ==
  ASSUME NEW t, NEW u, t.buckets \in Nat, u.buckets = t.buckets,
         NEW i \in Indices(t), NEW place \in Indices(t), i # place,
         t.slot[i] \in Hashes, t.slot[place] = None,
         \A j \in Indices(t) :
           u.slot[j] = IF j = i THEN None ELSE IF j = place THEN t.slot[i] ELSE t.slot[j]
  PROVE  Bag(u) = Bag(t)
<1> DEFINE hash == t.slot[i]
           r == [buckets |-> t.buckets,
                 slot |-> [j \in Indices(t) |-> IF j = i THEN None ELSE t.slot[j]]]
<1>1. /\ r.buckets = t.buckets /\ Indices(r) = Indices(t)
      /\ \A j \in Indices(t) : r.slot[j] = IF j = i THEN None ELSE t.slot[j]
  BY DEF Indices
<1> HIDE DEF r
<1>2. Bag(t)[hash] > 0 /\ Bag(r) = [Bag(t) EXCEPT ![hash] = @ - 1]
  <2>1. r.slot[i] = None /\ \A j \in Indices(t) : j # i => r.slot[j] = t.slot[j]
    BY <1>1
  <2> QED BY <1>1, <2>1, BagTakes
<1>3. Bag(u) = [Bag(r) EXCEPT ![hash] = @ + 1]
  <2>1. /\ r.slot[place] = None /\ u.slot[place] = hash
        /\ \A j \in Indices(r) : j # place => u.slot[j] = r.slot[j]
    BY <1>1
  <2>2. r.buckets \in Nat /\ u.buckets = r.buckets /\ place \in Indices(r) /\ hash \in Hashes
    BY <1>1
  <2> HIDE DEF hash
  <2> QED BY <2>1, <2>2, BagAdds
<1>4. Bag(t) \in [Hashes -> Nat]
  BY BagType
<1> HIDE DEF hash
<1>5. hash \in Hashes
  BY DEF hash
<1> QED BY <1>2, <1>3, <1>4, <1>5, TakeThenAdd

LEMMA BagSwaps ==
  ASSUME NEW t, NEW u, t.buckets \in Nat, u.buckets = t.buckets,
         NEW i \in Indices(t), NEW place \in Indices(t), i # place,
         t.slot[i] \in Hashes, t.slot[place] \in Hashes,
         \A j \in Indices(t) :
           u.slot[j] = IF j = i THEN t.slot[place] ELSE IF j = place THEN t.slot[i] ELSE t.slot[j]
  PROVE  Bag(u) = Bag(t)
<1> DEFINE hash == t.slot[place]
           r == [buckets |-> t.buckets,
                 slot |-> [j \in Indices(t) |-> IF j = place THEN None ELSE t.slot[j]]]
           s == [buckets |-> t.buckets,
                 slot |-> [j \in Indices(t) |->
                             IF j = i THEN None ELSE IF j = place THEN t.slot[i] ELSE t.slot[j]]]
<1>1. /\ r.buckets = t.buckets /\ Indices(r) = Indices(t)
      /\ \A j \in Indices(t) : r.slot[j] = IF j = place THEN None ELSE t.slot[j]
  BY DEF Indices
<1>2. /\ s.buckets = t.buckets /\ Indices(s) = Indices(t)
      /\ \A j \in Indices(t) :
           s.slot[j] = IF j = i THEN None ELSE IF j = place THEN t.slot[i] ELSE t.slot[j]
  BY DEF Indices
<1> HIDE DEF r, s
<1>3. Bag(t)[hash] > 0 /\ Bag(r) = [Bag(t) EXCEPT ![hash] = @ - 1]
  <2>1. r.slot[place] = None /\ \A j \in Indices(t) : j # place => r.slot[j] = t.slot[j]
    BY <1>1
  <2> QED BY <1>1, <2>1, BagTakes
<1>4. Bag(s) = Bag(r)
  <2>1. /\ r.buckets \in Nat /\ s.buckets = r.buckets
        /\ i \in Indices(r) /\ place \in Indices(r)
        /\ r.slot[i] \in Hashes /\ r.slot[place] = None
        /\ \A j \in Indices(r) :
             s.slot[j] = IF j = i THEN None ELSE IF j = place THEN r.slot[i] ELSE r.slot[j]
    BY <1>1, <1>2
  <2> QED BY <2>1, BagMoves
<1>5. Bag(u) = [Bag(s) EXCEPT ![hash] = @ + 1]
  <2>1. /\ s.slot[i] = None /\ u.slot[i] = hash
        /\ \A j \in Indices(s) : j # i => u.slot[j] = s.slot[j]
    BY <1>2
  <2>2. s.buckets \in Nat /\ u.buckets = s.buckets /\ i \in Indices(s) /\ hash \in Hashes
    BY <1>2
  <2> HIDE DEF hash
  <2> QED BY <2>1, <2>2, BagAdds
<1>6. Bag(t) \in [Hashes -> Nat]
  BY BagType
<1>7. hash \in Hashes
  OBVIOUS
<1> HIDE DEF hash
<1> QED BY <1>3, <1>4, <1>5, <1>6, <1>7, TakeThenAdd

\* Buckets become free.
LEMMA BagShrinks ==
  ASSUME NEW t, NEW u, t.buckets \in Nat, u.buckets = t.buckets,
         \A j \in Indices(t) : u.slot[j] \in {t.slot[j], None}
  PROVE  Bag(u) \in [Hashes -> Nat] /\ \A hash \in Hashes : Bag(u)[hash] <= Bag(t)[hash]
<1>1. Bag(u) \in [Hashes -> Nat]
  BY BagType
<1>2. ASSUME NEW hash \in Hashes PROVE Bag(u)[hash] <= Bag(t)[hash]
  <2> DEFINE before == SlotsWith(t.buckets, t.slot, hash)
             after == SlotsWith(t.buckets, u.slot, hash)
  <2>1. IsFiniteSet(before)
    BY NextSlot
  <2>2. after \subseteq before
    BY HashAssumption DEF SlotsWith, Indices
  <2>3. Bag(u)[hash] = Cardinality(after) /\ Bag(t)[hash] = Cardinality(before)
    BY BagIs DEF SlotCount
  <2> HIDE DEF before, after
  <2> QED BY <2>1, <2>2, <2>3, FS_Subset
<1> QED BY <1>1, <1>2


------------------------------------------------------------------------------
(* Every step is one of the bag *)

\* What a step may make of the bag: nothing, an element more or less, no element, or, with
\* a hash function that panics, any number fewer.
BagStep(t, u) ==
  \/ Bag(u) = Bag(t)
  \/ \E hash \in Hashes : Bag(u) = [Bag(t) EXCEPT ![hash] = @ + 1]
  \/ \E hash \in Hashes : Bag(t)[hash] > 0 /\ Bag(u) = [Bag(t) EXCEPT ![hash] = @ - 1]
  \/ Bag(u) = [hash \in Hashes |-> 0]
  \/ /\ build.hasherPanics /\ Bag(u) \in [Hashes -> Nat]
     /\ \A hash \in Hashes : Bag(u)[hash] <= Bag(t)[hash]

LEMMA Sizes ==
  ASSUME SoundVariants, build \in Builds, NEW t, AtRest(t) \/ InRehash(t)
  PROVE  Shaped(t) /\ t.buckets \in Nat /\ Indices(t) = 0..t.buckets - 1
<1>1. Shaped(t) /\ t.buckets \in BucketCounts
  BY DEF AtRest, InRehash, Shaped
<1> QED BY <1>1, Sized

LEMMA InsertedInBag ==
  ASSUME SoundVariants, build \in Builds, NEW t, AtRest(t), NEW hash \in Hashes,
         t.ctrl[FindInsertSlot(t, hash)] = EMPTY => t.growthLeft > 0
  PROVE  Bag(Inserted(t, hash)) = [Bag(t) EXCEPT ![hash] = @ + 1]
<1> DEFINE u == Inserted(t, hash)
<1>1. /\ u.buckets = t.buckets
      /\ \E i \in Indices(t) :
           /\ t.slot[i] = None
           /\ \A j \in Indices(t) : u.slot[j] = IF j = i THEN hash ELSE t.slot[j]
  BY InsertedKeeps
<1>2. t.buckets \in Nat
  BY Sizes
<1> HIDE DEF u
<1>3. PICK i \in Indices(t) :
        /\ t.slot[i] = None
        /\ \A j \in Indices(t) : u.slot[j] = IF j = i THEN hash ELSE t.slot[j]
  BY <1>1
<1>4. u.slot[i] = hash /\ \A j \in Indices(t) : j # i => u.slot[j] = t.slot[j]
  BY <1>3
<1>5. Bag(u) = [Bag(t) EXCEPT ![hash] = @ + 1]
  BY <1>1, <1>2, <1>3, <1>4, BagAdds
<1> QED BY <1>5 DEF u

LEMMA ErasedFromBag ==
  ASSUME SoundVariants, build \in Builds, NEW t, AtRest(t), NEW i \in FullBuckets(t)
  PROVE  BagStep(t, Erased(t, i))
<1> DEFINE u == Erased(t, i)
           hash == t.slot[i]
<1>1. /\ u.buckets = t.buckets /\ i \in Indices(t)
      /\ \A j \in Indices(t) : u.slot[j] = IF j = i THEN None ELSE t.slot[j]
  BY EraseKeeps
<1>2. t.buckets \in Nat /\ hash \in Hashes
  BY Sizes, RestFacts
<1> HIDE DEF u
<1>3. u.slot[i] = None /\ \A j \in Indices(t) : j # i => u.slot[j] = t.slot[j]
  BY <1>1
<1>4. Bag(t)[hash] > 0 /\ Bag(u) = [Bag(t) EXCEPT ![hash] = @ - 1]
  BY <1>1, <1>2, <1>3, BagTakes
<1>5. BagStep(t, u)
  BY <1>2, <1>4 DEF BagStep
<1> QED BY <1>5 DEF u

LEMMA PreparedBag ==
  ASSUME SoundVariants, build \in Builds, NEW t, AtRest(t),
         t.items < BucketMaskToCapacity(t.buckets)
  PROVE  Bag(PreparedForRehash(t)) = Bag(t)
<1>1. PreparedForRehash(t).buckets = t.buckets /\ PreparedForRehash(t).slot = t.slot
  BY PrepareKeeps
<1> QED BY <1>1, BagStays

\* reserve_rehash for a new element, and then the insert.
LEMMA RoomInBag ==
  ASSUME SoundVariants, RawInv, ~rehashing, NEW hash \in Hashes, table.items < MaxItems,
         \/ /\ ReserveResizes(table, 1)
            /\ Becomes(Inserted(Resized(table, GrownCapacity(table, 1)), hash))
         \/ ReserveRehashes(table, 1) /\ BeginRehash(hash)
  PROVE  BagStep(table, table')
<1>1. /\ build \in Builds /\ AtRest(table) /\ Bounded(table) /\ table.items \in Nat
      /\ BucketMaskToCapacity(table.buckets) \in Nat /\ table.buckets <= MaxBuckets
      /\ MaxItems \in Nat /\ MaxReserve \in Nat
  BY BeforeCall
<1>2. CASE /\ ReserveResizes(table, 1)
           /\ Becomes(Inserted(Resized(table, GrownCapacity(table, 1)), hash))
  <2> DEFINE v == Resized(table, GrownCapacity(table, 1))
  <2>1. table.items + 1 <= MaxItems + MaxReserve
    BY <1>1
  <2>2. /\ AtRest(v) /\ 1 <= v.growthLeft
        /\ \A h \in Hashes : SlotCount(v.buckets, v.slot, h) = SlotCount(table.buckets, table.slot, h)
    BY <1>1, <1>2, <2>1, GrowKeeps DEF ReserveResizes
  <2>3. table' = Inserted(v, hash)
    BY <1>2 DEF Becomes
  <2> HIDE DEF v
  <2>4. v.growthLeft > 0
    <3>1. v.growthLeft \in Nat
      BY <2>2 DEF AtRest
    <3> QED BY <2>2, <3>1
  <2>5. Bag(v) = Bag(table)
    BY <2>2, BagStays
  <2>6. Bag(Inserted(v, hash)) = [Bag(v) EXCEPT ![hash] = @ + 1]
    BY <1>1, <2>2, <2>4, InsertedInBag
  <2> QED BY <2>3, <2>5, <2>6 DEF BagStep
<1>3. CASE ReserveRehashes(table, 1) /\ BeginRehash(hash)
  <2>1. table.items < BucketMaskToCapacity(table.buckets)
    <3>1. table.items + 1 <= BucketMaskToCapacity(table.buckets) \div 2
      BY <1>3 DEF ReserveRehashes
    <3> QED BY <1>1, <3>1
  <2>2. table' = PreparedForRehash(table)
    BY <1>3 DEF BeginRehash
  <2> QED BY <1>1, <2>1, <2>2, PreparedBag DEF BagStep
<1> QED BY <1>2, <1>3

LEMMA InsertInBag ==
  ASSUME SoundVariants, RawInv, NEW hash \in Hashes, Insert(hash) \/ FindOrInsert(hash)
  PROVE  BagStep(table, table')
<1>1. ~rehashing /\ table.items < MaxItems
  BY DEF Insert, FindOrInsert
<1>2. build \in Builds /\ AtRest(table) /\ table.growthLeft \in Nat
  BY <1>1, BeforeCall
<1>3. CASE /\ table.ctrl[FindInsertSlot(table, hash)] = EMPTY => table.growthLeft > 0
           /\ Becomes(Inserted(table, hash))
  <2>1. Bag(Inserted(table, hash)) = [Bag(table) EXCEPT ![hash] = @ + 1]
    BY <1>2, <1>3, InsertedInBag
  <2>2. table' = Inserted(table, hash)
    BY <1>3 DEF Becomes
  <2> QED BY <2>1, <2>2 DEF BagStep
<1>4. CASE \/ /\ ReserveResizes(table, 1)
              /\ Becomes(Inserted(Resized(table, GrownCapacity(table, 1)), hash))
           \/ ReserveRehashes(table, 1) /\ BeginRehash(hash)
  BY <1>1, <1>4, RoomInBag
<1>5. CASE Insert(hash)
  <2>1. \/ /\ ~(table.growthLeft = 0 /\ table.ctrl[FindInsertSlot(table, hash)] = EMPTY)
           /\ Becomes(Inserted(table, hash))
        \/ /\ ReserveResizes(table, 1)
           /\ Becomes(Inserted(Resized(table, GrownCapacity(table, 1)), hash))
        \/ ReserveRehashes(table, 1) /\ BeginRehash(hash)
    BY <1>5 DEF Insert
  <2>2. table.growthLeft # 0 => table.growthLeft > 0
    BY <1>2
  <2> QED BY <1>3, <1>4, <2>1, <2>2
<1>6. CASE FindOrInsert(hash)
  <2>1. \/ table.growthLeft > 0 /\ Becomes(Inserted(table, hash))
        \/ /\ ReserveResizes(table, 1)
           /\ Becomes(Inserted(Resized(table, GrownCapacity(table, 1)), hash))
        \/ ReserveRehashes(table, 1) /\ BeginRehash(hash)
    BY <1>6 DEF FindOrInsert
  <2> QED BY <1>3, <1>4, <2>1
<1> QED BY <1>5, <1>6

LEMMA ReserveInBag ==
  ASSUME SoundVariants, RawInv, NEW n \in 0..MaxReserve, Reserve(n)
  PROVE  BagStep(table, table')
<1>1. ~rehashing
  BY DEF Reserve, Becomes, BeginRehash
<1>2. /\ build \in Builds /\ AtRest(table) /\ table.items \in 0..MaxItems
      /\ table.growthLeft \in Nat /\ MaxItems \in Nat /\ MaxReserve \in Nat /\ n \in Nat
      /\ BucketMaskToCapacity(table.buckets) \in Nat /\ table.buckets <= MaxBuckets
  BY <1>1, BeforeCall
<1>3. table.items + n <= MaxItems + MaxReserve
  BY <1>2
<1>4. CASE ReserveResizes(table, n) /\ Becomes(Resized(table, GrownCapacity(table, n)))
  <2> DEFINE u == Resized(table, GrownCapacity(table, n))
  <2>1. \A h \in Hashes : SlotCount(u.buckets, u.slot, h) = SlotCount(table.buckets, table.slot, h)
    BY <1>2, <1>3, <1>4, GrowKeeps DEF ReserveResizes
  <2>2. table' = u
    BY <1>4 DEF Becomes
  <2> HIDE DEF u
  <2> QED BY <2>1, <2>2, BagStays DEF BagStep
<1>5. CASE ReserveRehashes(table, n) /\ BeginRehash(None)
  <2>1. table.items < BucketMaskToCapacity(table.buckets)
    <3>1. table.items + n <= BucketMaskToCapacity(table.buckets) \div 2 /\ n > table.growthLeft
      BY <1>5 DEF ReserveRehashes
    <3> QED BY <1>2, <3>1
  <2>2. table' = PreparedForRehash(table)
    BY <1>5 DEF BeginRehash
  <2> QED BY <1>2, <2>1, <2>2, PreparedBag DEF BagStep
<1> QED BY <1>4, <1>5 DEF Reserve

LEMMA ShrinkInBag ==
  ASSUME SoundVariants, RawInv, NEW n \in 0..MaxReserve, ShrinkTo(n)
  PROVE  BagStep(table, table')
<1> DEFINE size == Max({table.items, n})
<1>1. ~rehashing
  BY DEF ShrinkTo, Becomes
<1>2. /\ build \in Builds /\ AtRest(table) /\ table.items \in 0..MaxItems /\ table.items \in Nat
      /\ MaxItems \in Nat /\ MaxReserve \in Nat /\ MaxBuckets \in Nat /\ n \in Nat
  BY <1>1, BeforeCall, BoundAssumption
<1>3. size \in Asked /\ table.items <= size
  <2>1. size \in {table.items, n} /\ table.items <= size
    BY <1>2, LargerIs
  <2> HIDE DEF size
  <2> QED BY <1>2, <2>1 DEF Asked
<1>4. CASE table' = Singleton \/ table' = WithCapacity(size)
  <2>1. \A b : Bag(EmptyTable(b)) = [hash \in Hashes |-> 0]
    BY BagEmpty
  <2> HIDE DEF size
  <2>2. Bag(table') = [hash \in Hashes |-> 0]
    BY <1>4, <2>1 DEF Singleton, WithCapacity
  <2> QED BY <2>2 DEF BagStep
<1>5. CASE table' = Resized(table, size)
  <2> DEFINE u == Resized(table, size)
  <2>1. \A h \in Hashes : SlotCount(u.buckets, u.slot, h) = SlotCount(table.buckets, table.slot, h)
    BY <1>2, <1>3, ResizeKeeps
  <2>2. table' = u
    BY <1>5
  <2> HIDE DEF u
  <2> QED BY <2>1, <2>2, BagStays DEF BagStep
<1>6. \/ Becomes(Singleton) \/ Becomes(WithCapacity(size)) \/ Becomes(Resized(table, size))
  BY DEF ShrinkTo
<1> QED BY <1>4, <1>5, <1>6 DEF Becomes

LEMMA RemoveInBag ==
  ASSUME SoundVariants, RawInv, Remove \/ Clear
  PROVE  BagStep(table, table')
<1>1. ~rehashing
  BY DEF Remove, Clear, Becomes
<1>2. build \in Builds /\ AtRest(table)
  BY <1>1, BeforeCall
<1>3. CASE Remove
  <2>1. PICK i \in FullBuckets(table) : Becomes(Erased(table, i))
    BY <1>3 DEF Remove
  <2>2. BagStep(table, Erased(table, i))
    BY <1>2, <2>1, ErasedFromBag
  <2> QED BY <2>1, <2>2 DEF Becomes
<1>4. CASE Clear
  <2>1. table' = EmptyTable(table.buckets)
    BY <1>4 DEF Clear, Becomes
  <2> QED BY <2>1, BagEmpty DEF BagStep
<1> QED BY <1>3, <1>4


LEMMA PlacingInBag ==
  ASSUME SoundVariants, RawInv, Stay \/ Move \/ Swap
  PROVE  BagStep(table, table')
<1> DEFINE i == Min(Tombstones(table))
           hash == table.slot[i]
           place == FindInsertSlot(table, hash)
<1>1. rehashing /\ Tombstones(table) # {}
  BY DEF Stay, Move, Swap, Placing
<1>2. build \in Builds /\ InRehash(table)
  BY <1>1 DEF RawInv
<1>3. /\ i \in Tombstones(table) /\ i \in Indices(table) /\ hash \in Hashes
      /\ place \in Indices(table) /\ Nearest(table, place, hash)
      /\ table.ctrl[i] = DELETED
      /\ table.ctrl[place] = EMPTY \/ table.ctrl[place] = DELETED
  BY <1>1, <1>2, NewPlaceIs
<1>4. Shaped(table) /\ table.buckets \in Nat /\ Indices(table) = 0..table.buckets - 1
  BY <1>2, Sizes
<1>5. i = Unplaced /\ place = NewPlace
  BY DEF Unplaced, NewPlace
<1>6. CASE Stay
  <2> DEFINE u == SetCtrl(table, i, Tag(hash))
  <2>1. Placing(u) /\ InSameGroup(table, i, place, hash)
    BY <1>5, <1>6 DEF Stay
  <2> HIDE DEF i, place
  <2>2. u.buckets = table.buckets /\ u.slot = table.slot
    BY <1>2, <1>3, <2>1, StayPlaces
  <2> HIDE DEF u
  <2>3. Bag(u) = Bag(table)
    BY <2>2, BagStays
  <2> QED BY <2>1, <2>3 DEF Placing, BagStep
<1>7. CASE Move
  <2> DEFINE u == [SetCtrl(Placed(table, place, hash), i, EMPTY) EXCEPT !.slot[i] = None]
  <2>1. Placing(u) /\ table.ctrl[place] = EMPTY
    BY <1>5, <1>7 DEF Move
  <2> HIDE DEF i, place
  <2>2. /\ u.buckets = table.buckets
        /\ \A j \in Indices(table) :
             u.slot[j] = IF j = i THEN None ELSE IF j = place THEN hash ELSE table.slot[j]
    BY <1>2, <1>3, <2>1, MovePlaces
  <2>3. i # place /\ table.slot[place] = None
    <3>1. EMPTY # DELETED /\ ~IsFull(EMPTY)
      BY <1>2, ByteFacts DEF Bytes
    <3> QED BY <1>2, <1>3, <2>1, <3>1 DEF InRehash
  <2> HIDE DEF u
  <2>4. Bag(u) = Bag(table)
    BY <1>3, <1>4, <2>2, <2>3, BagMoves
  <2> QED BY <2>1, <2>4 DEF Placing, BagStep
<1>8. CASE Swap
  <2> DEFINE u == [Placed(table, place, hash) EXCEPT !.slot[i] = table.slot[place]]
  <2>1. Placing(u) /\ table.ctrl[place] # EMPTY /\ ~InSameGroup(table, i, place, hash)
    BY <1>5, <1>8 DEF Swap
  <2>2. i # place
    BY <2>1 DEF InSameGroup
  <2> HIDE DEF i, place
  <2>3. /\ u.buckets = table.buckets
        /\ \A j \in Indices(table) :
             u.slot[j] = IF j = i THEN table.slot[place] ELSE IF j = place THEN hash ELSE table.slot[j]
    BY <1>2, <1>3, <2>1, <2>2, SwapPlaces
  <2>4. table.slot[place] \in Hashes
    <3>1. place \in Tombstones(table)
      BY <1>3, <2>1 DEF Tombstones
    <3> QED BY <1>2, <3>1, RehashFacts
  <2> HIDE DEF u
  <2>5. Bag(u) = Bag(table)
    BY <1>3, <1>4, <2>2, <2>3, <2>4, BagSwaps
  <2> QED BY <2>1, <2>5 DEF Placing, BagStep
<1> QED BY <1>6, <1>7, <1>8

LEMMA EndInBag ==
  ASSUME SoundVariants, RawInv, EndRehash \/ HasherPanics
  PROVE  BagStep(table, table')
<1>1. build \in Builds /\ InRehash(table) /\ pending \in Hashes \cup {None}
  BY DEF RawInv, EndRehash, HasherPanics
<1>2. table.buckets \in Nat
  BY <1>1, Sizes
<1>3. CASE EndRehash
  <2> DEFINE v == Recounted(table)
  <2>1. AtRest(v) /\ v.buckets = table.buckets /\ v.growthLeft > 0 /\ v.slot = table.slot
    BY <1>1, <1>3, EndKeeps DEF EndRehash
  <2>2. table' = IF pending = None THEN v ELSE Inserted(v, pending)
    BY <1>3 DEF EndRehash
  <2> HIDE DEF v
  <2>3. Bag(v) = Bag(table)
    BY <2>1, BagStays
  <2>4. CASE pending = None
    BY <2>2, <2>3, <2>4 DEF BagStep
  <2>5. CASE pending # None
    <3>1. pending \in Hashes
      BY <1>1, <2>5
    <3>2. Bag(Inserted(v, pending)) = [Bag(v) EXCEPT ![pending] = @ + 1]
      BY <1>1, <2>1, <3>1, InsertedInBag
    <3> QED BY <2>2, <2>3, <2>5, <3>1, <3>2 DEF BagStep
  <2> QED BY <2>4, <2>5
<1>4. CASE HasherPanics
  <2> DEFINE u == Recounted(Abandoned(table))
  <2>1. build.needsDrop /\ build.hasherPanics
    BY <1>1, <1>4, ByteFacts DEF HasherPanics
  <2>2. u.buckets = table.buckets /\ \A j \in Indices(table) : u.slot[j] \in {table.slot[j], None}
    BY <1>1, <2>1, AbandonKeeps
  <2>3. table' = u
    BY <1>4 DEF HasherPanics
  <2> HIDE DEF u
  <2>4. Bag(u) \in [Hashes -> Nat] /\ \A hash \in Hashes : Bag(u)[hash] <= Bag(table)[hash]
    BY <1>2, <2>2, BagShrinks
  <2> QED BY <2>1, <2>3, <2>4 DEF BagStep
<1> QED BY <1>3, <1>4

LEMMA RawInBag == ASSUME SoundVariants, RawInv, Next PROVE BagStep(table, table')
BY InsertInBag, ReserveInBag, ShrinkInBag, RemoveInBag, PlacingInBag, EndInBag DEF Next, RehashStep

\* The element comes back to the bucket it left.
LEMMA PutBackInBag ==
  ASSUME NEW t, Shaped(t), t.buckets \in Nat, Indices(t) = 0..t.buckets - 1, NEW c, TakenOut(c, t)
  PROVE  BagStep(t, Restored(c, t))
<1> DEFINE i == c.index
           hash == c.hash
           m == MirrorOf(t, i)
           byte == c.byte
           ctrl == [[t.ctrl EXCEPT ![i] = byte] EXCEPT ![m] = byte]
           slot == [t.slot EXCEPT ![i] = hash]
           v == SetCtrl(t, i, byte)
           w == [v EXCEPT !.slot[i] = hash]
           x == [w EXCEPT !.items = @ + 1]
           u == Restored(c, t)
<1>1. i \in Indices(t) /\ t.slot[i] = None /\ hash \in Hashes
  BY DEF TakenOut
<1>2. t.slot \in [Indices(t) -> Hashes \cup {None}] /\ Record(t)
  BY DEF Shaped
<1>3. u = [x EXCEPT !.growthLeft = c.growthLeft]
  BY DEF Restored
<1> HIDE DEF u
<1>4. v = [t EXCEPT !.ctrl = ctrl]
  BY <1>2 DEF SetCtrl, Record
<1> HIDE DEF m, byte, i, hash, v, ctrl
<1>5. v = [buckets |-> t.buckets, ctrl |-> ctrl, slot |-> t.slot,
           items |-> t.items, growthLeft |-> t.growthLeft]
  BY <1>2, <1>4 DEF Record
<1>6. w = [buckets |-> t.buckets, ctrl |-> ctrl, slot |-> slot,
           items |-> t.items, growthLeft |-> t.growthLeft]
  BY <1>5
<1> HIDE DEF w
<1>7. x = [buckets |-> t.buckets, ctrl |-> ctrl, slot |-> slot,
           items |-> t.items + 1, growthLeft |-> t.growthLeft]
  BY <1>6
<1> HIDE DEF x
<1>8. u.buckets = t.buckets /\ u.slot = slot
  BY <1>3, <1>7
<1>9. u.slot[i] = hash /\ \A j \in Indices(t) : j # i => u.slot[j] = t.slot[j]
  BY <1>1, <1>2, <1>8
<1> HIDE DEF slot
<1>10. Bag(u) = [Bag(t) EXCEPT ![hash] = @ + 1]
  BY <1>1, <1>8, <1>9, BagAdds
<1> QED BY <1>1, <1>10 DEF BagStep, u

LEMMA RefillInBag ==
  ASSUME SoundVariants, build \in Builds, NEW t, Shaped(t), t.buckets \in Nat, NEW c, TakenOut(c, t)
  PROVE  BagStep(t, InsertInSlot(t, c.index, c.hash))
<1> DEFINE i == c.index
           hash == c.hash
           v == Placed(t, i, hash)
           u == InsertInSlot(t, i, hash)
<1>1. i \in Indices(t) /\ t.slot[i] = None /\ hash \in Hashes
  BY DEF TakenOut
<1>2. /\ Shaped(v) /\ v.buckets = t.buckets
      /\ \A j \in Indices(t) : v.slot[j] = IF j = i THEN hash ELSE t.slot[j]
  BY <1>1, PlacedIs
<1>3. u = [v EXCEPT !.items = @ + 1,
                    !.growthLeft = IF t.ctrl[i] = EMPTY THEN @ - 1 ELSE @]
  BY DEF InsertInSlot
<1> HIDE DEF u, v
<1>4. u.buckets = v.buckets /\ u.slot = v.slot
  BY <1>2, <1>3 DEF Shaped, Record
<1>5. u.slot[i] = hash /\ \A j \in Indices(t) : j # i => u.slot[j] = t.slot[j]
  BY <1>1, <1>2, <1>4
<1>6. u.buckets = t.buckets
  BY <1>2, <1>4
<1> HIDE DEF i, hash
<1>7. Bag(u) = [Bag(t) EXCEPT ![hash] = @ + 1]
  BY <1>1, <1>5, <1>6, BagAdds
<1> QED BY <1>1, <1>7 DEF BagStep, u, i, hash


LEMMA CallInBag ==
  ASSUME SoundVariants, CallsInv,
         \/ BeginIteration \/ Keep \/ EraseYielded \/ EndIteration
         \/ BeginDrain \/ Drain \/ DropDrain \/ ForgetDrain
         \/ BeginClone \/ CloneElement \/ FinishClone \/ ClonePanics
         \/ BeginReplace \/ PutBack \/ LeaveOut
         \/ Vacate \/ Refill \/ DropVacant
  PROVE  BagStep(table, table')
<1>1. CASE table' = table
  BY <1>1 DEF BagStep
<1>2. CASE table' = Singleton \/ \E b : table' = EmptyTable(b)
  <2>1. PICK b : table' = EmptyTable(b)
    BY <1>2 DEF Singleton
  <2> QED BY <2>1, BagEmpty DEF BagStep
<1>3. CASE EraseYielded
  <2> DEFINE i == Yielded(call.iter, table)
             c == Passing(call, table)
  <2>1. HasNext(call.iter, table) /\ Go("iterate", c, Erased(table, i))
    BY <1>3 DEF EraseYielded
  <2> HIDE DEF c
  <2>2. /\ table' = Erased(table, i) /\ build \in Builds /\ AtRest(table) /\ Shaped(table)
        /\ CallInv(call, table) /\ call.kind = "iterate"
    BY <2>1, During
  <2>3. Iterating(call, table)
    BY <2>2, KindIs
  <2>4. i \in FullBuckets(table)
    BY <2>1, <2>2, <2>3, Advances DEF Iterating
  <2> QED BY <2>2, <2>4, ErasedFromBag
<1>4. CASE BeginReplace \/ Vacate
  <2>1. PICK i \in FullBuckets(table) : \E c : Begin(c, Erased(table, i))
    BY <1>4 DEF BeginReplace, Vacate
  <2>2. PICK c : Begin(c, Erased(table, i))
    BY <2>1
  <2>3. table' = Erased(table, i) /\ build \in Builds /\ AtRest(table)
    BY <2>2, Beginning
  <2> QED BY <2>1, <2>3, ErasedFromBag
<1>5. CASE PutBack
  <2>1. Go("replace", NoCall, Restored(call, table))
    BY <1>5 DEF PutBack, Restored
  <2>2. /\ table' = Restored(call, table) /\ build \in Builds /\ AtRest(table)
        /\ CallInv(call, table) /\ call.kind = "replace"
    BY <2>1, During
  <2>3. TakenOut(call, table)
    BY <2>2, KindIs DEF Replacing
  <2>4. Shaped(table) /\ table.buckets \in Nat /\ Indices(table) = 0..table.buckets - 1
    BY <2>2, Sizes
  <2> QED BY <2>2, <2>3, <2>4, PutBackInBag
<1>6. CASE Refill
  <2> DEFINE u == InsertInSlot(table, call.index, call.hash)
  <2>1. Go("vacant", NoCall, u)
    BY <1>6 DEF Refill
  <2> HIDE DEF u
  <2>2. /\ table' = u /\ build \in Builds /\ AtRest(table)
        /\ CallInv(call, table) /\ call.kind = "vacant"
    BY <2>1, During
  <2>3. TakenOut(call, table)
    BY <2>2, KindIs DEF Vacant
  <2>4. Shaped(table) /\ table.buckets \in Nat
    BY <2>2, Sizes
  <2> QED BY <2>2, <2>3, <2>4, RefillInBag DEF u
<1>7. CASE BeginIteration \/ Keep \/ EndIteration \/ Drain \/ ForgetDrain \/ BeginClone
           \/ CloneElement \/ FinishClone \/ LeaveOut \/ DropVacant
  <2>1. table' = table
    BY <1>7 DEF BeginIteration, Keep, EndIteration, Drain, ForgetDrain, BeginClone,
                CloneElement, FinishClone, LeaveOut, DropVacant, Begin, Go
  <2> QED BY <1>1, <2>1
<1>8. CASE BeginDrain \/ DropDrain \/ ClonePanics
  <2>1. \/ table' = table \/ table' = Singleton \/ \E b : table' = EmptyTable(b)
    BY <1>8 DEF BeginDrain, DropDrain, ClonePanics, Begin, Go
  <2> QED BY <1>1, <1>2, <2>1
<1> QED BY <1>3, <1>4, <1>5, <1>6, <1>7, <1>8

\* Every step of the table is a step of the bag or none.
LEMMA BagRefines ==
  ASSUME SoundVariants, CallsInv, [CallsNext]_callVars
  PROVE  [ElementBag!Next]_<<Bag(table), build.hasherPanics>>
<1>1. build' = build
  BY DEF CallsNext, callVars, vars, Whole, Next, Insert, FindOrInsert, Reserve, Remove, Clear,
         ShrinkTo, Becomes, BeginRehash, RehashStep, Stay, Move, Swap, Placing, EndRehash,
         HasherPanics, BeginIteration, Keep, EraseYielded, EndIteration, BeginDrain, Drain,
         DropDrain, ForgetDrain, BeginClone, CloneElement, FinishClone, ClonePanics, BeginReplace,
         PutBack, LeaveOut, Vacate, Refill, DropVacant, Begin, Go
<1>2. BagStep(table, table')
  <2>1. CASE Whole
    BY <2>1, RawInBag DEF Whole, CallsInv
  <2>2. CASE UNCHANGED callVars
    BY <2>2 DEF callVars, vars, BagStep
  <2> QED BY <2>1, <2>2, CallInBag DEF CallsNext
<1>3. Bag(table)' = Bag(table')
  BY DEF Bag, Indices
<1>4. build.hasherPanics' = build.hasherPanics
  BY <1>1
<1> QED BY <1>2, <1>3, <1>4
        DEF BagStep, Bag, ElementBag!Next, ElementBag!Add, ElementBag!Take, ElementBag!Clear,
            ElementBag!NoElements, ElementBag!Lose

LEMMA BagStarts ==
  ASSUME SoundVariants, CallsInit
  PROVE  ElementBag!Init
<1>1. build \in Builds /\ table = Singleton
  BY DEF CallsInit, Init
<1>2. Bag(table) = [hash \in Hashes |-> 0]
  BY <1>1, BagEmpty DEF Singleton
<1>3. build.hasherPanics \in BOOLEAN
  BY <1>1, BuildAssumption
<1> QED BY <1>2, <1>3 DEF Bag, ElementBag!Init, ElementBag!NoElements

\* In the variants that keep their promise a table is a bag of elements, whatever calls are
\* made and whatever code of the caller stops half way: an insert adds one element, a removal
\* takes out one that was there, a vacated entry that is filled again gets its element back, and
\* growing, shrinking and rehashing in place, with all their moves and swaps, change nothing,
\* unless the hash function panics, which can only lose elements.
THEOREM TableIsABag ==
  ASSUME SoundVariants
  PROVE  CallsSpec => ImplementsElementBag
<1>1. CallsSpec => []CallsInv
  BY CallsInvariant
<1>2. CallsInv /\ [CallsNext]_callVars => [ElementBag!Next]_<<Bag(table), build.hasherPanics>>
  BY BagRefines
<1>3. CallsInit => ElementBag!Init
  BY BagStarts
<1> QED BY <1>1, <1>2, <1>3, PTL DEF CallsSpec, ImplementsElementBag, ElementBag!Spec, Bag

=============================================================================
