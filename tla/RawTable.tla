------------------------------ MODULE RawTable ------------------------------
(***************************************************************************)
(* hashbrown's raw table: src/src/raw/mod.rs and its two copies with       *)
(* double hashing, raw_table_double_hash.rs and raw_table_extra_bit.rs.    *)
(*                                                                         *)
(* A table is an array of buckets, each with a control byte: EMPTY,        *)
(* DELETED (a tombstone) or the tag of the element it holds.  Control      *)
(* bytes are read a window of Group::WIDTH at a time, from any index, so   *)
(* the first WIDTH of them are repeated after the last.  The table is      *)
(* owned by one caller at a time; what is hard is the long sequence of     *)
(* legal calls (insert, erase, reserve, shrink) that must never hide an    *)
(* element behind an EMPTY byte nor leave a probe without one, and a hash  *)
(* function that panics half way through rehash_in_place.                  *)
(*                                                                         *)
(* The variants of the source are values of `build`, chosen initially.     *)
(***************************************************************************)
EXTENDS Integers, FiniteSets, FiniteSetsExt

CONSTANTS
  Hashes,       \* records [low, top]: the low bits and the top byte of a hash
  Builds,       \* records [width, probing, encoding, needsDrop, hasherPanics]
  None,         \* no element
  MaxItems,     \* bound: elements in the table
  MaxBuckets,   \* bound: buckets of the table
  MaxReserve    \* bound: what a caller reserves or asks to shrink to

ASSUME HashAssumption ==
  /\ \A hash \in Hashes : hash.low \in Nat /\ hash.top \in 0..255
  /\ None \notin Hashes

ASSUME BuildAssumption ==
  \A b \in Builds : /\ b.width \in {4, 8, 16}
                    /\ b.probing \in {"triangular", "doubleHash"}
                    /\ b.encoding \in {"highBit", "extraBit"}
                    /\ b.needsDrop \in BOOLEAN
                    /\ b.hasherPanics \in BOOLEAN

\* Within the bounds CapacityToBuckets finds a power of two.
ASSUME BoundAssumption ==
  /\ MaxItems \in Nat /\ MaxBuckets \in Nat \ {0} /\ MaxReserve \in Nat
  /\ MaxItems + MaxBuckets + MaxReserve < 2 ^ 29

VARIABLES
  build,        \* the variant of the source under consideration
  table,        \* RawTableInner: [buckets, ctrl, slot, items, growthLeft]
  rehashing,    \* TRUE inside rehash_in_place
  pending       \* the element to insert once the rehash is over, or None

vars == <<build, table, rehashing, pending>>
-----------------------------------------------------------------------------
\* Control bytes.  A tag is the top 7 bits of the hash; with the extra bit
\* it is the top 8, from 2 up.
Width == build.width
EMPTY == IF build.encoding = "highBit" THEN 255 ELSE 0
DELETED == IF build.encoding = "highBit" THEN 128 ELSE 1
IsFull(byte) == IF build.encoding = "highBit" THEN byte < 128 ELSE byte > 1
HighBitTag(hash) == hash.top \div 2
ExtraBitTag(hash) == IF hash.top < 2 THEN 2 ELSE hash.top
Tag(hash) == IF build.encoding = "highBit" THEN HighBitTag(hash)
                                           ELSE ExtraBitTag(hash)

\* What one vector operation makes of every control byte at the start of a
\* rehash.  The extra-bit copy kept the constants of the original encoding.
Converted(byte) == IF IsFull(byte) THEN 128 ELSE 255

\* Mutant of BucketMaskToCapacity: small tables may be filled to the last bucket.
FillsSmallTables(buckets) ==
  IF buckets - 1 < 8 THEN buckets ELSE (buckets \div 8) * 7

\* Sizes.
BucketMaskToCapacity(buckets) ==
  IF buckets - 1 < 8 THEN buckets - 1 ELSE (buckets \div 8) * 7
CapacityToBuckets(capacity) ==
  IF capacity < 8
    THEN IF capacity < 4 THEN 4 ELSE 8
    ELSE Min({p \in {2 ^ k : k \in 0..30} : p >= (capacity * 8) \div 7})

EmptyTable(buckets) ==
  [buckets |-> buckets, items |-> 0, growthLeft |-> BucketMaskToCapacity(buckets),
   ctrl |-> [c \in 0..buckets + Width - 1 |-> EMPTY],
   slot |-> [i \in 0..buckets - 1 |-> None]]
Singleton == EmptyTable(1)
WithCapacity(capacity) == EmptyTable(CapacityToBuckets(capacity))

Indices(t) == 0..t.buckets - 1
FullBuckets(t) == {i \in Indices(t) : IsFull(t.ctrl[i])}
Tombstones(t) == {i \in Indices(t) : t.ctrl[i] = DELETED}
-----------------------------------------------------------------------------
\* Probing.  The n-th window of a probe starts at Position(t, hash, n); the
\* windows up to buckets / WIDTH are all there are.
TriangularStride(n) == Width * ((n * (n + 1)) \div 2)
DoubleHashStride(hash, n) == n * (2 * Tag(hash) + 1) * Width
Position(t, hash, n) ==
  (hash.low + (IF build.probing = "triangular" THEN TriangularStride(n)
                                                ELSE DoubleHashStride(hash, n)))
    % t.buckets
Probes(t) == IF t.buckets > Width THEN 0..(t.buckets \div Width) - 1 ELSE {0}
Offsets == 0..Width - 1

EmptyAt(t, pos) == {k \in Offsets : t.ctrl[pos + k] = EMPTY}
SpecialAt(t, pos) == {k \in Offsets : ~IsFull(t.ctrl[pos + k])}
MatchesAt(t, pos, tag) ==
  {(pos + k) % t.buckets : k \in {k \in Offsets : t.ctrl[pos + k] = tag}}

HasInsertSlot(t, hash) ==
  \E n \in Probes(t) : SpecialAt(t, Position(t, hash, n)) # {}

\* In a table smaller than a window the bytes past the last bucket are EMPTY
\* too; when the search stops at one of those it starts again at bucket 0.
FixInsertSlot(t, index) ==
  IF IsFull(t.ctrl[index]) THEN Min(SpecialAt(t, 0)) ELSE index

FindInsertSlot(t, hash) ==
  LET n == Min({n \in Probes(t) : SpecialAt(t, Position(t, hash, n)) # {}})
      pos == Position(t, hash, n)
  IN FixInsertSlot(t, (pos + Min(SpecialAt(t, pos))) % t.buckets)

\* find_inner returns bucket i for an element equal to the one in it.
Finds(t, i) ==
  LET hash == t.slot[i]
  IN \E n \in Probes(t) :
       /\ i \in MatchesAt(t, Position(t, hash, n), Tag(hash))
       /\ \A m \in 0..n - 1 : EmptyAt(t, Position(t, hash, m)) = {}
-----------------------------------------------------------------------------
\* Mutant of MirrorOf: the formula without the mask, wrong in a small table.
MirrorPastEnd(t, i) == IF i < Width THEN i + t.buckets ELSE i

\* Changes of a table.
MirrorOf(t, i) == ((i - Width) % t.buckets) + Width
SetCtrl(t, i, byte) ==
  [t EXCEPT !.ctrl[i] = byte, !.ctrl[MirrorOf(t, i)] = byte]

\* The bytes of all buckets at once, each repeated where set_ctrl would.
WithBytes(t, bytes) ==
  LET shown(c) == {i \in Indices(t) : c \in {i, MirrorOf(t, i)}}
  IN [t EXCEPT !.ctrl = [c \in DOMAIN t.ctrl |->
        IF shown(c) = {} THEN t.ctrl[c] ELSE bytes[Min(shown(c))]]]

\* prepare_insert_slot: the byte and the element, but not the counts.
Placed(t, i, hash) == [SetCtrl(t, i, Tag(hash)) EXCEPT !.slot[i] = hash]
\* Mutant of InsertInSlot: growth is used up over a tombstone too.
InsertUsingGrowth(t, i, hash) ==
  [Placed(t, i, hash) EXCEPT !.items = @ + 1, !.growthLeft = @ - 1]

\* insert_in_slot and record_item_insert_at.
InsertInSlot(t, i, hash) ==
  [Placed(t, i, hash) EXCEPT !.items = @ + 1,
                             !.growthLeft = IF t.ctrl[i] = EMPTY THEN @ - 1 ELSE @]
Inserted(t, hash) == InsertInSlot(t, FindInsertSlot(t, hash), hash)

\* The bytes that are not EMPTY just before bucket i and from it on.
RunBefore(t, i) ==
  LET empty == EmptyAt(t, (i - Width) % t.buckets)
  IN IF empty = {} THEN Width ELSE Width - 1 - Max(empty)
RunAfter(t, i) ==
  LET empty == EmptyAt(t, i) IN IF empty = {} THEN Width ELSE Min(empty)
\* Mutants of LeavesTombstone: an off-by-one, and the rule of linear probing.
LeavesFewerTombstones(t, i) == RunBefore(t, i) + RunAfter(t, i) > Width
LeavesTombstoneBeforeFull(t, i) == RunAfter(t, i) > 1

\* The run of bytes without an EMPTY is as long as a window: some probe may have
\* come past bucket i because of it.
LeavesTombstone(t, i) == RunBefore(t, i) + RunAfter(t, i) >= Width

\* Mutant of Erased: growth is given back for a tombstone too.
ErasedRegainingGrowth(t, i) ==
  LET byte == IF LeavesTombstone(t, i) THEN DELETED ELSE EMPTY
  IN [SetCtrl(t, i, byte) EXCEPT
        !.slot[i] = None, !.items = @ - 1, !.growthLeft = @ + 1]

\* erase: an EMPTY byte, if no probe can have come past it, gives growth back.
Erased(t, i) ==
  LET byte == IF LeavesTombstone(t, i) THEN DELETED ELSE EMPTY
  IN [SetCtrl(t, i, byte) EXCEPT
        !.slot[i] = None, !.items = @ - 1,
        !.growthLeft = IF byte = EMPTY THEN @ + 1 ELSE @]

\* resize_inner: every full bucket, in order, into a new table.
MovedInto(new, t, i) ==
  IF IsFull(t.ctrl[i]) THEN Placed(new, FindInsertSlot(new, t.slot[i]), t.slot[i]) ELSE new
Resized(t, capacity) ==
  LET moved[n \in 0..t.buckets] ==
        IF n = 0 THEN WithCapacity(capacity) ELSE MovedInto(moved[n - 1], t, n - 1)
  IN [moved[t.buckets] EXCEPT !.items = t.items, !.growthLeft = @ - t.items]

\* reserve_rehash_inner's choice, when there is too little growth left.
GrownCapacity(t, additional) ==
  Max({t.items + additional, BucketMaskToCapacity(t.buckets) + 1})
ReserveRehashes(t, additional) ==
  /\ additional > t.growthLeft
  /\ t.items + additional <= BucketMaskToCapacity(t.buckets) \div 2
ReserveResizes(t, additional) ==
  /\ additional > t.growthLeft
  /\ t.items + additional > BucketMaskToCapacity(t.buckets) \div 2
  /\ CapacityToBuckets(GrownCapacity(t, additional)) <= MaxBuckets

PreparedForRehash(t) ==
  WithBytes([t EXCEPT !.ctrl = [c \in DOMAIN t.ctrl |-> Converted(t.ctrl[c])]],
            [i \in Indices(t) |-> Converted(t.ctrl[i])])

InSameGroup(t, i, j, hash) ==
  LET group(k) == ((k - Position(t, hash, 0)) % t.buckets) \div Width
  IN group(i) = group(j)
-----------------------------------------------------------------------------
Init == /\ build \in Builds
        /\ table = Singleton
        /\ rehashing = FALSE
        /\ pending = None

\* A call with the table at rest; its effect is one step unless it rehashes
\* in place.
Becomes(t) == /\ ~rehashing
              /\ table' = t
              /\ UNCHANGED <<build, rehashing, pending>>

BeginRehash(hash) == /\ ~rehashing
                     /\ table' = PreparedForRehash(table)
                     /\ rehashing' = TRUE
                     /\ pending' = hash
                     /\ UNCHANGED build

\* RawTable::insert: it grows only if it would use up an EMPTY byte with no
\* growth left.
Insert(hash) ==
  LET atLimit == /\ table.growthLeft = 0
                 /\ table.ctrl[FindInsertSlot(table, hash)] = EMPTY
  IN /\ ~rehashing /\ table.items < MaxItems
     /\ HasInsertSlot(table, hash)
     /\ \/ ~atLimit /\ Becomes(Inserted(table, hash))
        \/ /\ atLimit /\ ReserveResizes(table, 1)
           /\ Becomes(Inserted(Resized(table, GrownCapacity(table, 1)), hash))
        \/ atLimit /\ ReserveRehashes(table, 1) /\ BeginRehash(hash)

\* find_or_find_insert_slot for an absent element, then insert_in_slot: it
\* reserves first, tombstone or not.
FindOrInsert(hash) ==
  /\ ~rehashing /\ table.items < MaxItems
  /\ HasInsertSlot(table, hash)
  /\ \/ table.growthLeft > 0 /\ Becomes(Inserted(table, hash))
     \/ /\ ReserveResizes(table, 1)
        /\ Becomes(Inserted(Resized(table, GrownCapacity(table, 1)), hash))
     \/ ReserveRehashes(table, 1) /\ BeginRehash(hash)

Reserve(additional) ==
  \/ /\ ReserveResizes(table, additional)
     /\ Becomes(Resized(table, GrownCapacity(table, additional)))
  \/ ReserveRehashes(table, additional) /\ BeginRehash(None)

\* erase and remove, of any element a lookup or an iterator returned.
Remove == \E i \in FullBuckets(table) : Becomes(Erased(table, i))

Clear == /\ table.items > 0
         /\ Becomes(EmptyTable(table.buckets))

\* shrink_to, when it does anything.
ShrinkTo(minSize) ==
  LET size == Max({table.items, minSize})
  IN \/ size = 0 /\ Becomes(Singleton)
     \/ /\ size > 0 /\ CapacityToBuckets(size) < table.buckets
        /\ Becomes(IF table.items = 0 THEN WithCapacity(size) ELSE Resized(table, size))
-----------------------------------------------------------------------------
\* rehash_in_place.  DELETED marks an element not placed yet; the loop is at
\* the first of them, as none below it is left.
Unplaced == Min(Tombstones(table))
NewPlace == FindInsertSlot(table, table.slot[Unplaced])

Placing(t) == /\ rehashing /\ Tombstones(table) # {}
              /\ table' = t
              /\ UNCHANGED <<build, rehashing, pending>>

\* Mutant of Stay: the byte is left for later.
StayUnmarked ==
  LET i == Unplaced
      hash == table.slot[i]
  IN /\ Placing(table)
     /\ InSameGroup(table, i, NewPlace, hash)

\* The element already lies in the first window of its probe with room.
Stay ==
  LET i == Unplaced
      hash == table.slot[i]
  IN /\ Placing(SetCtrl(table, i, Tag(hash)))
     /\ InSameGroup(table, i, NewPlace, hash)

\* It moves to an EMPTY bucket.
Move ==
  LET i == Unplaced
      hash == table.slot[i]
  IN /\ Placing([SetCtrl(Placed(table, NewPlace, hash), i, EMPTY) EXCEPT !.slot[i] = None])
     /\ ~InSameGroup(table, i, NewPlace, hash)
     /\ table.ctrl[NewPlace] = EMPTY

\* Mutant of Swap: the other element is overwritten, not brought back to bucket i.
SwapOneWay ==
  LET i == Unplaced
      hash == table.slot[i]
  IN /\ Placing(Placed(table, NewPlace, hash))
     /\ ~InSameGroup(table, i, NewPlace, hash)
     /\ table.ctrl[NewPlace] # EMPTY

\* It changes places with an element that is not placed yet either.
Swap ==
  LET i == Unplaced
      hash == table.slot[i]
  IN /\ Placing([Placed(table, NewPlace, hash) EXCEPT !.slot[i] = table.slot[NewPlace]])
     /\ ~InSameGroup(table, i, NewPlace, hash)
     /\ table.ctrl[NewPlace] # EMPTY

Recounted(t) ==
  [t EXCEPT !.growthLeft = BucketMaskToCapacity(t.buckets) - t.items]

\* All placed: growth_left is counted again, and the insert that asked for
\* room goes on.
EndRehash ==
  /\ rehashing /\ Tombstones(table) = {}
  /\ pending # None => HasInsertSlot(table, pending)
  /\ table' = IF pending = None THEN Recounted(table)
                                ELSE Inserted(Recounted(table), pending)
  /\ rehashing' = FALSE
  /\ pending' = None
  /\ UNCHANGED build

\* Mutant of Abandoned: the elements given up stay on the count.
AbandonedStillCounted(t) ==
  LET lost == Tombstones(t)
  IN WithBytes([t EXCEPT !.slot = [i \in Indices(t) |-> IF i \in lost THEN None ELSE t.slot[i]]],
               [i \in Indices(t) |-> IF i \in lost THEN EMPTY ELSE t.ctrl[i]])

\* The guard's work when the hash function panics: what is not placed yet is
\* given up; only if elements have a drop function are their bytes made EMPTY
\* and the elements taken off the count.
Abandoned(t) ==
  LET lost == Tombstones(t)
      left == [t EXCEPT !.slot = [i \in Indices(t) |->
                                    IF i \in lost THEN None ELSE t.slot[i]]]
  IN IF build.needsDrop
       THEN [WithBytes(left, [i \in Indices(t) |->
                                IF i \in lost THEN EMPTY ELSE t.ctrl[i]])
               EXCEPT !.items = @ - Cardinality(lost)]
       ELSE left

HasherPanics ==
  /\ build.hasherPanics
  /\ rehashing /\ Tombstones(table) # {}
  /\ table' = Recounted(Abandoned(table))
  /\ rehashing' = FALSE
  /\ pending' = None
  /\ UNCHANGED build

RehashStep == Stay \/ Move \/ Swap \/ EndRehash

Next == \/ \E hash \in Hashes : Insert(hash) \/ FindOrInsert(hash)
        \/ \E n \in 0..MaxReserve : Reserve(n) \/ ShrinkTo(n)
        \/ Remove \/ Clear
        \/ RehashStep
        \/ HasherPanics

\* The owner may stop calling; a call that has begun runs on.
Spec == Init /\ [][Next]_vars /\ WF_vars(RehashStep)
-----------------------------------------------------------------------------
TypeOK ==
  /\ build \in Builds
  /\ table.buckets \in {1} \cup {2 ^ k : k \in 2..30} /\ table.buckets <= MaxBuckets
  /\ table.ctrl \in [0..table.buckets + Width - 1 -> 0..255]
  /\ table.slot \in [Indices(table) -> Hashes \cup {None}]
  /\ table.items \in 0..MaxItems
  /\ table.growthLeft \in 0..BucketMaskToCapacity(table.buckets)
  /\ rehashing \in BOOLEAN
  /\ pending \in Hashes \cup {None}

\* A bucket holds an element exactly when its byte is a tag (or, in a rehash,
\* DELETED), and every element whose byte is a tag is found by find_inner:
\* the byte is its own tag, and no EMPTY byte of an earlier window ends the
\* search before it.  erase's choice of byte and the moves of rehash_in_place
\* must keep it so, in every state of a rehash too.
ElementsAreFound ==
  /\ \A i \in Indices(table) :
       table.slot[i] # None <=> \/ i \in FullBuckets(table)
                                \/ rehashing /\ i \in Tombstones(table)
  /\ \A i \in FullBuckets(table) : Finds(table, i)

\* What the test `rehash` asserts of each copy of the table: what was inserted
\* is found, before and after a rehash in place.
InsertedIsFound ==
  ~rehashing => \A i \in Indices(table) : table.slot[i] # None => Finds(table, i)

\* Every search ends: any hash meets a byte to insert at in every state of a
\* rehash, and an EMPTY byte whenever the table is at rest (find_inner and
\* find_insert_slot are loops without another exit).
SearchesEnd ==
  \A hash \in Hashes :
    /\ HasInsertSlot(table, hash)
    /\ rehashing \/ \E n \in Probes(table) : EmptyAt(table, Position(table, hash, n)) # {}

\* At rest, growth_left is what the load factor leaves after the elements
\* and the tombstones: erase, insert over a tombstone, resize, clear and
\* both ends of rehash_in_place agree on it.
GrowthIsAccounted ==
  ~rehashing => table.growthLeft + table.items + Cardinality(Tombstones(table))
                  = BucketMaskToCapacity(table.buckets)

\* The bytes a window reads past the last bucket repeat the first ones; in a
\* table smaller than a window those between are EMPTY.
MirrorAgrees ==
  \A c \in table.buckets..table.buckets + Width - 1 :
    table.ctrl[c] = IF table.buckets >= Width THEN table.ctrl[c - table.buckets]
                    ELSE IF c < Width THEN EMPTY ELSE table.ctrl[c - Width]

\* The claim in erase: a table smaller than a window never has tombstones.
SmallTablesHaveNoTombstones ==
  ~rehashing /\ table.buckets < Width => Tombstones(table) = {}

\* At rest, `items` counts the full buckets: len() is right, and iterators,
\* which stop by this count, neither miss an element nor run past the end.
ItemsCountFullBuckets ==
  ~rehashing => table.items = Cardinality(FullBuckets(table))

\* The table is a bag of elements, whatever resizing and rehashing do.
ElementBag == INSTANCE ElementBag WITH
  elements <- [hash \in Hashes |-> Cardinality({i \in Indices(table) : table.slot[i] = hash})],
  panics <- build.hasherPanics
ImplementsElementBag == ElementBag!Spec

\* A rehash in place ends: the swaps of its inner loop cannot go round.
RehashEnds == rehashing ~> ~rehashing
=============================================================================
