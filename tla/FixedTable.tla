------------------------------ MODULE FixedTable ------------------------------
(***************************************************************************)
(* WritableFixedTable of hashjoin, new_map_3: an open-addressing table of  *)
(* fixed capacity that any number of threads fill without locks.           *)
(* insert_atomically is taken step by step, one step per atomic access     *)
(* that another thread can come in between; get and entries run on a       *)
(* table at rest and are functions of the state.                           *)
(*                                                                         *)
(* All accesses of the code are Relaxed.  A load of a tag may miss a store *)
(* to it until this thread has seen it once.  Whether the load of a hash   *)
(* after its tag was seen may still return the 0 before it is the constant *)
(* StaleHashLoads.                                                         *)
(***************************************************************************)
EXTENDS Integers, FiniteSets

CONSTANTS
    Threads,          \* the threads that insert
    Rows,             \* the values to insert, each of one hash
    HashOf,           \* [Rows -> Hashes]
    Work,             \* [Threads -> SUBSET Rows]
    Hashes,           \* 64-bit hashes
    TagOf,            \* G::get_tag: the high byte, at least 1
    StartOf,          \* ProbeSeq::start: hash & bucket_mask
    Capacity,         \* bucket_mask + 1, a power of two
    GroupSize,        \* G::GROUP_SIZE, a power of two
    Default,          \* V::default(), the value of a cell nobody wrote
    StaleHashLoads    \* see above

Cells == 0 .. Capacity - 1
TagIndices == 0 .. Capacity + GroupSize - 1
Positions == 0 .. GroupSize - 1
Groups == Capacity \div GroupSize

EmptyTag == 0
NoHash == "none"

ASSUME TableAssumption ==
    /\ GroupSize \in Nat \ {0} /\ Capacity \in Nat \ {0}
    /\ Capacity % GroupSize = 0
    /\ HashOf \in [Rows -> Hashes] /\ NoHash \notin Hashes
    /\ TagOf \in [Hashes -> Nat \ {EmptyTag}]
    /\ StartOf \in [Hashes -> Cells]
    /\ Work \in [Threads -> SUBSET Rows]
    /\ \A t, u \in Threads : t # u => Work[t] \cap Work[u] = {}
    /\ StaleHashLoads \in BOOLEAN

\* The capacity is a power of two, and so is the size of a group.
ASSUME PowerAssumption == \E k \in 0 .. Groups : Groups = 2 ^ k

VARIABLES
    tags,      \* the tag bytes, the first group mirrored after the last cell
    hashes,    \* the stored hash of each cell
    values,    \* the value of each cell
    pc,        \* where each thread is inside insert_atomically
    row,       \* the value being inserted
    index,     \* group_start
    attempts,  \* groups given up so far
    empties,   \* positions of the group seen empty and not tried yet
    cell,      \* item_index of the match or of the claimed cell
    previous,  \* the value the claiming thread found
    seen,      \* the tag bytes a thread knows to be written
    known,     \* the cells whose stored hash a thread has read
    todo,      \* the rows of each thread not inserted yet
    returned,  \* the values insert returned to its callers
    refused    \* the rows whose insert returned Err

memory == <<tags, hashes, values>>
outcome == <<todo, returned, refused>>
fixedVars == <<tags, hashes, values, pc, row, index, attempts, empties, cell, previous,
               seen, known, todo, returned, refused>>

Labels == {"idle", "probe", "swap", "claim", "own", "tag", "mirror", "panicked"}

TypeOK ==
    /\ tags \in [TagIndices -> Nat]
    /\ hashes \in [Cells -> Hashes \cup {NoHash}]
    /\ values \in [Cells -> Rows \cup {Default}]
    /\ pc \in [Threads -> Labels]
    /\ row \in [Threads -> Rows \cup {Default}]
    /\ index \in [Threads -> Cells]
    /\ attempts \in [Threads -> 0 .. Groups - 1]
    /\ empties \in [Threads -> SUBSET Positions]
    /\ cell \in [Threads -> Cells]
    /\ previous \in [Threads -> Rows \cup {Default}]
    /\ seen \in [Threads -> SUBSET TagIndices]
    /\ known \in [Threads -> SUBSET Cells]
    /\ todo \in [Threads -> SUBSET Rows]
    /\ returned \subseteq Rows
    /\ refused \subseteq Rows

Init ==
    /\ tags = [i \in TagIndices |-> EmptyTag]
    /\ hashes = [c \in Cells |-> NoHash]
    /\ values = [c \in Cells |-> Default]
    /\ pc = [t \in Threads |-> "idle"]
    /\ row = [t \in Threads |-> Default]
    /\ index = [t \in Threads |-> 0]
    /\ attempts = [t \in Threads |-> 0]
    /\ empties = [t \in Threads |-> {}]
    /\ cell = [t \in Threads |-> 0]
    /\ previous = [t \in Threads |-> Default]
    /\ seen = [t \in Threads |-> {}]
    /\ known = [t \in Threads |-> {}]
    /\ todo = Work
    /\ returned = {}
    /\ refused = {}

------------------------------------------------------------------------------

CellAt(start, position) == (start + position) % Capacity

\* HybridProbeSequence::next: an odd number of groups further, by the tag.
NextIndex(start, tag) == (start + (2 * tag + 1) * GroupSize) % Capacity

\* Mutant of MirrorOf: the tag is written once only.
NotMirrored(c) == c

\* update_tag: where the tag of a cell is written a second time.
MirrorOf(c) == ((c - GroupSize) % Capacity) + GroupSize

Hash(t) == HashOf[row[t]]
Tag(t) == TagOf[Hash(t)]

Goto(t, from, to) ==
    /\ pc[t] = from
    /\ pc' = [pc EXCEPT ![t] = to]

\* The insert of row[t] is over, and its local variables with it.
Leave(t) ==
    /\ todo' = [todo EXCEPT ![t] = @ \ {row[t]}]
    /\ row' = [row EXCEPT ![t] = Default]
    /\ index' = [index EXCEPT ![t] = 0]
    /\ attempts' = [attempts EXCEPT ![t] = 0]
    /\ empties' = [empties EXCEPT ![t] = {}]
    /\ cell' = [cell EXCEPT ![t] = 0]

\* A thread reads the hashes of some cells; later loads are not staler.
Learn(t, cells) ==
    known' = IF StaleHashLoads THEN [known EXCEPT ![t] = @ \cup cells] ELSE known

Start(t) ==
    \E r \in todo[t] :
        /\ Goto(t, "idle", "probe")
        /\ row' = [row EXCEPT ![t] = r]
        /\ index' = [index EXCEPT ![t] = StartOf[HashOf[r]]]
        /\ attempts' = [attempts EXCEPT ![t] = 0]
        /\ UNCHANGED <<memory, empties, cell, previous, seen, known, outcome>>

\* load_tags_atomically and the search for the tag in the group.  fresh are the
\* tag bytes that are read as written, matches those with the tag searched for;
\* the hash of a stale match is read as 0.  The position of a stale match is put
\* back to EMPTY_TAG in loaded_tags, but the group was loaded from it before: it
\* is not tried as an empty slot.
Probe(t) ==
    LET at(p) == CellAt(index[t], p)
        written == {p \in Positions : tags[index[t] + p] # EmptyTag}
        sure == {p \in Positions : index[t] + p \in seen[t]}
    IN
    /\ pc[t] = "probe"
    /\ \E fresh \in SUBSET written :
          LET matches == {p \in fresh : tags[index[t] + p] = Tag(t)} IN
          \E stale \in SUBSET (IF StaleHashLoads THEN {p \in matches : at(p) \notin known[t]} ELSE {}) :
              LET found == {p \in matches \ stale : hashes[at(p)] = Hash(t)} IN
              /\ sure \subseteq fresh
              /\ seen' = [seen EXCEPT ![t] = @ \cup {index[t] + p : p \in fresh}]
              /\ Learn(t, {at(p) : p \in matches \ stale})
              /\ \/ /\ found # {}
                    /\ pc' = [pc EXCEPT ![t] = "swap"]
                    /\ \E p \in found :
                          /\ \A q \in found : p <= q
                          /\ cell' = [cell EXCEPT ![t] = at(p)]
                    /\ UNCHANGED empties
                 \/ /\ found = {}
                    /\ pc' = [pc EXCEPT ![t] = "claim"]
                    /\ empties' = [empties EXCEPT ![t] = Positions \ fresh]
                    /\ UNCHANGED cell
    /\ UNCHANGED <<memory, row, index, attempts, previous, outcome>>

\* A match, or a duplicate detected late: swap the value and return the previous
\* one, which ignore_default_value drops if it is the default.
SwapMatch(t) ==
    /\ Goto(t, "swap", "idle")
    /\ values' = [values EXCEPT ![cell[t]] = row[t]]
    /\ returned' = returned \cup ({values[cell[t]]} \ {Default})
    /\ Leave(t)
    /\ UNCHANGED <<tags, hashes, previous, seen, known, refused>>

\* Mutant of ClaimCell: after a failed compare-exchange the thread goes on to the
\* next cell without a look at the hash it found.
ClaimCellBlindly(t) ==
    \E p \in empties[t] :
        LET c == CellAt(index[t], p) IN
        /\ pc[t] = "claim"
        /\ \A q \in empties[t] : p <= q
        /\ \/ /\ hashes[c] = NoHash
              /\ hashes' = [hashes EXCEPT ![c] = Hash(t)]
              /\ cell' = [cell EXCEPT ![t] = c]
              /\ pc' = [pc EXCEPT ![t] = "own"]
              /\ UNCHANGED empties
           \/ /\ hashes[c] # NoHash
              /\ empties' = [empties EXCEPT ![t] = @ \ {p}]
              /\ UNCHANGED <<hashes, cell, pc>>
        /\ Learn(t, {c})
        /\ UNCHANGED <<tags, values, row, index, attempts, previous, seen, outcome>>

\* The compare-exchange on the hash of the next cell that was seen empty: it
\* claims the cell, detects a duplicate, or finds another hash there.
ClaimCell(t) ==
    \E p \in empties[t] :
        LET c == CellAt(index[t], p) IN
        /\ pc[t] = "claim"
        /\ \A q \in empties[t] : p <= q
        /\ \/ /\ hashes[c] = NoHash
              /\ hashes' = [hashes EXCEPT ![c] = Hash(t)]
              /\ cell' = [cell EXCEPT ![t] = c]
              /\ pc' = [pc EXCEPT ![t] = "own"]
              /\ UNCHANGED empties
           \/ /\ hashes[c] = Hash(t)
              /\ cell' = [cell EXCEPT ![t] = c]
              /\ pc' = [pc EXCEPT ![t] = "swap"]
              /\ UNCHANGED <<hashes, empties>>
           \/ /\ hashes[c] \notin {NoHash, Hash(t)}
              /\ empties' = [empties EXCEPT ![t] = @ \ {p}]
              /\ UNCHANGED <<hashes, cell, pc>>
        /\ Learn(t, {c})
        /\ UNCHANGED <<tags, values, row, index, attempts, previous, seen, outcome>>

\* Mutant of NextGroup: one group is probed again before the thread gives up.
NextGroupOnceMore(t) ==
    /\ Goto(t, "claim", "probe")
    /\ empties[t] = {}
    /\ attempts[t] + 1 <= Groups
    /\ attempts' = [attempts EXCEPT ![t] = @ + 1]
    /\ index' = [index EXCEPT ![t] = NextIndex(@, Tag(t))]
    /\ UNCHANGED <<memory, row, empties, cell, previous, seen, known, outcome>>

\* No cell of the group could be claimed: probe the next one, or give up.
NextGroup(t) ==
    /\ Goto(t, "claim", "probe")
    /\ empties[t] = {}
    /\ attempts[t] + 1 < Groups
    /\ attempts' = [attempts EXCEPT ![t] = @ + 1]
    /\ index' = [index EXCEPT ![t] = NextIndex(@, Tag(t))]
    /\ UNCHANGED <<memory, row, empties, cell, previous, seen, known, outcome>>

GiveUp(t) ==
    /\ Goto(t, "claim", "idle")
    /\ empties[t] = {}
    /\ attempts[t] + 1 >= Groups
    /\ refused' = refused \cup {row[t]}
    /\ Leave(t)
    /\ UNCHANGED <<memory, previous, seen, known, returned>>

\* The cell is claimed: swap the value in.
SwapOwn(t) ==
    /\ Goto(t, "own", "tag")
    /\ previous' = [previous EXCEPT ![t] = values[cell[t]]]
    /\ values' = [values EXCEPT ![cell[t]] = row[t]]
    /\ UNCHANGED <<tags, hashes, row, index, attempts, empties, cell, seen, known, outcome>>

\* Mutant of StoreTag: the tag may be stored before the value is swapped in.
StoreTagEarly(t) ==
    /\ pc[t] \in {"own", "tag"}
    /\ pc' = [pc EXCEPT ![t] = IF @ = "tag" THEN "mirror" ELSE @]
    /\ tags' = [tags EXCEPT ![cell[t]] = Tag(t)]
    /\ seen' = [seen EXCEPT ![t] = @ \cup {cell[t]}]
    /\ UNCHANGED <<hashes, values, row, index, attempts, empties, cell, previous, known, outcome>>

\* update_tag: the first store, and the second.
StoreTag(t) ==
    /\ Goto(t, "tag", "mirror")
    /\ tags' = [tags EXCEPT ![cell[t]] = Tag(t)]
    /\ seen' = [seen EXCEPT ![t] = @ \cup {cell[t]}]
    /\ UNCHANGED <<hashes, values, row, index, attempts, empties, cell, previous, known, outcome>>

\* After the second store comes assert_eq!(previous, V::default()).
StoreMirror(t) ==
    /\ pc[t] = "mirror"
    /\ tags' = [tags EXCEPT ![MirrorOf(cell[t])] = Tag(t)]
    /\ seen' = [seen EXCEPT ![t] = @ \cup {MirrorOf(cell[t])}]
    /\ IF previous[t] = Default
       THEN pc' = [pc EXCEPT ![t] = "idle"]
       ELSE pc' = [pc EXCEPT ![t] = "panicked"]
    /\ Leave(t)
    /\ UNCHANGED <<hashes, values, previous, known, returned, refused>>

InsertStep(t) ==
    \/ Start(t)
    \/ Probe(t)
    \/ SwapMatch(t)
    \/ ClaimCell(t)
    \/ NextGroup(t)
    \/ GiveUp(t)
    \/ SwapOwn(t)
    \/ StoreTag(t)
    \/ StoreMirror(t)

\* No insert is under way: the table can be read.
AtRest == \A t \in Threads : pc[t] \in {"idle", "panicked"}

\* Every thread has inserted its rows, or has panicked.
Stopped ==
    /\ AtRest
    /\ \A t \in Threads : pc[t] = "idle" => todo[t] = {}
    /\ UNCHANGED fixedVars

Next == (\E t \in Threads : InsertStep(t)) \/ Stopped

Spec == Init /\ [][Next]_fixedVars

------------------------------------------------------------------------------
(* Reading a table at rest *)

\* Mutant of Window: a stride of an even number of groups, which comes round
\* before it has been everywhere.
EvenWindow(h, n) == (StartOf[h] + n * (2 * TagOf[h]) * GroupSize) % Capacity

\* The start of the n-th group that the search for h looks at.
Window(h, n) == (StartOf[h] + n * (2 * TagOf[h] + 1) * GroupSize) % Capacity

MatchesIn(h, start) ==
    {p \in Positions : tags[start + p] = TagOf[h] /\ hashes[CellAt(start, p)] = h}
HasEmpty(start) == \E p \in Positions : tags[start + p] = EmptyTag

\* Inner::get walks the groups until one has a match or an empty slot.  It does
\* not count them: when Groups groups have neither, it walks them for ever.
Stops(h, n) == MatchesIn(h, Window(h, n)) # {} \/ HasEmpty(Window(h, n))
LastWindow(h) ==
    CHOOSE n \in 0 .. Groups - 1 : Stops(h, n) /\ \A m \in 0 .. n - 1 : ~Stops(h, m)

GetReturns(h) == \E n \in 0 .. Groups - 1 : Stops(h, n)
FoundCells(h) ==
    IF GetReturns(h)
    THEN {CellAt(Window(h, LastWindow(h)), p) : p \in MatchesIn(h, Window(h, LastWindow(h)))}
    ELSE {}

\* Mutant of BulkMatches: of the first group only the match polled ahead is tried.
PolledMatches(h, n) ==
    {p \in MatchesIn(h, Window(h, n)) :
        n > 0 \/ \A q \in 0 .. p - 1 : tags[Window(h, n) + q] # TagOf[h]}

\* Inner::get_in_bulk polls the first match of every first group ahead, then tries
\* that one, the rest of the group and the other groups in turn.
BulkMatches(h, n) == MatchesIn(h, Window(h, n))

\* It does not ask whether the chain ends in the first group: an absent hash is
\* looked for until another group has an empty slot, or the first one again.
BulkStops(h, n) == BulkMatches(h, n) # {} \/ (n > 0 /\ HasEmpty(Window(h, n)))
BulkReturns(h) == \E n \in 0 .. Groups : BulkStops(h, n)
BulkFoundCells(h) ==
    UNION {{CellAt(Window(h, n), p) : p \in BulkMatches(h, n)} :
              n \in {n \in 0 .. Groups : \A m \in 0 .. n - 1 : ~BulkStops(h, m)}}

\* Mutant of Iterated: the iterator stops before the last group.
IteratedButLast == {c \in 0 .. Capacity - GroupSize - 1 : tags[c % GroupSize] # EmptyTag}

\* WritableMapIterator: for every group, the cells at the positions where group
\* 0 has a tag.
Iterated == {c \in Cells : tags[c % GroupSize] # EmptyTag}

TakenCells == {c \in Cells : hashes[c] # NoHash}
Full == TakenCells = Cells

------------------------------------------------------------------------------
(* Safety *)

\* What is left of the memory when the order of the accesses is forgotten: the value
\* of each hash that has a cell; the rows whose value is not swapped in yet; the
\* previous values, those that claimers still carry among them.
HeldHashes == {hashes[c] : c \in TakenCells}
Held == [h \in HeldHashes |-> values[CHOOSE c \in Cells : hashes[c] = h]]
Due == [t \in Threads |-> todo[t] \ (IF pc[t] \in {"tag", "mirror"} THEN {row[t]} ELSE {})]
Owners == {t \in Threads : pc[t] \in {"tag", "mirror", "panicked"}}
Returned == (returned \cup {previous[t] : t \in Owners}) \ {Default}

\* The races of insert come down to a table that changes one hash at a time.
\* The cell that is claimed first is the one all later inserts of the hash find,
\* through the tag, its mirror or the failed compare-exchange; Err is returned
\* only when every cell is taken by another hash; no value is dropped but by the
\* thread that panics.
Abstract == INSTANCE AtomicTable WITH held <- Held, todo <- Due, returned <- Returned

ImplementsAtomicTable == Abstract!AtomicSpec

\* A thread that sees a tag, in the first place or in the mirror and whatever the
\* inserts under way, finds in the cell a hash with this tag and a value that was
\* inserted with this hash: the search of insert and of get may use it unasked.
TagsShowWrittenCells ==
    \A i \in TagIndices : tags[i] # EmptyTag =>
        LET c == IF i < Capacity THEN i ELSE i - Capacity
        IN /\ hashes[c] \in Hashes /\ tags[i] = TagOf[hashes[c]]
           /\ values[c] \in Rows /\ HashOf[values[c]] = hashes[c]

\* At rest get finds every hash that a cell was taken for, whichever group its
\* claimer was in, and finds it in one cell only.
EveryHashReadable ==
    AtRest => \A c \in TakenCells : FoundCells(hashes[c]) = {c}

\* At rest get of a hash that is not in the table returns, unless the table is
\* full: the search comes past every cell.
GetReturnsUnlessFull ==
    AtRest /\ ~Full => \A h \in Hashes : GetReturns(h)

\* get_in_bulk, which goes past the end of a chain that ends in its first group,
\* still returns whenever get does and finds what get finds.
BulkAgreesWithGet ==
    AtRest => \A h \in Hashes : /\ BulkReturns(h) = GetReturns(h)
                               /\ BulkFoundCells(h) = FoundCells(h)

\* entries of a table at rest yields exactly its pairs when the table is full or
\* a single group, which are the tables the compaction copies from.
IteratesWholeTables ==
    AtRest /\ (Full \/ Capacity = GroupSize) => Iterated = TakenCells

\* What the comment in insert_atomically promises of a claimed cell: "Due to
\* writing the tags after the value, the previous value will always be zero
\* here" (and assert_eq! with it).
ClaimedCellWasDefault == \A t \in Threads : pc[t] # "panicked"

\* What the comment on a hash that is read late promises: "we can just mark the
\* tag value as empty so we re-check it again later", so that no hash takes a
\* second cell.
NoDuplicateHash ==
    \A c, d \in TakenCells : hashes[c] = hashes[d] => c = d

==============================================================================
