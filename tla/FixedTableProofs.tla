---------------------------- MODULE FixedTableProofs ----------------------------
(***************************************************************************)
(* Proofs about FixedTable, for any number of threads, rows, cells and     *)
(* hashes: what insert_atomically leaves in a cell before a tag shows it,  *)
(* that entries yields whole tables, and that where hashes are not read    *)
(* late a hash takes one cell, get finds it, and FixedTable implements     *)
(* AtomicTable: every insert is one atomic exchange, and refused only by a *)
(* table without room.                                                     *)
(***************************************************************************)
EXTENDS FixedTable, NumberLemmas

\* The cell has a hash and a value that was inserted with this hash.
Written(c) == hashes[c] \in Hashes /\ values[c] \in Rows /\ HashOf[values[c]] = hashes[c]

\* The cell whose tag is stored at an index.
CellOf(i) == IF i < Capacity THEN i ELSE i - Capacity

RowsInHand == \A t \in Threads : pc[t] \notin {"idle", "panicked"} => row[t] \in Rows
CellsMatch ==
    \A t \in Threads : pc[t] \in {"swap", "own", "tag", "mirror"} => hashes[cell[t]] = Hash(t)
OwnersHaveWritten == \A t \in Threads : pc[t] \in {"tag", "mirror"} => Written(cell[t])

\* The inductive invariant: a tag shows a written cell because its owner wrote the
\* cell before it came to the tag, and because a cell keeps its hash.
TableInv == /\ TypeOK
            /\ RowsInHand
            /\ CellsMatch
            /\ OwnersHaveWritten
            /\ TagsShowWrittenCells

------------------------------------------------------------------------------
(* Places *)

\* The groups divide the cells, and there is one at least.
LEMMA WholeGroups == Groups \in Nat \ {0} /\ Capacity = Groups * GroupSize
BY TableAssumption DEF Groups

\* A table has the cells of one group at least.
LEMMA CapacityAtLeastGroup == Capacity >= GroupSize
BY WholeGroups, TableAssumption

\* The second place of a tag is behind the last cell for the cells of the first
\* group, and the first place once more for all others.
LEMMA MirrorPlace ==
  ASSUME NEW c \in Cells
  PROVE  MirrorOf(c) = IF c < GroupSize THEN c + Capacity ELSE c
<1>1. c \in 0 .. Capacity - 1 /\ c - GroupSize \in Int /\ Capacity \in Nat \ {0} /\ GroupSize \in Nat \ {0}
  BY TableAssumption DEF Cells
<1>2. CASE c < GroupSize
  <2>1. c - GroupSize \in -Capacity .. -1
    BY <1>1, <1>2, CapacityAtLeastGroup
  <2>2. (c - GroupSize) % Capacity = c - GroupSize + Capacity
    BY <1>1, <2>1, Modulo
  <2> QED BY <1>1, <1>2, <2>2 DEF MirrorOf
<1>3. CASE ~(c < GroupSize)
  <2>1. c - GroupSize \in 0 .. Capacity - 1
    BY <1>1, <1>3
  <2>2. (c - GroupSize) % Capacity = c - GroupSize
    BY <1>1, <2>1, Modulo
  <2> QED BY <1>1, <1>3, <2>2 DEF MirrorOf
<1> QED BY <1>2, <1>3

\* The second place of a tag is a tag of the same cell.
LEMMA MirrorIndex ==
  ASSUME NEW c \in Cells
  PROVE  MirrorOf(c) \in TagIndices /\ CellOf(MirrorOf(c)) = c
BY MirrorPlace, TableAssumption DEF Cells, TagIndices, CellOf

\* The first place of a tag is the tag of its cell.
LEMMA CellIndex ==
  ASSUME NEW c \in Cells
  PROVE  c \in TagIndices /\ CellOf(c) = c
BY TableAssumption DEF Cells, TagIndices, CellOf

\* Every tag belongs to a cell.
LEMMA CellOfIndex == \A i \in TagIndices : CellOf(i) \in Cells
BY CapacityAtLeastGroup, TableAssumption DEF Cells, TagIndices, CellOf

\* A position of a window is a tag that is stored and a cell that exists.
LEMMA Places ==
  ASSUME NEW start \in Cells, NEW p \in Positions
  PROVE  CellAt(start, p) \in Cells /\ start + p \in TagIndices
<1>1. start + p \in Int /\ Capacity \in Nat \ {0} /\ GroupSize \in Nat \ {0}
  BY TableAssumption DEF Cells, Positions
<1>2. (start + p) % Capacity \in 0 .. Capacity - 1
  BY <1>1, Modulo
<1> QED BY <1>1, <1>2 DEF CellAt, Cells, Positions, TagIndices

\* The next window starts at a cell, whatever the tag.
LEMMA NextPlace ==
  ASSUME NEW start \in Cells, NEW tag \in Nat
  PROVE  NextIndex(start, tag) \in Cells
<1>1. (2 * tag + 1) * GroupSize \in Int
  BY TableAssumption
<1>2. start + (2 * tag + 1) * GroupSize \in Int /\ Capacity \in Nat \ {0}
  BY <1>1, TableAssumption DEF Cells
<1> QED BY <1>2, Modulo DEF NextIndex, Cells

------------------------------------------------------------------------------
(* Steps *)

\* What the invariant says of the row a thread inserts.
LEMMA InHand ==
  ASSUME TableInv, NEW t \in Threads, pc[t] \notin {"idle", "panicked"}
  PROVE  /\ row[t] \in Rows /\ Hash(t) \in Hashes /\ Hash(t) # NoHash
         /\ Tag(t) \in Nat \ {EmptyTag}
BY TableAssumption DEF TableInv, RowsInHand, Hash, Tag

\* A cell keeps the hash it was claimed for.
LEMMA HashesStay ==
  ASSUME TableInv, NEW t \in Threads, InsertStep(t)
  PROVE  \A c \in Cells : hashes[c] # NoHash => hashes'[c] = hashes[c]
<1>1. hashes \in [Cells -> Hashes \cup {NoHash}]
  BY DEF TableInv, TypeOK
<1>2. CASE ClaimCell(t)
  BY <1>1, <1>2 DEF ClaimCell
<1> QED
  BY <1>2 DEF InsertStep, Start, Probe, SwapMatch, NextGroup, GiveUp, SwapOwn, StoreTag,
              StoreMirror, memory

\* A value is only ever replaced by one of the same hash.
LEMMA ValuesStay ==
  ASSUME TableInv, NEW t \in Threads, InsertStep(t)
  PROVE  \A c \in Cells : Written(c) => Written(c)'
<1>1. hashes \in [Cells -> Hashes \cup {NoHash}] /\ values \in [Cells -> Rows \cup {Default}]
      /\ cell \in [Threads -> Cells]
  BY DEF TableInv, TypeOK
<1>2. \A c \in Cells : hashes[c] \in Hashes => hashes'[c] = hashes[c]
  BY HashesStay, TableAssumption
<1>3. CASE SwapMatch(t) \/ SwapOwn(t)
  <2>1. row[t] \in Rows /\ hashes[cell[t]] = HashOf[row[t]]
    BY <1>3, InHand DEF TableInv, CellsMatch, Hash, SwapMatch, SwapOwn, Goto
  <2>2. values' = [values EXCEPT ![cell[t]] = row[t]]
    BY <1>3 DEF SwapMatch, SwapOwn
  <2> QED BY <1>1, <1>2, <2>1, <2>2 DEF Written
<1>4. CASE UNCHANGED values
  BY <1>2, <1>4 DEF Written
<1> QED
  BY <1>3, <1>4 DEF InsertStep, Start, Probe, ClaimCell, NextGroup, GiveUp, StoreTag,
                    StoreMirror, memory

\* Types, action by action.
LEMMA TypesStay ==
  ASSUME TableInv, NEW t \in Threads, InsertStep(t)
  PROVE  TypeOK'
<1>1. TypeOK
  BY DEF TableInv
<1>2. CASE Start(t)
  BY <1>1, <1>2, WholeGroups, TableAssumption DEF TypeOK, Start, Goto, Labels, memory, outcome
<1>3. CASE Probe(t)
  <2>1. /\ pc' \in [Threads -> Labels] /\ empties' \in [Threads -> SUBSET Positions]
        /\ known' \in [Threads -> SUBSET Cells] /\ seen' \in [Threads -> SUBSET TagIndices]
        /\ cell' \in [Threads -> Cells]
    <3>1. \A p \in Positions : CellAt(index[t], p) \in Cells /\ index[t] + p \in TagIndices
      BY <1>1, Places DEF TypeOK
    <3> QED BY <1>1, <1>3, <3>1 DEF TypeOK, Probe, Learn, Labels
  <2> QED BY <1>1, <1>3, <2>1 DEF TypeOK, Probe, memory, outcome
<1>4. CASE SwapMatch(t)
  BY <1>1, <1>4, WholeGroups, TableAssumption, InHand DEF TypeOK, SwapMatch, Goto, Leave, Labels, Cells
<1>5. CASE ClaimCell(t)
  <2>1. \A p \in Positions : CellAt(index[t], p) \in Cells
    BY <1>1, Places DEF TypeOK
  <2>2. Hash(t) \in Hashes
    BY <1>5, InHand DEF ClaimCell
  <2>3. /\ hashes' \in [Cells -> Hashes \cup {NoHash}] /\ cell' \in [Threads -> Cells]
        /\ pc' \in [Threads -> Labels] /\ empties' \in [Threads -> SUBSET Positions]
    BY <1>1, <1>5, <2>1, <2>2 DEF TypeOK, ClaimCell, Labels
  <2>4. known' \in [Threads -> SUBSET Cells]
    BY <1>1, <1>5, <2>1 DEF TypeOK, ClaimCell, Learn
  <2> QED BY <1>1, <1>5, <2>3, <2>4 DEF TypeOK, ClaimCell, outcome
<1>6. CASE NextGroup(t)
  <2>1. NextIndex(index[t], Tag(t)) \in Cells
    BY <1>1, <1>6, NextPlace, InHand DEF NextGroup, Goto, TypeOK
  <2>2. attempts[t] + 1 \in 0 .. Groups - 1
    BY <1>1, <1>6, WholeGroups DEF TypeOK, NextGroup
  <2>3. attempts' \in [Threads -> 0 .. Groups - 1] /\ index' \in [Threads -> Cells]
        /\ pc' \in [Threads -> Labels]
    BY <1>1, <1>6, <2>1, <2>2 DEF TypeOK, NextGroup, Goto, Labels
  <2>4. UNCHANGED <<tags, hashes, values, row, empties, cell, previous, seen, known, todo,
                    returned, refused>>
    BY <1>6 DEF NextGroup, memory, outcome
  <2> QED BY <1>1, <2>3, <2>4 DEF TypeOK
<1>7. CASE GiveUp(t)
  <2>1. 0 \in Cells /\ 0 \in 0 .. Groups - 1 /\ row[t] \in Rows
    BY <1>7, WholeGroups, TableAssumption, InHand DEF Cells, GiveUp, Goto
  <2>2. /\ todo' \in [Threads -> SUBSET Rows] /\ row' \in [Threads -> Rows \cup {Default}]
        /\ index' \in [Threads -> Cells] /\ attempts' \in [Threads -> 0 .. Groups - 1]
        /\ empties' \in [Threads -> SUBSET Positions] /\ cell' \in [Threads -> Cells]
    BY <1>1, <1>7, <2>1 DEF TypeOK, GiveUp, Leave
  <2>3. pc' \in [Threads -> Labels] /\ refused' \subseteq Rows
    BY <1>1, <1>7, <2>1 DEF TypeOK, GiveUp, Goto, Labels
  <2> QED BY <1>1, <1>7, <2>2, <2>3 DEF TypeOK, GiveUp, memory
<1>8. CASE SwapOwn(t)
  <2>1. row[t] \in Rows
    BY <1>8, InHand DEF SwapOwn, Goto
  <2>2. values' \in [Cells -> Rows \cup {Default}] /\ previous' \in [Threads -> Rows \cup {Default}]
        /\ pc' \in [Threads -> Labels]
    BY <1>1, <1>8, <2>1 DEF TypeOK, SwapOwn, Goto, Labels
  <2>3. UNCHANGED <<tags, hashes, row, index, attempts, empties, cell, seen, known, todo,
                    returned, refused>>
    BY <1>8 DEF SwapOwn, outcome
  <2> QED BY <1>1, <2>2, <2>3 DEF TypeOK
<1>9. CASE StoreTag(t)
  BY <1>1, <1>9, InHand, CellIndex DEF TypeOK, StoreTag, Goto, Labels, outcome
<1>10. CASE StoreMirror(t)
  <2>1. MirrorOf(cell[t]) \in TagIndices
    BY <1>1, MirrorIndex DEF TypeOK
  <2>2. Tag(t) \in Nat
    BY <1>10, InHand DEF StoreMirror
  <2>3. tags' \in [TagIndices -> Nat] /\ seen' \in [Threads -> SUBSET TagIndices]
        /\ pc' \in [Threads -> Labels]
    BY <1>1, <1>10, <2>1, <2>2 DEF TypeOK, StoreMirror, Labels
  <2>4. 0 \in Cells /\ 0 \in 0 .. Groups - 1
    BY WholeGroups, TableAssumption DEF Cells
  <2>5. /\ todo' \in [Threads -> SUBSET Rows] /\ row' \in [Threads -> Rows \cup {Default}]
        /\ index' \in [Threads -> Cells] /\ attempts' \in [Threads -> 0 .. Groups - 1]
        /\ empties' \in [Threads -> SUBSET Positions] /\ cell' \in [Threads -> Cells]
    BY <1>1, <1>10, <2>4 DEF TypeOK, StoreMirror, Leave
  <2> QED BY <1>1, <1>10, <2>3, <2>5 DEF TypeOK, StoreMirror
<1> QED
  BY <1>2, <1>3, <1>4, <1>5, <1>6, <1>7, <1>8, <1>9, <1>10 DEF InsertStep

\* An empty table satisfies the invariant.
LEMMA TableInit == Init => TableInv
<1> SUFFICES ASSUME Init PROVE TableInv
  OBVIOUS
<1>1. TypeOK
  <2>1. 0 \in Cells /\ 0 \in 0 .. Groups - 1 /\ EmptyTag \in Nat
    BY WholeGroups, TableAssumption DEF Cells, EmptyTag
  <2>2. todo \in [Threads -> SUBSET Rows]
    BY TableAssumption DEF Init
  <2> QED BY <2>1, <2>2 DEF Init, TypeOK, Labels
<1>2. \A t \in Threads : pc[t] = "idle"
  BY DEF Init
<1>3. \A i \in TagIndices : tags[i] = EmptyTag
  BY DEF Init
<1> QED
  BY <1>1, <1>2, <1>3 DEF TableInv, RowsInHand, CellsMatch, OwnersHaveWritten, TagsShowWrittenCells

\* Every step of insert_atomically preserves the invariant.
LEMMA TableStep ==
  ASSUME TableInv, NEW t \in Threads, InsertStep(t)
  PROVE  TableInv'
<1>1. TypeOK /\ TypeOK'
  BY TypesStay DEF TableInv
<1>2. \A u \in Threads \ {t} : row'[u] = row[u] /\ pc'[u] = pc[u] /\ cell'[u] = cell[u]
  <2>1. CASE Start(t) \/ SwapMatch(t) \/ GiveUp(t) \/ StoreMirror(t)
    BY <1>1, <2>1 DEF TypeOK, Start, SwapMatch, GiveUp, StoreMirror, Goto, Leave
  <2>2. CASE Probe(t)
    BY <1>1, <2>2 DEF TypeOK, Probe
  <2>4. CASE ClaimCell(t)
    BY <1>1, <2>4 DEF TypeOK, ClaimCell
  <2>3. CASE NextGroup(t) \/ SwapOwn(t) \/ StoreTag(t)
    BY <1>1, <2>3 DEF TypeOK, NextGroup, SwapOwn, StoreTag, Goto
  <2> QED BY <2>1, <2>2, <2>3, <2>4 DEF InsertStep
<1>3. RowsInHand'
  <2>1. pc'[t] \notin {"idle", "panicked"} => row'[t] \in Rows
    <3>1. CASE Start(t)
      BY <1>1, <3>1, TableAssumption DEF TypeOK, Start, Goto
    <3>2. CASE SwapMatch(t) \/ GiveUp(t) \/ StoreMirror(t)
      BY <1>1, <3>2 DEF TypeOK, SwapMatch, GiveUp, StoreMirror, Goto
    <3>3. CASE Probe(t) \/ ClaimCell(t) \/ NextGroup(t) \/ SwapOwn(t) \/ StoreTag(t)
      <4>1. row' = row /\ pc[t] \notin {"idle", "panicked"}
        BY <3>3 DEF Probe, ClaimCell, NextGroup, SwapOwn, StoreTag, Goto
      <4> QED BY <4>1 DEF TableInv, RowsInHand
    <3> QED BY <3>1, <3>2, <3>3 DEF InsertStep
  <2> QED BY <1>2, <2>1 DEF TableInv, RowsInHand
<1>4. CellsMatch'
  <2>1. ASSUME NEW u \in Threads \ {t}, pc'[u] \in {"swap", "own", "tag", "mirror"}
        PROVE  hashes'[cell'[u]] = HashOf[row'[u]]
    <3>1. hashes[cell[u]] = Hash(u) /\ cell[u] \in Cells
      BY <1>1, <1>2, <2>1 DEF TableInv, CellsMatch, TypeOK
    <3>2. Hash(u) # NoHash
      BY <1>2, <2>1, InHand
    <3> QED BY <1>2, <3>1, <3>2, HashesStay DEF Hash
  <2>2. pc'[t] \in {"swap", "own", "tag", "mirror"} => hashes'[cell'[t]] = HashOf[row'[t]]
    <3>1. CASE Probe(t)
      BY <1>1, <3>1 DEF TypeOK, Probe, Hash, memory
    <3>2. CASE ClaimCell(t)
      BY <1>1, <3>2, Places DEF TypeOK, ClaimCell, Hash
    <3>3. CASE SwapOwn(t) \/ StoreTag(t)
      BY <3>3 DEF SwapOwn, StoreTag, Goto, TableInv, CellsMatch, Hash
    <3>4. CASE Start(t) \/ NextGroup(t) \/ SwapMatch(t) \/ GiveUp(t) \/ StoreMirror(t)
      BY <1>1, <3>4 DEF TypeOK, Start, NextGroup, SwapMatch, GiveUp, StoreMirror, Goto
    <3> QED BY <3>1, <3>2, <3>3, <3>4 DEF InsertStep
  <2> QED BY <2>1, <2>2 DEF CellsMatch, Hash
<1>5. OwnersHaveWritten'
  <2>1. ASSUME NEW u \in Threads \ {t}, pc'[u] \in {"tag", "mirror"}
        PROVE  Written(cell[u])'
    <3>1. Written(cell[u]) /\ cell[u] \in Cells /\ cell'[u] = cell[u]
      BY <1>1, <1>2, <2>1 DEF TableInv, OwnersHaveWritten, TypeOK
    <3> QED BY <3>1, ValuesStay DEF Written
  <2>2. pc'[t] \in {"tag", "mirror"} => Written(cell[t])'
    <3>1. CASE SwapOwn(t)
      <4>1. row[t] \in Rows /\ Hash(t) \in Hashes /\ hashes[cell[t]] = Hash(t)
        BY <3>1, InHand DEF SwapOwn, Goto, TableInv, CellsMatch
      <4> QED BY <1>1, <3>1, <4>1 DEF TypeOK, SwapOwn, Written, Hash
    <3>2. CASE StoreTag(t)
      <4>1. Written(cell[t]) /\ cell[t] \in Cells /\ cell'[t] = cell[t]
        BY <1>1, <3>2 DEF StoreTag, Goto, TableInv, OwnersHaveWritten, TypeOK
      <4> QED BY <4>1, ValuesStay DEF Written
    <3>3. CASE Start(t) \/ Probe(t) \/ ClaimCell(t) \/ NextGroup(t) \/ SwapMatch(t) \/ GiveUp(t)
               \/ StoreMirror(t)
      BY <1>1, <3>3 DEF TypeOK, Start, Probe, ClaimCell, NextGroup, SwapMatch, GiveUp,
                        StoreMirror, Goto
    <3> QED BY <3>1, <3>2, <3>3 DEF InsertStep
  <2> QED BY <2>1, <2>2 DEF OwnersHaveWritten
<1>6. TagsShowWrittenCells'
  <2>1. \A i \in TagIndices : tags[i] # EmptyTag => Written(CellOf(i))' /\ tags[i] = TagOf[hashes'[CellOf(i)]]
    <3> SUFFICES ASSUME NEW i \in TagIndices, tags[i] # EmptyTag
                 PROVE  Written(CellOf(i))' /\ tags[i] = TagOf[hashes'[CellOf(i)]]
      OBVIOUS
    <3>1. Written(CellOf(i)) /\ tags[i] = TagOf[hashes[CellOf(i)]]
      BY DEF TableInv, TagsShowWrittenCells, Written, CellOf
    <3>2. CellOf(i) \in Cells /\ hashes[CellOf(i)] # NoHash
      BY <3>1, CellOfIndex, TableAssumption DEF Written
    <3> QED BY <3>1, <3>2, ValuesStay, HashesStay DEF Written
  <2>2. CASE UNCHANGED tags
    BY <2>1, <2>2 DEF TagsShowWrittenCells, Written, CellOf
  <2>3. CASE StoreTag(t) \/ StoreMirror(t)
    <3>1. PICK i \in TagIndices : CellOf(i) = cell[t] /\ tags' = [tags EXCEPT ![i] = Tag(t)]
      BY <1>1, <2>3, CellIndex, MirrorIndex DEF StoreTag, StoreMirror, TypeOK
    <3>2. Written(cell[t]) /\ hashes[cell[t]] = Hash(t) /\ cell[t] \in Cells
      BY <1>1, <2>3 DEF TableInv, OwnersHaveWritten, CellsMatch, StoreTag, StoreMirror, Goto, TypeOK
    <3>3. /\ hashes'[cell[t]] \in Hashes /\ values'[cell[t]] \in Rows
          /\ HashOf[values'[cell[t]]] = hashes'[cell[t]] /\ hashes'[cell[t]] = Hash(t)
      <4>1. Written(cell[t]) => hashes'[cell[t]] = hashes[cell[t]]
        BY <3>2, HashesStay, TableAssumption DEF Written
      <4>2. \A c \in Cells : Written(c) =>
              hashes'[c] \in Hashes /\ values'[c] \in Rows /\ HashOf[values'[c]] = hashes'[c]
        BY ValuesStay DEF Written
      <4> QED BY <3>2, <4>1, <4>2
    <3>4. \A j \in TagIndices : tags'[j] = IF j = i THEN Tag(t) ELSE tags[j]
      BY <1>1, <3>1 DEF TypeOK
    <3>5. ASSUME NEW j \in TagIndices, tags'[j] # EmptyTag
          PROVE  /\ hashes'[CellOf(j)] \in Hashes /\ tags'[j] = TagOf[hashes'[CellOf(j)]]
                 /\ values'[CellOf(j)] \in Rows /\ HashOf[values'[CellOf(j)]] = hashes'[CellOf(j)]
      <4>1. CASE j = i
        BY <3>1, <3>3, <3>4, <4>1 DEF Tag
      <4>2. CASE j # i
        BY <2>1, <3>4, <3>5, <4>2 DEF Written
      <4> QED BY <4>1, <4>2
    <3> QED BY <3>5 DEF TagsShowWrittenCells, CellOf
  <2> QED
    BY <2>2, <2>3 DEF InsertStep, Start, Probe, SwapMatch, ClaimCell, NextGroup, GiveUp,
                      SwapOwn, memory
<1> QED BY <1>1, <1>3, <1>4, <1>5, <1>6 DEF TableInv

\* So does no step at all.
LEMMA TableStutter ==
  ASSUME TableInv, UNCHANGED fixedVars
  PROVE  TableInv'
BY DEF fixedVars, TableInv, TypeOK, RowsInHand, CellsMatch, Hash, OwnersHaveWritten, Written,
       TagsShowWrittenCells

\* Types and the order of the writes of an insert are invariant.
THEOREM TableInvariant == Spec => []TableInv
<1>1. TableInv /\ [Next]_fixedVars => TableInv'
  BY TableStep, TableStutter DEF Next, Stopped
<1> QED BY TableInit, <1>1, PTL DEF Spec

\* Positions, cells and tags of an insert stay in range, for any size of table.
THEOREM TypesHold == Spec => []TypeOK
BY TableInvariant, PTL DEF TableInv

\* insert_atomically stores a tag only after hash and value: whoever sees a tag in
\* memory finds the cell written.
THEOREM TagsNeverLead == Spec => []TagsShowWrittenCells
BY TableInvariant, PTL DEF TableInv

------------------------------------------------------------------------------
(* The search for a hash *)

\* The cell is taken by another hash than h.
Elsewhere(h, c) == hashes[c] \notin {NoHash, h}

\* The search for h comes past the first n groups, or to position p of the next.
PastGroups(h, n) ==
    \A m \in 0 .. n - 1, p \in Positions : Elsewhere(h, CellAt(Window(h, m), p))
ComesTo(h, n, p) ==
    PastGroups(h, n) /\ \A q \in 0 .. p - 1 : Elsewhere(h, CellAt(Window(h, n), q))

\* A thread has given up only groups without room and without its hash, and is at
\* the group that get would look at next.
Searching ==
    \A t \in Threads : pc[t] \in {"probe", "claim"} =>
        index[t] = Window(Hash(t), attempts[t]) /\ PastGroups(Hash(t), attempts[t])

\* Of the group it is at, every cell is still to be tried or taken by another hash.
Trying ==
    \A t \in Threads : pc[t] = "claim" =>
        \A p \in Positions \ empties[t] : Elsewhere(Hash(t), CellAt(index[t], p))

\* Every taken cell is the one its hash comes to.
Reached ==
    \A c \in Cells : hashes[c] # NoHash =>
        \E n \in 0 .. Groups - 1, p \in Positions :
            c = CellAt(Window(hashes[c], n), p) /\ ComesTo(hashes[c], n, p)

\* Both tags of a taken cell are stored, or its owner is on the way to them.
Shown ==
    \A c \in Cells : hashes[c] # NoHash =>
        /\ tags[c] # EmptyTag \/ \E t \in Threads : cell[t] = c /\ pc[t] \in {"own", "tag"}
        /\ \/ tags[MirrorOf(c)] # EmptyTag
           \/ \E t \in Threads : cell[t] = c /\ pc[t] \in {"own", "tag", "mirror"}

\* The inductive invariant of the search.
ProbeInv == Searching /\ Trying /\ Reached /\ Shown

------------------------------------------------------------------------------
(* The windows of a search *)

\* The first group of a search is where the hash starts, and HybridProbeSequence
\* goes on from each as the search of get does.
LEMMA Windows ==
  ASSUME NEW h \in Hashes
  PROVE  /\ Window(h, 0) = StartOf[h]
         /\ \A n \in Nat : Window(h, n) \in Cells
         /\ \A n \in Nat : NextIndex(Window(h, n), TagOf[h]) = Window(h, n + 1)
<1> DEFINE step == (2 * TagOf[h] + 1) * GroupSize
           reach(n) == StartOf[h] + n * (2 * TagOf[h] + 1) * GroupSize
<1>1. /\ StartOf[h] \in 0 .. Capacity - 1 /\ TagOf[h] \in Nat
      /\ Capacity \in Nat \ {0} /\ GroupSize \in Nat \ {0}
  BY TableAssumption DEF Cells
<1>2. 2 * TagOf[h] + 1 \in Nat /\ step \in Int
  BY <1>1
<1>3. ASSUME NEW n \in Nat PROVE reach(n) \in Int /\ reach(n + 1) = reach(n) + step
  <2> DEFINE d == 2 * TagOf[h] + 1
  <2>1. d \in Int /\ n * d \in Int /\ (n + 1) * d = n * d + d
    BY <1>2
  <2>2. (n + 1) * d * GroupSize = n * d * GroupSize + d * GroupSize
    BY <1>1, <2>1
  <2>3. n * d * GroupSize \in Int /\ d * GroupSize \in Int
    BY <1>1, <2>1
  <2> HIDE DEF d
  <2>4. /\ StartOf[h] + n * d * GroupSize \in Int
        /\ StartOf[h] + (n + 1) * d * GroupSize = (StartOf[h] + n * d * GroupSize) + d * GroupSize
    BY <1>1, <2>2, <2>3
  <2> QED BY <2>4 DEF d
<1>4. reach(0) = StartOf[h]
  BY <1>1, <1>2
<1>5. StartOf[h] % Capacity = StartOf[h]
  <2>1. StartOf[h] \in Int /\ StartOf[h] \in 0 .. Capacity - 1 /\ Capacity \in Nat \ {0}
    BY <1>1
  <2> QED BY <2>1, Modulo
<1>6. ASSUME NEW n \in Nat PROVE Window(h, n) \in Cells
  <2>1. reach(n) \in Int /\ Capacity \in Nat \ {0}
    BY <1>1, <1>3
  <2> HIDE DEF reach
  <2>2. reach(n) % Capacity \in 0 .. Capacity - 1
    BY <2>1, Modulo
  <2> QED BY <2>2 DEF reach, Window, Cells
<1>7. ASSUME NEW n \in Nat PROVE NextIndex(Window(h, n), TagOf[h]) = Window(h, n + 1)
  <2>1. ((reach(n) % Capacity) + step) % Capacity = (reach(n) + step) % Capacity
    BY <1>1, <1>2, <1>3, ModuloSum
  <2>2. (reach(n) + step) % Capacity = reach(n + 1) % Capacity
    BY <1>3
  <2> QED BY <2>1, <2>2 DEF NextIndex, Window
<1>8. Window(h, 0) = StartOf[h]
  BY <1>4, <1>5 DEF Window
<1> QED BY <1>6, <1>7, <1>8

\* A position of a window shows the tag of the cell at this position: the first, or
\* where the window passes the last cell the second.
LEMMA ShownAt ==
  ASSUME NEW start \in Cells, NEW p \in Positions
  PROVE  /\ CellAt(start, p) \in Cells /\ start + p \in TagIndices
         /\ CellOf(start + p) = CellAt(start, p)
         /\ start + p \in {CellAt(start, p), MirrorOf(CellAt(start, p))}
<1> DEFINE c == CellAt(start, p)
<1>1. /\ start \in 0 .. Capacity - 1 /\ p \in 0 .. GroupSize - 1
      /\ Capacity \in Nat \ {0} /\ GroupSize \in Nat \ {0} /\ GroupSize <= Capacity
  BY CapacityAtLeastGroup, TableAssumption DEF Cells, Positions
<1>2. c \in Cells /\ start + p \in TagIndices
  BY Places
<1>3. CASE start + p < Capacity
  <2>1. start + p \in Int /\ start + p \in 0 .. Capacity - 1 /\ Capacity \in Nat \ {0}
    BY <1>1, <1>3
  <2>2. (start + p) % Capacity = start + p
    BY <2>1, Modulo
  <2>3. c = start + p
    BY <2>2 DEF CellAt
  <2> QED BY <1>2, <1>3, <2>3 DEF CellOf
<1>4. CASE ~(start + p < Capacity)
  <2>1. start + p - Capacity \in 0 .. Capacity - 1 /\ start + p - Capacity < GroupSize
    BY <1>1, <1>4
  <2>2. start + p = Capacity * 1 + (start + p - Capacity)
    BY <1>1
  <2>3. c = start + p - Capacity
    BY <1>1, <2>1, <2>2, Remainder DEF CellAt
  <2>4. MirrorOf(c) = start + p
    BY <1>1, <1>2, <2>1, <2>3, MirrorPlace
  <2>5. CellOf(start + p) = c
    BY <1>1, <1>4, <2>3 DEF CellOf
  <2> HIDE DEF c
  <2> QED BY <1>2, <2>4, <2>5 DEF c
<1> QED BY <1>3, <1>4

------------------------------------------------------------------------------
(* The steps of a search *)

\* What a search has come past stays taken.
LEMMA ElsewhereStays ==
  ASSUME TableInv, NEW t \in Threads, InsertStep(t)
  PROVE  \A h \in Hashes, c \in Cells : Elsewhere(h, c) => Elsewhere(h, c)'
BY HashesStay DEF Elsewhere

\* So do whole groups of it.
LEMMA PathsStay ==
  ASSUME TableInv, NEW t \in Threads, InsertStep(t)
  PROVE  \A h \in Hashes, n \in Nat :
           /\ PastGroups(h, n) => PastGroups(h, n)'
           /\ \A p \in Positions : ComesTo(h, n, p) => ComesTo(h, n, p)'
<1> SUFFICES ASSUME NEW h \in Hashes, NEW n \in Nat
             PROVE  /\ PastGroups(h, n) => PastGroups(h, n)'
                    /\ \A p \in Positions : ComesTo(h, n, p) => ComesTo(h, n, p)'
  OBVIOUS
<1>1. \A m \in Nat, p \in Positions : CellAt(Window(h, m), p) \in Cells
  BY Windows, Places
<1>2. \A m \in 0 .. n - 1 : m \in Nat
  OBVIOUS
<1>3. PastGroups(h, n) => PastGroups(h, n)'
  BY <1>1, <1>2, ElsewhereStays DEF PastGroups
<1>4. ASSUME NEW p \in Positions PROVE \A q \in 0 .. p - 1 : q \in Positions
  BY TableAssumption DEF Positions
<1>5. ASSUME NEW p \in Positions, ComesTo(h, n, p) PROVE ComesTo(h, n, p)'
  BY <1>1, <1>3, <1>4, <1>5, ElsewhereStays DEF ComesTo
<1> QED BY <1>3, <1>5

\* After n groups and one more a search is past n + 1.
LEMMA OneMoreGroup ==
  ASSUME NEW h, NEW n \in Nat, PastGroups(h, n),
         \A p \in Positions : Elsewhere(h, CellAt(Window(h, n), p))
  PROVE  PastGroups(h, n + 1)
<1>1. \A m \in 0 .. (n + 1) - 1 : m \in 0 .. n - 1 \/ m = n
  OBVIOUS
<1> QED BY <1>1 DEF PastGroups

\* What one thread does leaves the others where they are.
LEMMA OthersStay ==
  ASSUME TableInv, NEW t \in Threads, InsertStep(t)
  PROVE  \A u \in Threads \ {t} :
           /\ pc'[u] = pc[u] /\ row'[u] = row[u] /\ cell'[u] = cell[u] /\ index'[u] = index[u]
           /\ attempts'[u] = attempts[u] /\ empties'[u] = empties[u]
<1>1. TypeOK
  BY DEF TableInv
<1>2. CASE Start(t) \/ SwapMatch(t) \/ GiveUp(t) \/ StoreMirror(t)
  BY <1>1, <1>2 DEF TypeOK, Start, SwapMatch, GiveUp, StoreMirror, Goto, Leave
<1>3. CASE Probe(t)
  BY <1>1, <1>3 DEF TypeOK, Probe
<1>4. CASE ClaimCell(t)
  BY <1>1, <1>4 DEF TypeOK, ClaimCell
<1>5. CASE NextGroup(t) \/ SwapOwn(t) \/ StoreTag(t)
  BY <1>1, <1>5 DEF TypeOK, NextGroup, SwapOwn, StoreTag, Goto
<1> QED BY <1>2, <1>3, <1>4, <1>5 DEF InsertStep

\* A thread that goes on to another group leaves only taken cells behind.
LEMMA SearchingStays ==
  ASSUME TableInv, ProbeInv, NEW t \in Threads, InsertStep(t)
  PROVE  Searching'
<1>1. TypeOK
  BY DEF TableInv
<1>2. ASSUME NEW u \in Threads \ {t}, pc'[u] \in {"probe", "claim"}
      PROVE  index'[u] = Window(Hash(u)', attempts'[u]) /\ PastGroups(Hash(u), attempts[u])'
  <2>1. pc[u] \in {"probe", "claim"} /\ Hash(u)' = Hash(u) /\ index'[u] = index[u]
        /\ attempts'[u] = attempts[u]
    BY <1>2, OthersStay DEF Hash
  <2>2. Hash(u) \in Hashes /\ attempts[u] \in Nat
    BY <1>1, <2>1, InHand, WholeGroups DEF TypeOK
  <2>3. index[u] = Window(Hash(u), attempts[u]) /\ PastGroups(Hash(u), attempts[u])
    BY <2>1 DEF ProbeInv, Searching
  <2>4. PastGroups(Hash(u), attempts[u])' <=> \A m \in 0 .. attempts[u] - 1, p \in Positions :
            Elsewhere(Hash(u), CellAt(Window(Hash(u), m), p))'
    BY <2>1 DEF PastGroups
  <2> QED BY <2>1, <2>2, <2>3, PathsStay DEF PastGroups, Elsewhere
<1>3. ASSUME pc'[t] \in {"probe", "claim"}
      PROVE  index'[t] = Window(Hash(t)', attempts'[t]) /\ PastGroups(Hash(t), attempts[t])'
  <2>1. CASE Start(t)
    <3>1. PICK r \in todo[t] : /\ Goto(t, "idle", "probe")
                               /\ row' = [row EXCEPT ![t] = r]
                               /\ index' = [index EXCEPT ![t] = StartOf[HashOf[r]]]
                               /\ attempts' = [attempts EXCEPT ![t] = 0]
      BY <2>1 DEF Start
    <3>2. Hash(t)' = HashOf[r] /\ HashOf[r] \in Hashes /\ attempts'[t] = 0
          /\ index'[t] = StartOf[HashOf[r]]
      BY <1>1, <3>1, TableAssumption DEF TypeOK, Hash
    <3> QED BY <3>2, Windows DEF PastGroups
  <2>2. CASE NextGroup(t)
    <3>1. /\ Hash(t) \in Hashes /\ Hash(t)' = Hash(t) /\ pc[t] = "claim" /\ empties[t] = {}
          /\ attempts[t] \in Nat /\ attempts'[t] = attempts[t] + 1
          /\ index'[t] = NextIndex(index[t], TagOf[Hash(t)]) /\ hashes' = hashes
      BY <1>1, <2>2, InHand, WholeGroups DEF TypeOK, NextGroup, Goto, Hash, Tag, memory
    <3>2. index[t] = Window(Hash(t), attempts[t]) /\ PastGroups(Hash(t), attempts[t])
      BY <3>1 DEF ProbeInv, Searching
    <3>3. \A p \in Positions : Elsewhere(Hash(t), CellAt(Window(Hash(t), attempts[t]), p))
      BY <3>1, <3>2 DEF ProbeInv, Trying
    <3>4. PastGroups(Hash(t), attempts[t] + 1)
      BY <3>1, <3>2, <3>3, OneMoreGroup
    <3> QED BY <3>1, <3>2, <3>4, Windows DEF PastGroups, Elsewhere
  <2>3. CASE Probe(t) \/ ClaimCell(t)
    <3>1. pc[t] \in {"probe", "claim"} /\ UNCHANGED <<row, index, attempts>>
      BY <2>3 DEF Probe, ClaimCell
    <3>2. Hash(t) \in Hashes /\ attempts[t] \in Nat /\ Hash(t)' = Hash(t)
      BY <1>1, <3>1, InHand, WholeGroups DEF TypeOK, Hash
    <3>3. index[t] = Window(Hash(t), attempts[t]) /\ PastGroups(Hash(t), attempts[t])
      BY <3>1 DEF ProbeInv, Searching
    <3> QED BY <3>1, <3>2, <3>3, PathsStay DEF PastGroups, Elsewhere
  <2>4. CASE SwapMatch(t) \/ GiveUp(t) \/ SwapOwn(t) \/ StoreTag(t) \/ StoreMirror(t)
    BY <1>1, <1>3, <2>4 DEF TypeOK, SwapMatch, GiveUp, SwapOwn, StoreTag, StoreMirror, Goto
  <2> QED BY <2>1, <2>2, <2>3, <2>4 DEF InsertStep
<1> QED BY <1>2, <1>3 DEF Searching
\* Where hashes are not read late, a thread that finds no match in a group has seen
\* that each cell whose tag it read holds another hash.
LEMMA TryingStays ==
  ASSUME TableInv, ProbeInv, ~StaleHashLoads, NEW t \in Threads, InsertStep(t)
  PROVE  Trying'
<1>1. TypeOK
  BY DEF TableInv
<1>2. ASSUME NEW u \in Threads \ {t}, pc'[u] = "claim", NEW p \in Positions \ empties'[u]
      PROVE  Elsewhere(Hash(u), CellAt(index[u], p))'
  <2>1. pc[u] = "claim" /\ Hash(u)' = Hash(u) /\ index'[u] = index[u] /\ empties'[u] = empties[u]
    BY <1>2, OthersStay DEF Hash
  <2>2. Hash(u) \in Hashes /\ CellAt(index[u], p) \in Cells
    BY <1>1, <2>1, InHand, Places DEF TypeOK
  <2>3. Elsewhere(Hash(u), CellAt(index[u], p))
    BY <1>2, <2>1 DEF ProbeInv, Trying
  <2> QED BY <2>1, <2>2, <2>3, ElsewhereStays DEF Elsewhere, CellAt
<1>3. ASSUME pc'[t] = "claim", NEW p \in Positions \ empties'[t]
      PROVE  Elsewhere(Hash(t), CellAt(index[t], p))'
  <2>1. CASE Probe(t)
    <3> DEFINE at(q) == CellAt(index[t], q)
               written == {q \in Positions : tags[index[t] + q] # EmptyTag}
    <3>1. PICK fresh \in SUBSET written :
            /\ \A q \in fresh : tags[index[t] + q] = Tag(t) => hashes[at(q)] # Hash(t)
            /\ empties' = [empties EXCEPT ![t] = Positions \ fresh]
      <4> DEFINE matches(f) == {q \in f : tags[index[t] + q] = Tag(t)}
      <4>1. PICK fresh \in SUBSET written :
              \E stale \in SUBSET {} :
                LET found == {q \in matches(fresh) \ stale : hashes[at(q)] = Hash(t)}
                IN \/ found # {} /\ pc' = [pc EXCEPT ![t] = "swap"]
                   \/ found = {} /\ empties' = [empties EXCEPT ![t] = Positions \ fresh]
        BY <2>1, Zenon DEF Probe
      <4>2. pc' # [pc EXCEPT ![t] = "swap"]
        BY <1>1, <1>3 DEF TypeOK
      <4>3. {q \in matches(fresh) : hashes[at(q)] = Hash(t)} = {}
            /\ empties' = [empties EXCEPT ![t] = Positions \ fresh]
        BY <4>1, <4>2
      <4> QED BY <4>3
    <3>2. p \in fresh /\ p \in Positions
      BY <1>1, <1>3, <3>1 DEF TypeOK
    <3>3. at(p) \in Cells /\ index[t] + p \in TagIndices /\ CellOf(index[t] + p) = at(p)
      BY <1>1, <3>2, ShownAt DEF TypeOK
    <3>4. /\ tags[index[t] + p] # EmptyTag
          /\ tags[index[t] + p] = Tag(t) => hashes[at(p)] # Hash(t)
      BY <3>1, <3>2
    <3>5. hashes[at(p)] \in Hashes /\ tags[index[t] + p] = TagOf[hashes[at(p)]]
      BY <3>3, <3>4 DEF TableInv, TagsShowWrittenCells, CellOf
    <3>6. Elsewhere(Hash(t), at(p))
      BY <3>4, <3>5, TableAssumption DEF Elsewhere, Tag
    <3>7. UNCHANGED <<hashes, row, index>>
      BY <2>1 DEF Probe, memory
    <3> QED BY <3>6, <3>7 DEF Elsewhere, Hash, CellAt
  <2>2. CASE ClaimCell(t)
    <3>1. PICK q \in empties[t] :
            /\ pc[t] = "claim" /\ hashes[CellAt(index[t], q)] \notin {NoHash, Hash(t)}
            /\ empties' = [empties EXCEPT ![t] = @ \ {q}] /\ UNCHANGED <<hashes, row, index>>
      BY <1>1, <1>3, <2>2 DEF ClaimCell, TypeOK
    <3>2. p \notin empties[t] \/ p = q
      BY <1>1, <1>3, <3>1 DEF TypeOK
    <3>3. Elsewhere(Hash(t), CellAt(index[t], p))
      BY <1>3, <3>1, <3>2 DEF ProbeInv, Trying, Elsewhere
    <3> QED BY <3>1, <3>3 DEF Elsewhere, Hash, CellAt
  <2>3. CASE \/ Start(t) \/ NextGroup(t) \/ SwapMatch(t) \/ GiveUp(t)
             \/ SwapOwn(t) \/ StoreTag(t) \/ StoreMirror(t)
    BY <1>1, <1>3, <2>3 DEF TypeOK, Start, NextGroup, SwapMatch, GiveUp, SwapOwn, StoreTag,
                            StoreMirror, Goto
  <2> QED BY <2>1, <2>2, <2>3 DEF InsertStep
<1> QED BY <1>2, <1>3 DEF Trying

\* A cell is claimed only where the search for its hash comes to.
LEMMA ReachedStays ==
  ASSUME TableInv, ProbeInv, NEW t \in Threads, InsertStep(t)
  PROVE  Reached'
<1>1. TypeOK
  BY DEF TableInv
<1>2. ASSUME NEW c \in Cells, hashes[c] # NoHash
      PROVE  \E n \in 0 .. Groups - 1, p \in Positions :
               c = CellAt(Window(hashes'[c], n), p) /\ ComesTo(hashes[c], n, p)'
  <2>1. PICK n \in 0 .. Groups - 1, p \in Positions :
          c = CellAt(Window(hashes[c], n), p) /\ ComesTo(hashes[c], n, p)
    BY <1>2 DEF ProbeInv, Reached
  <2>2. hashes[c] \in Hashes /\ hashes'[c] = hashes[c] /\ n \in Nat
    BY <1>1, <1>2, HashesStay DEF TypeOK
  <2> QED BY <2>1, <2>2, PathsStay DEF ComesTo, PastGroups, Elsewhere
<1>3. ASSUME NEW c \in Cells, hashes[c] = NoHash, hashes'[c] # NoHash
      PROVE  \E n \in 0 .. Groups - 1, p \in Positions :
               c = CellAt(Window(hashes'[c], n), p) /\ ComesTo(hashes[c], n, p)'
  <2>1. ClaimCell(t)
    BY <1>3 DEF InsertStep, Start, Probe, SwapMatch, NextGroup, GiveUp, SwapOwn, StoreTag,
                StoreMirror, memory
  <2>2. PICK p \in empties[t] : /\ pc[t] = "claim" /\ c = CellAt(index[t], p)
                               /\ \A q \in empties[t] : p <= q
                               /\ hashes' = [hashes EXCEPT ![c] = Hash(t)]
    BY <1>1, <1>3, <2>1 DEF ClaimCell, TypeOK
  <2>3. /\ hashes'[c] = Hash(t) /\ Hash(t) \in Hashes /\ p \in Positions
        /\ attempts[t] \in 0 .. Groups - 1
    BY <1>1, <2>2, InHand DEF TypeOK
  <2>4. index[t] = Window(Hash(t), attempts[t]) /\ PastGroups(Hash(t), attempts[t])
    BY <2>2 DEF ProbeInv, Searching
  <2>5. ASSUME NEW q \in 0 .. p - 1 PROVE Elsewhere(Hash(t), CellAt(index[t], q))
    <3>1. q \in Positions /\ ~(p <= q)
      BY <2>3, TableAssumption DEF Positions
    <3> QED BY <2>2, <3>1 DEF ProbeInv, Trying
  <2>6. ComesTo(Hash(t), attempts[t], p)
    BY <2>4, <2>5 DEF ComesTo
  <2> QED BY <2>2, <2>3, <2>4, <2>6, PathsStay DEF ComesTo, PastGroups, Elsewhere
<1>4. \A c \in Cells : hashes'[c] # NoHash =>
        \E n \in 0 .. Groups - 1, p \in Positions :
          c = CellAt(Window(hashes'[c], n), p) /\ ComesTo(hashes[c], n, p)'
  BY <1>2, <1>3
<1> QED BY <1>4 DEF Reached, CellAt, Window
\* The owner of a cell stores both tags before it leaves.
LEMMA ShownStays ==
  ASSUME TableInv, Shown, NEW t \in Threads, InsertStep(t)
  PROVE  Shown'
<1>1. TypeOK
  BY DEF TableInv
<1>2. \A i \in TagIndices : tags[i] # EmptyTag => tags'[i] # EmptyTag
  <2>1. CASE StoreTag(t) \/ StoreMirror(t)
    <3>1. Tag(t) # EmptyTag
      BY <2>1, InHand DEF StoreTag, StoreMirror, Goto
    <3>2. \E i : tags' = [tags EXCEPT ![i] = Tag(t)]
      BY <2>1 DEF StoreTag, StoreMirror
    <3> QED BY <1>1, <3>1, <3>2 DEF TypeOK
  <2> QED
    BY <2>1 DEF InsertStep, Start, Probe, SwapMatch, ClaimCell, NextGroup, GiveUp, SwapOwn, memory
<1> DEFINE Owns(u, c) == cell[u] = c /\ pc[u] \in {"own", "tag"}
           Keeps(u, c) == cell[u] = c /\ pc[u] \in {"own", "tag", "mirror"}
<1>3. ASSUME NEW c \in Cells, hashes[c] = NoHash, hashes'[c] # NoHash
      PROVE  cell'[t] = c /\ pc'[t] = "own"
  <2>1. ClaimCell(t)
    BY <1>3 DEF InsertStep, Start, Probe, SwapMatch, NextGroup, GiveUp, SwapOwn, StoreTag,
                StoreMirror, memory
  <2> QED BY <1>1, <1>3, <2>1 DEF ClaimCell, TypeOK
<1>4. ASSUME NEW c \in Cells
      PROVE  Owns(t, c) => tags'[c] # EmptyTag \/ (cell'[t] = c /\ pc'[t] \in {"own", "tag"})
  <2>1. CASE StoreTag(t)
    BY <1>1, <2>1, InHand, CellIndex DEF TypeOK, StoreTag, Goto
  <2>2. CASE SwapOwn(t)
    BY <1>1, <2>2 DEF TypeOK, SwapOwn, Goto
  <2> QED
    BY <2>1, <2>2 DEF InsertStep, Start, Probe, SwapMatch, ClaimCell, NextGroup, GiveUp,
                      StoreMirror, Goto
<1>5. ASSUME NEW c \in Cells
      PROVE  Keeps(t, c) => \/ tags'[MirrorOf(c)] # EmptyTag
                            \/ cell'[t] = c /\ pc'[t] \in {"own", "tag", "mirror"}
  <2>1. CASE StoreMirror(t)
    BY <1>1, <2>1, InHand, MirrorIndex DEF TypeOK, StoreMirror
  <2>2. CASE SwapOwn(t) \/ StoreTag(t)
    BY <1>1, <2>2 DEF TypeOK, SwapOwn, StoreTag, Goto
  <2> QED
    BY <2>1, <2>2 DEF InsertStep, Start, Probe, SwapMatch, ClaimCell, NextGroup, GiveUp, Goto
<1>6. ASSUME NEW c \in Cells, hashes'[c] # NoHash
      PROVE  /\ tags'[c] # EmptyTag \/ \E u \in Threads : cell'[u] = c /\ pc'[u] \in {"own", "tag"}
             /\ \/ tags'[MirrorOf(c)] # EmptyTag
                \/ \E u \in Threads : cell'[u] = c /\ pc'[u] \in {"own", "tag", "mirror"}
  <2>1. CASE hashes[c] = NoHash
    BY <1>3, <1>6, <2>1
  <2>2. CASE hashes[c] # NoHash
    <3>1. /\ tags[c] # EmptyTag \/ \E u \in Threads : Owns(u, c)
          /\ tags[MirrorOf(c)] # EmptyTag \/ \E u \in Threads : Keeps(u, c)
      BY <2>2 DEF Shown
    <3>2. c \in TagIndices /\ MirrorOf(c) \in TagIndices
      BY CellIndex, MirrorIndex
    <3>3. \A u \in Threads \ {t} : cell'[u] = cell[u] /\ pc'[u] = pc[u]
      BY OthersStay
    <3>4. tags'[c] # EmptyTag \/ \E u \in Threads : cell'[u] = c /\ pc'[u] \in {"own", "tag"}
      BY <1>2, <1>4, <3>1, <3>2, <3>3
    <3>5. \/ tags'[MirrorOf(c)] # EmptyTag
          \/ \E u \in Threads : cell'[u] = c /\ pc'[u] \in {"own", "tag", "mirror"}
      BY <1>2, <1>5, <3>1, <3>2, <3>3
    <3> QED BY <3>4, <3>5
  <2> QED BY <2>1, <2>2
<1> QED BY <1>6 DEF Shown, MirrorOf

\* An empty table, with nobody searching it, satisfies the invariant.
LEMMA ProbeInit == Init => ProbeInv
BY DEF Init, ProbeInv, Searching, Trying, Reached, Shown

\* No step at all preserves it.
LEMMA ProbeStutter ==
  ASSUME ProbeInv, UNCHANGED fixedVars
  PROVE  ProbeInv'
<1>1. Searching' /\ Trying'
  BY DEF fixedVars, ProbeInv, Searching, Trying, PastGroups, Elsewhere, Hash
<1>2. Reached' /\ Shown'
  BY DEF fixedVars, ProbeInv, Reached, Shown, ComesTo, PastGroups, Elsewhere
<1> QED BY <1>1, <1>2 DEF ProbeInv

\* Where hashes are not read late, every taken cell is the one that the search for
\* its hash comes to, and both its tags will be stored.
THEOREM ProbeInvariant ==
  ASSUME ~StaleHashLoads
  PROVE  Spec => []ProbeInv
<1>1. TableInv /\ ProbeInv /\ [Next]_fixedVars => ProbeInv'
  <2>1. ASSUME TableInv, ProbeInv, NEW t \in Threads, InsertStep(t) PROVE ProbeInv'
    BY <2>1, SearchingStays, TryingStays, ReachedStays, ShownStays DEF ProbeInv
  <2> QED BY <2>1, ProbeStutter DEF Next, Stopped
<1> QED BY ProbeInit, <1>1, TableInvariant, PTL DEF Spec

------------------------------------------------------------------------------
(* Reading *)

\* A search comes to one cell only.
LEMMA OneCell == TypeOK /\ ProbeInv => NoDuplicateHash
<1> SUFFICES ASSUME TypeOK, ProbeInv, NEW c \in TakenCells, NEW d \in TakenCells,
                    hashes[c] = hashes[d]
             PROVE  c = d
  BY DEF NoDuplicateHash
<1> DEFINE h == hashes[c]
<1>1. PICK n \in 0 .. Groups - 1, p \in Positions : c = CellAt(Window(h, n), p) /\ ComesTo(h, n, p)
  BY DEF ProbeInv, Reached, TakenCells
<1>2. PICK m \in 0 .. Groups - 1, q \in Positions : d = CellAt(Window(h, m), q) /\ ComesTo(h, m, q)
  BY DEF ProbeInv, Reached, TakenCells
<1>3. ~Elsewhere(h, c) /\ ~Elsewhere(h, d)
  BY DEF Elsewhere
<1>4. n \in Int /\ m \in Int /\ n >= 0 /\ m >= 0 /\ p \in Int /\ q \in Int /\ p >= 0 /\ q >= 0
  BY WholeGroups, TableAssumption DEF Positions
<1>5. ~(n < m) /\ ~(m < n)
  BY <1>1, <1>2, <1>3, <1>4 DEF ComesTo, PastGroups
<1>6. n = m
  BY <1>4, <1>5
<1>7. ~(p < q) /\ ~(q < p)
  BY <1>1, <1>2, <1>3, <1>4, <1>6 DEF ComesTo
<1> QED BY <1>1, <1>2, <1>4, <1>6, <1>7

\* insert_atomically takes one cell for a hash, whoever inserts it and when, where
\* hashes are not read late (with late ones it takes two).
THEOREM OneCellPerHash ==
  ASSUME ~StaleHashLoads
  PROVE  Spec => []NoDuplicateHash
<1>1. TableInv /\ ProbeInv => NoDuplicateHash
  BY OneCell DEF TableInv
<1> QED BY <1>1, TableInvariant, ProbeInvariant, PTL

\* At rest the search of get goes past all groups before that of a taken cell and
\* stops there, with this cell as its only match.
LEMMA GetFinds == TableInv /\ ProbeInv => EveryHashReadable
<1> SUFFICES ASSUME TableInv, ProbeInv, AtRest, NEW c \in TakenCells
             PROVE  FoundCells(hashes[c]) = {c}
  BY DEF EveryHashReadable
<1> DEFINE h == hashes[c]
<1>1. TypeOK /\ c \in Cells /\ h # NoHash /\ h \in Hashes
  BY DEF TableInv, TypeOK, TakenCells
<1>2. PICK n \in 0 .. Groups - 1, p \in Positions : c = CellAt(Window(h, n), p) /\ ComesTo(h, n, p)
  BY <1>1 DEF ProbeInv, Reached
<1>3. \A m \in 0 .. Groups - 1 : m \in Nat /\ Window(h, m) \in Cells
  BY <1>1, Windows, WholeGroups
<1>4. \A d \in Cells : hashes[d] # NoHash => tags[d] # EmptyTag /\ tags[MirrorOf(d)] # EmptyTag
  BY DEF AtRest, ProbeInv, Shown
<1>5. ASSUME NEW m \in 0 .. Groups - 1, NEW q \in Positions,
             hashes[CellAt(Window(h, m), q)] # NoHash
      PROVE  /\ tags[Window(h, m) + q] # EmptyTag
             /\ tags[Window(h, m) + q] = TagOf[hashes[CellAt(Window(h, m), q)]]
  <2>1. /\ CellAt(Window(h, m), q) \in Cells /\ Window(h, m) + q \in TagIndices
        /\ CellOf(Window(h, m) + q) = CellAt(Window(h, m), q)
        /\ Window(h, m) + q \in {CellAt(Window(h, m), q), MirrorOf(CellAt(Window(h, m), q))}
    BY <1>3, ShownAt
  <2>2. tags[Window(h, m) + q] # EmptyTag
    BY <1>4, <1>5, <2>1
  <2> QED BY <2>1, <2>2 DEF TableInv, TagsShowWrittenCells, CellOf
<1>6. ASSUME NEW m \in 0 .. n - 1 PROVE ~Stops(h, m)
  <2>1. m \in 0 .. Groups - 1
    BY <1>6, WholeGroups
  <2>2. \A q \in Positions : hashes[CellAt(Window(h, m), q)] \notin {NoHash, h}
    BY <1>2 DEF ComesTo, PastGroups, Elsewhere
  <2>3. MatchesIn(h, Window(h, m)) = {}
    BY <2>2 DEF MatchesIn
  <2>4. ~HasEmpty(Window(h, m))
    BY <1>5, <2>1, <2>2 DEF HasEmpty
  <2> QED BY <2>3, <2>4 DEF Stops
<1>7. p \in MatchesIn(h, Window(h, n))
  BY <1>1, <1>2, <1>5 DEF MatchesIn
<1>8. Stops(h, n)
  BY <1>7 DEF Stops
<1>9. GetReturns(h)
  BY <1>8 DEF GetReturns
<1>10. LastWindow(h) = n
  <2>1. ASSUME NEW m \in 0 .. Groups - 1, Stops(h, m), \A k \in 0 .. m - 1 : ~Stops(h, k)
        PROVE  m = n
    <3>1. m \in Int /\ n \in Int /\ m >= 0 /\ n >= 0
      BY WholeGroups
    <3>2. ~(m < n) /\ ~(n < m)
      BY <1>6, <1>8, <2>1, <3>1
    <3> QED BY <3>1, <3>2
  <2> QED BY <1>6, <1>8, <2>1 DEF LastWindow
<1>11. ASSUME NEW q \in MatchesIn(h, Window(h, n)) PROVE CellAt(Window(h, n), q) = c
  <2>1. CellAt(Window(h, n), q) \in TakenCells /\ hashes[CellAt(Window(h, n), q)] = h
    BY <1>1, <1>3, Places DEF MatchesIn, TakenCells
  <2> QED BY <1>1, <2>1, OneCell DEF NoDuplicateHash
<1> QED BY <1>2, <1>7, <1>9, <1>10, <1>11 DEF FoundCells

\* get finds every hash that was inserted, in one cell, for any number and size of
\* groups and whatever inserts raced for the cells, where hashes are not read late.
THEOREM GetFindsInserted ==
  ASSUME ~StaleHashLoads
  PROVE  Spec => []EveryHashReadable
<1>1. TableInv /\ ProbeInv => EveryHashReadable
  BY GetFinds
<1> QED BY <1>1, TableInvariant, ProbeInvariant, PTL

\* As many groups further a search is back where it started.
LEMMA WindowRound ==
  ASSUME NEW h \in Hashes
  PROVE  Window(h, Groups) = Window(h, 0)
<1> DEFINE s == StartOf[h]
           d == 2 * TagOf[h] + 1
<1>1. /\ s \in Int /\ d \in Int /\ Groups \in Int /\ GroupSize \in Int
      /\ Capacity \in Nat \ {0} /\ s \in 0 .. Capacity - 1 /\ Capacity = Groups * GroupSize
  BY WholeGroups, TableAssumption DEF Cells
<1> HIDE DEF s, d
<1>2. Groups * d * GroupSize = (Groups * GroupSize) * d
  BY <1>1
<1>3. s + Groups * d * GroupSize = Capacity * d + s
  BY <1>1, <1>2
<1>4. (s + Groups * d * GroupSize) % Capacity = s
  BY <1>1, <1>3, Remainder
<1> QED BY <1>4, Windows DEF Window, s, d

\* At rest get_in_bulk stops where get does, or goes on from an empty slot of the
\* first group when the hash is nowhere, and comes to that slot again at last.
LEMMA BulkFinds == TableInv /\ ProbeInv => BulkAgreesWithGet
<1> SUFFICES ASSUME TableInv, ProbeInv, AtRest, NEW h \in Hashes
             PROVE  (BulkReturns(h) <=> GetReturns(h)) /\ BulkFoundCells(h) = FoundCells(h)
  BY DEF BulkAgreesWithGet, BulkReturns, GetReturns
<1> DEFINE matches(n) == MatchesIn(h, Window(h, n))
           ahead == {n \in 0 .. Groups : \A m \in 0 .. n - 1 : ~BulkStops(h, m)}
<1>1. Groups \in Nat \ {0} /\ h # NoHash
  BY WholeGroups, TableAssumption
<1>2. \A n \in 0 .. Groups : BulkStops(h, n) => Stops(h, n)
  BY DEF BulkStops, BulkMatches, Stops
<1>3. Stops(h, Groups) <=> Stops(h, 0)
  BY WindowRound DEF Stops
<1>4. BulkFoundCells(h) = UNION {{CellAt(Window(h, n), p) : p \in matches(n)} : n \in ahead}
  BY DEF BulkFoundCells, BulkMatches
<1>5. CASE GetReturns(h)
  <2>1. PICK n \in 0 .. Groups - 1 : Stops(h, n) /\ \A m \in 0 .. n - 1 : ~Stops(h, m)
    <3> DEFINE T == {n \in 0 .. Groups - 1 : Stops(h, n)}
    <3>1. T \subseteq Nat /\ T # {}
      BY <1>5 DEF GetReturns
    <3>2. PICK n \in T : \A m \in T : n <= m
      <4> HIDE DEF T
      <4> QED BY <3>1, LeastElement
    <3>3. \A m \in 0 .. n - 1 : m \in 0 .. Groups - 1 /\ ~(n <= m)
      BY <1>1, <3>2
    <3> QED BY <3>2, <3>3
  <2>2. LastWindow(h) = n
    <3>1. ASSUME NEW m \in 0 .. Groups - 1, Stops(h, m), \A k \in 0 .. m - 1 : ~Stops(h, k)
          PROVE  m = n
      <4>1. m \in Int /\ n \in Int /\ m >= 0 /\ n >= 0
        BY <1>1
      <4>2. ~(m < n) /\ ~(n < m)
        BY <2>1, <3>1, <4>1
      <4> QED BY <4>1, <4>2
    <3> QED BY <2>1, <3>1 DEF LastWindow
  <2>3. FoundCells(h) = {CellAt(Window(h, n), p) : p \in matches(n)}
    BY <1>5, <2>2 DEF FoundCells
  <2>4. CASE matches(n) # {}
    <3>1. BulkStops(h, n) /\ \A m \in 0 .. n - 1 : matches(m) = {} /\ ~BulkStops(h, m)
      <4>1. \A m \in 0 .. n - 1 : m \in 0 .. Groups
        BY <1>1
      <4> QED BY <1>2, <2>1, <2>4, <4>1 DEF BulkStops, BulkMatches, Stops
    <3>2. BulkReturns(h)
      BY <1>1, <3>1 DEF BulkReturns
    <3>3. ahead = 0 .. n
      <4>1. \A k \in 0 .. Groups : k \notin 0 .. n => n \in 0 .. k - 1
        BY <1>1
      <4>2. \A k \in 0 .. n : k \in 0 .. Groups /\ 0 .. k - 1 \subseteq 0 .. n - 1
        BY <1>1
      <4> QED BY <3>1, <4>1, <4>2
    <3>4. n \in 0 .. n /\ \A k \in 0 .. n : k = n \/ k \in 0 .. n - 1
      BY <1>1
    <3>5. BulkFoundCells(h) = {CellAt(Window(h, n), p) : p \in matches(n)}
      <4> HIDE DEF matches, ahead
      <4> QED BY <1>4, <3>1, <3>3, <3>4
    <3> QED BY <1>5, <2>3, <3>2, <3>5
  <2>5. CASE matches(n) = {}
    <3>1. FoundCells(h) = {}
      BY <2>3, <2>5
    <3>2. \A c \in Cells : hashes[c] # h
      BY <1>1, <3>1, GetFinds DEF EveryHashReadable, TakenCells
    <3>3. \A m \in 0 .. Groups : matches(m) = {}
      <4>1. \A m \in 0 .. Groups : Window(h, m) \in Cells
        BY <1>1, Windows
      <4>2. \A m \in 0 .. Groups, p \in Positions : CellAt(Window(h, m), p) \in Cells
        BY <4>1, Places
      <4> QED BY <3>2, <4>2 DEF MatchesIn
    <3>4. BulkFoundCells(h) = {}
      <4>1. \A m \in ahead : matches(m) = {}
        BY <3>3
      <4> HIDE DEF matches, ahead
      <4> QED BY <1>4, <4>1
    <3>5. HasEmpty(Window(h, n))
      BY <2>1, <2>5 DEF Stops
    <3>6. BulkReturns(h)
      <4>1. CASE n > 0
        BY <1>1, <3>5, <4>1 DEF BulkReturns, BulkStops
      <4>2. CASE n = 0
        <5>1. BulkStops(h, Groups) /\ Groups \in 0 .. Groups
          BY <1>1, <3>5, <4>2, WindowRound DEF BulkStops
        <5> QED BY <5>1 DEF BulkReturns
      <4> QED BY <4>1, <4>2
    <3> QED BY <1>5, <3>1, <3>4, <3>6
  <2> QED BY <2>4, <2>5
<1>6. CASE ~GetReturns(h)
  <2>1. \A n \in 0 .. Groups : ~Stops(h, n)
    <3>1. \A n \in 0 .. Groups : n \in 0 .. Groups - 1 \/ n = Groups
      BY <1>1
    <3>2. 0 \in 0 .. Groups - 1
      BY <1>1
    <3> QED BY <1>3, <1>6, <3>1, <3>2 DEF GetReturns
  <2>2. ~BulkReturns(h)
    BY <1>2, <2>1 DEF BulkReturns
  <2>3. \A n \in ahead : matches(n) = {}
    BY <2>1 DEF Stops
  <2>4. BulkFoundCells(h) = {}
    <3> HIDE DEF matches, ahead
    <3> QED BY <1>4, <2>3
  <2> QED BY <1>6, <2>2, <2>4 DEF FoundCells
<1> QED BY <1>5, <1>6

\* get_in_bulk returns whenever get does and finds the cells that get finds, for any
\* number and size of groups, where hashes are not read late.
THEOREM BulkFindsWhatGetFinds ==
  ASSUME ~StaleHashLoads
  PROVE  Spec => []BulkAgreesWithGet
<1>1. TableInv /\ ProbeInv => BulkAgreesWithGet
  BY BulkFinds
<1> QED BY <1>1, TableInvariant, ProbeInvariant, PTL

\* At rest the tags of taken cells are stored, and no others.
LEMMA IterationYields == TableInv /\ Shown => IteratesWholeTables
<1> SUFFICES ASSUME TableInv, Shown, AtRest, Full \/ Capacity = GroupSize
             PROVE  Iterated = TakenCells
  BY DEF IteratesWholeTables
<1>1. \A c \in Cells : c \in TakenCells <=> tags[c] # EmptyTag
  <2>1. \A c \in Cells : hashes[c] # NoHash => tags[c] # EmptyTag
    BY DEF AtRest, Shown
  <2>2. \A c \in Cells : tags[c] # EmptyTag => hashes[c] # NoHash
    BY CellIndex, TableAssumption DEF TableInv, TagsShowWrittenCells, CellOf
  <2> QED BY <2>1, <2>2 DEF TakenCells
<1>2. ASSUME NEW c \in Cells
      PROVE  c % GroupSize \in Cells /\ (Capacity = GroupSize => c % GroupSize = c)
  <2>1. c \in Int /\ GroupSize \in Nat \ {0} /\ c \in 0 .. Capacity - 1
    BY TableAssumption DEF Cells
  <2>2. c % GroupSize \in 0 .. GroupSize - 1
    BY <2>1, Modulo
  <2>3. c % GroupSize \in Cells
    BY <2>1, <2>2, CapacityAtLeastGroup, TableAssumption DEF Cells
  <2>4. Capacity = GroupSize => c % GroupSize = c
    BY <2>1, Modulo
  <2> QED BY <2>3, <2>4
<1>3. CASE Full
  BY <1>1, <1>2, <1>3 DEF Full, Iterated
<1>4. CASE Capacity = GroupSize
  BY <1>1, <1>2, <1>4 DEF Iterated, TakenCells
<1> QED BY <1>3, <1>4

\* entries of a table that is full or of one group yields exactly its pairs, once all
\* inserts have returned, whatever raced for its cells and however late hashes are read.
THEOREM EntriesYieldWholeTables == Spec => []IteratesWholeTables
<1>1. Init => Shown
  BY DEF Init, Shown
<1>2. TableInv /\ Shown /\ [Next]_fixedVars => Shown'
  <2>1. ASSUME Shown, UNCHANGED fixedVars PROVE Shown'
    BY <2>1 DEF fixedVars, Shown
  <2> QED BY <2>1, ShownStays DEF Next, Stopped
<1>3. TableInv /\ Shown => IteratesWholeTables
  BY IterationYields
<1> QED BY <1>1, <1>2, <1>3, TableInvariant, PTL DEF Spec
------------------------------------------------------------------------------
------------------------------------------------------------------------------
(* Probing reaches every cell *)

\* A distance in the table is a number of groups and a position.
LEMMA Split ==
  ASSUME NEW x \in Cells
  PROVE  \E g \in 0 .. Groups - 1, p \in Positions : x = GroupSize * g + p
<1>1. x \in Int /\ x >= 0 /\ x < Groups * GroupSize /\ GroupSize \in Nat \ {0} /\ Groups \in Nat \ {0}
  BY WholeGroups, TableAssumption DEF Cells
<1> DEFINE g == x \div GroupSize
           p == x % GroupSize
<1>2. g \in Int /\ p \in 0 .. GroupSize - 1 /\ x = GroupSize * g + p
  BY <1>1, Quotient
<1> HIDE DEF g, p
<1>3. g >= 0
  <2>1. CASE g <= -1
    <3>1. GroupSize * g <= -GroupSize
      BY <1>1, <1>2, <2>1
    <3> QED BY <1>1, <1>2, <3>1
  <2> QED BY <1>2, <2>1
<1>4. g <= Groups - 1
  <2>1. CASE g >= Groups
    <3>1. GroupSize * g >= Groups * GroupSize
      BY <1>1, <1>2, <2>1
    <3> QED BY <1>1, <1>2, <3>1
  <2> QED BY <1>1, <1>2, <2>1
<1>5. g \in 0 .. Groups - 1 /\ p \in Positions
  BY <1>1, <1>2, <1>3, <1>4 DEF Positions
<1> QED BY <1>2, <1>5

\* As many groups as the table has show every cell, from wherever a hash starts.
LEMMA SearchesReachAll ==
  ASSUME NEW h \in Hashes, NEW c \in Cells
  PROVE  \E n \in 0 .. Groups - 1, p \in Positions : c = CellAt(Window(h, n), p)
<1> DEFINE s == StartOf[h]
           d == 2 * TagOf[h] + 1
           x == (c - s) % Capacity
<1>1. /\ s \in Int /\ c \in Int /\ d \in Nat /\ c \in 0 .. Capacity - 1
      /\ Capacity \in Nat \ {0} /\ GroupSize \in Nat \ {0} /\ Groups \in Nat \ {0}
      /\ Capacity = Groups * GroupSize
  BY WholeGroups, TableAssumption DEF Cells
<1>2. x \in Cells /\ (c - s) \div Capacity \in Int /\ c - s = Capacity * ((c - s) \div Capacity) + x
  <2>1. c - s \in Int
    BY <1>1
  <2> QED BY <1>1, <2>1, Quotient DEF Cells
<1>3. PICK g \in 0 .. Groups - 1, p \in Positions : x = GroupSize * g + p
  BY <1>2, Split
<1>4. PICK n \in 0 .. Groups - 1 : (n * d) % Groups = g
  <2>1. PICK k \in Nat : Groups = 2 ^ k
    BY WholeGroups, PowerAssumption
  <2>2. TagOf[h] \in Nat
    BY TableAssumption
  <2> QED BY <1>3, <2>1, <2>2, OddStride
<1> DEFINE j == (n * d) \div Groups
           k == (c - s) \div Capacity
<1>5. j \in Int /\ n * d = Groups * j + g
  <2>1. n * d \in Int
    BY <1>1
  <2> QED BY <1>1, <1>4, <2>1, Quotient
<1> HIDE DEF d, x, j, k
<1>6. k \in Int /\ c - s = Capacity * k + x
  BY <1>2 DEF k
<1>7. n * d * GroupSize = Capacity * j + GroupSize * g
  <2>1. n * d * GroupSize = (Groups * j + g) * GroupSize
    BY <1>5
  <2>2. (Groups * j + g) * GroupSize = (Groups * GroupSize) * j + GroupSize * g
    BY <1>1, <1>3, <1>5
  <2> QED BY <1>1, <2>1, <2>2
<1>8. p \in Int /\ g \in Int /\ n * d * GroupSize \in Int
  BY <1>1, <1>3, <1>5, <1>7 DEF Positions
<1>9. (s + n * d * GroupSize) + p = Capacity * (j - k) + c
  <2>1. Capacity * (j - k) = Capacity * j - Capacity * k
    BY <1>1, <1>5, <1>6
  <2>2. Capacity * j \in Int /\ Capacity * k \in Int /\ GroupSize * g \in Int
    BY <1>1, <1>5, <1>6, <1>8
  <2> DEFINE w == n * d * GroupSize
             u == Capacity * j
             v == Capacity * k
             y == GroupSize * g
  <2>3. w \in Int /\ u \in Int /\ v \in Int /\ y \in Int /\ s \in Int /\ c \in Int /\ p \in Int
    BY <1>1, <1>8, <2>2
  <2>4. w = u + y /\ c - s = v + x /\ x = y + p /\ Capacity * (j - k) = u - v
    BY <1>3, <1>6, <1>7, <2>1
  <2> HIDE DEF w, u, v, y
  <2>5. (s + w) + p = (u - v) + c
    BY <2>3, <2>4
  <2> QED BY <2>4, <2>5 DEF w
<1>10. ((s + n * d * GroupSize) + p) % Capacity = c
  <2>1. j - k \in Int
    BY <1>5, <1>6
  <2>2. (Capacity * (j - k) + c) % Capacity = c
    BY <1>1, <2>1, Remainder
  <2> QED BY <1>9, <2>2
<1>11. (((s + n * d * GroupSize) % Capacity) + p) % Capacity = c
  <2>1. s + n * d * GroupSize \in Int
    BY <1>1, <1>8
  <2> QED BY <1>1, <1>8, <1>10, <2>1, ModuloSum
<1>12. c = CellAt(Window(h, n), p)
  BY <1>11 DEF CellAt, Window, d
<1> QED BY <1>3, <1>12

\* At rest get comes to an empty cell if there is one: it returns unless the table is
\* full.
LEMMA GetStops == TableInv => GetReturnsUnlessFull
<1> SUFFICES ASSUME TableInv, ~Full, NEW h \in Hashes PROVE GetReturns(h)
  BY DEF GetReturnsUnlessFull
<1>1. PICK c \in Cells : hashes[c] = NoHash
  BY DEF Full, TakenCells
<1>2. PICK n \in 0 .. Groups - 1, p \in Positions : c = CellAt(Window(h, n), p)
  BY SearchesReachAll
<1>3. Window(h, n) \in Cells
  BY Windows, WholeGroups
<1>4. Window(h, n) + p \in TagIndices /\ CellOf(Window(h, n) + p) = c
  BY <1>2, <1>3, ShownAt
<1>5. tags[Window(h, n) + p] = EmptyTag
  BY <1>1, <1>4, TableAssumption DEF TableInv, TagsShowWrittenCells, CellOf
<1> QED BY <1>5 DEF GetReturns, Stops, HasEmpty

\* get returns, for any hash, in any table that is not full: no chain of groups goes
\* round without coming to the empty cell.
THEOREM GetReturnsUnlessTableFull == Spec => []GetReturnsUnlessFull
<1>1. TableInv => GetReturnsUnlessFull
  BY GetStops
<1> QED BY <1>1, TableInvariant, PTL

------------------------------------------------------------------------------
(* What the abstract table sees *)

\* A cell that nobody claimed has the default value.
FreeCellsAreDefault == \A c \in Cells : hashes[c] = NoHash => values[c] = Default

\* A row is to be inserted until its insert returns.
RowsAreDue == \A t \in Threads : pc[t] \notin {"idle", "panicked"} => row[t] \in todo[t]

\* The value of a hash is that of its cell.
LEMMA HeldValue ==
  ASSUME TypeOK, NoDuplicateHash, NEW c \in TakenCells
  PROVE  hashes[c] \in HeldHashes /\ Held[hashes[c]] = values[c]
<1>1. c \in Cells /\ hashes[c] # NoHash
  BY DEF TakenCells
<1>2. \A d \in Cells : hashes[d] = hashes[c] => d = c
  BY <1>1 DEF NoDuplicateHash, TakenCells
<1>3. (CHOOSE d \in Cells : hashes[d] = hashes[c]) = c
  BY <1>1, <1>2
<1> QED BY <1>3 DEF Held, HeldHashes

\* As many hashes are held as cells are taken.
LEMMA HeldCount ==
  ASSUME TypeOK, NoDuplicateHash
  PROVE  /\ Cardinality(HeldHashes) \in Nat
         /\ Cardinality(HeldHashes) = Capacity <=> TakenCells = Cells
         /\ Cardinality(HeldHashes) <= Capacity
<1>1. IsFiniteSet(Cells) /\ Cardinality(Cells) = Capacity
  <2>1. 0 \in Int /\ Capacity - 1 \in Int /\ Capacity \in Nat \ {0}
    BY TableAssumption
  <2>2. IsFiniteSet(0 .. Capacity - 1)
        /\ Cardinality(0 .. Capacity - 1) = IF 0 > Capacity - 1 THEN 0 ELSE Capacity - 1 - 0 + 1
    BY <2>1, FS_Interval
  <2> QED BY <2>1, <2>2 DEF Cells
<1>2. TakenCells \subseteq Cells
  BY DEF TakenCells
<1>3. /\ IsFiniteSet(TakenCells) /\ Cardinality(TakenCells) <= Capacity
      /\ Cardinality(TakenCells) = Capacity <=> TakenCells = Cells
  BY <1>1, <1>2, FS_Subset
<1> DEFINE f == [c \in TakenCells |-> hashes[c]]
<1>4. f \in Bijection(TakenCells, HeldHashes)
  <2>1. f \in [TakenCells -> HeldHashes]
    BY DEF HeldHashes
  <2>2. \A c, d \in TakenCells : f[c] = f[d] => c = d
    BY DEF NoDuplicateHash
  <2>3. \A h \in HeldHashes : \E c \in TakenCells : f[c] = h
    BY DEF HeldHashes
  <2> QED BY <2>1, <2>2, <2>3 DEF Bijection, Injection, IsInjective, Surjection
<1>5. ExistsBijection(TakenCells, HeldHashes)
  BY <1>4 DEF ExistsBijection
<1>6. IsFiniteSet(HeldHashes) /\ Cardinality(HeldHashes) = Cardinality(TakenCells)
  BY <1>3, <1>5, FS_Bijection
<1> QED BY <1>3, <1>6, FS_CardinalityType
\* Values are written to claimed cells only.
LEMMA DefaultsStay ==
  ASSUME TableInv, FreeCellsAreDefault, NEW t \in Threads, InsertStep(t)
  PROVE  FreeCellsAreDefault'
<1>1. TypeOK
  BY DEF TableInv
<1>2. \A c \in Cells : hashes'[c] = NoHash => hashes[c] = NoHash
  BY HashesStay
<1>3. CASE SwapMatch(t) \/ SwapOwn(t)
  <2>1. hashes[cell[t]] # NoHash /\ values' = [values EXCEPT ![cell[t]] = row[t]]
    BY <1>3, InHand DEF SwapMatch, SwapOwn, Goto, TableInv, CellsMatch
  <2> QED BY <1>1, <1>2, <2>1 DEF FreeCellsAreDefault, TypeOK
<1>4. CASE UNCHANGED values
  BY <1>2, <1>4 DEF FreeCellsAreDefault
<1> QED
  BY <1>3, <1>4 DEF InsertStep, Start, Probe, ClaimCell, NextGroup, GiveUp, StoreTag,
                    StoreMirror, memory

\* A thread takes its own rows off the list only, each when its insert returns.
LEMMA DueStays ==
  ASSUME TableInv, RowsAreDue, NEW t \in Threads, InsertStep(t)
  PROVE  RowsAreDue'
<1>1. TypeOK
  BY DEF TableInv
<1>2. ASSUME NEW u \in Threads \ {t}, pc'[u] \notin {"idle", "panicked"} PROVE row'[u] \in todo'[u]
  <2>1. todo'[u] = todo[u]
    BY <1>1 DEF TypeOK, InsertStep, Start, Probe, SwapMatch, ClaimCell, NextGroup, GiveUp,
                SwapOwn, StoreTag, StoreMirror, Leave, outcome
  <2> QED BY <1>2, <2>1, OthersStay DEF RowsAreDue
<1>3. ASSUME pc'[t] \notin {"idle", "panicked"} PROVE row'[t] \in todo'[t]
  <2>1. CASE Start(t)
    BY <1>1, <2>1 DEF TypeOK, Start, outcome
  <2>2. CASE SwapMatch(t) \/ GiveUp(t) \/ StoreMirror(t)
    BY <1>1, <1>3, <2>2 DEF TypeOK, SwapMatch, GiveUp, StoreMirror, Goto
  <2>3. CASE Probe(t) \/ ClaimCell(t) \/ NextGroup(t) \/ SwapOwn(t) \/ StoreTag(t)
    <3>1. pc[t] \notin {"idle", "panicked"} /\ UNCHANGED <<row, todo>>
      BY <2>3 DEF Probe, ClaimCell, NextGroup, SwapOwn, StoreTag, Goto, outcome
    <3> QED BY <3>1 DEF RowsAreDue
  <2> QED BY <2>1, <2>2, <2>3 DEF InsertStep
<1> QED BY <1>2, <1>3 DEF RowsAreDue

\* Everything the steps are mapped by.
RefinementInv == TableInv /\ ProbeInv /\ FreeCellsAreDefault /\ RowsAreDue

\* It is invariant where hashes are not read late.
LEMMA RefinementInvariant ==
  ASSUME ~StaleHashLoads
  PROVE  Spec => []RefinementInv
<1>1. Init => FreeCellsAreDefault /\ RowsAreDue
  BY DEF Init, FreeCellsAreDefault, RowsAreDue
<1>2. TableInv /\ FreeCellsAreDefault /\ RowsAreDue /\ [Next]_fixedVars
        => (FreeCellsAreDefault /\ RowsAreDue)'
  <2>1. ASSUME FreeCellsAreDefault, RowsAreDue, UNCHANGED fixedVars
        PROVE  (FreeCellsAreDefault /\ RowsAreDue)'
    BY <2>1 DEF fixedVars, FreeCellsAreDefault, RowsAreDue
  <2> QED BY <2>1, DefaultsStay, DueStays DEF Next, Stopped
<1>3. TableInv /\ ProbeInv /\ FreeCellsAreDefault /\ RowsAreDue => RefinementInv
  BY DEF RefinementInv
<1> QED BY <1>1, <1>2, <1>3, TableInvariant, ProbeInvariant, PTL DEF Spec

------------------------------------------------------------------------------
(* Steps *)

\* Before and after a step a hash has one cell.
LEMMA InvariantNow == RefinementInv => TypeOK /\ NoDuplicateHash
BY OneCell DEF RefinementInv, TableInv

\* The same of the next state.
LEMMA InvariantThen == RefinementInv' => TypeOK' /\ NoDuplicateHash'
BY InvariantNow, PTL

\* What is held is a matter of the memory.
LEMMA HeldStays ==
  ASSUME UNCHANGED <<hashes, values>>
  PROVE  Held' = Held /\ HeldHashes' = HeldHashes
BY DEF Held, HeldHashes, TakenCells

\* The claim of a cell takes the hash in the abstract table, which did not hold it.
LEMMA ClaimTakes ==
  ASSUME RefinementInv, NoDuplicateHash, NoDuplicateHash', TypeOK',
         NEW c \in Cells, NEW h \in Hashes,
         hashes[c] = NoHash, hashes' = [hashes EXCEPT ![c] = h], UNCHANGED values
  PROVE  /\ h \notin HeldHashes
         /\ Cardinality(HeldHashes) < Capacity
         /\ HeldHashes' = HeldHashes \cup {h}
         /\ Held' = [x \in HeldHashes \cup {h} |-> IF x = h THEN Default ELSE Held[x]]
<1>1. TypeOK /\ h # NoHash
  BY TableAssumption DEF RefinementInv, TableInv
<1>2. TakenCells' = TakenCells \cup {c} /\ c \notin TakenCells
  BY <1>1 DEF TakenCells, TypeOK
<1>3. \A d \in TakenCells : hashes'[d] = hashes[d] /\ hashes[d] # h
  BY <1>1, <1>2 DEF TypeOK, TakenCells, NoDuplicateHash
<1>4. h \notin HeldHashes
  BY <1>3 DEF HeldHashes
<1>5. hashes'[c] = h /\ values'[c] = Default
  BY <1>1 DEF TypeOK, RefinementInv, FreeCellsAreDefault
<1>6. HeldHashes' = HeldHashes \cup {h}
  BY <1>2, <1>3, <1>5 DEF HeldHashes
<1>7. Cardinality(HeldHashes) < Capacity
  <2>1. TakenCells # Cells
    BY <1>2
  <2> QED BY <1>1, <2>1, HeldCount, TableAssumption
<1>8. \A d \in TakenCells' : Held'[hashes'[d]] = values'[d]
  <2>1. ASSUME NEW d \in TakenCells' PROVE (Held[hashes[d]])' = values'[d]
    <3>1. d \in Cells /\ hashes'[d] # NoHash
      BY <2>1 DEF TakenCells
    <3>2. \A e \in Cells : hashes'[e] = hashes'[d] => e = d
      BY <3>1 DEF NoDuplicateHash, TakenCells
    <3>3. (CHOOSE e \in Cells : hashes'[e] = hashes'[d]) = d
      BY <3>1, <3>2
    <3> QED BY <2>1, <3>3 DEF Held, HeldHashes
  <2> QED BY <2>1
<1>9. \A x \in HeldHashes \cup {h} : Held'[x] = IF x = h THEN Default ELSE Held[x]
  <2>1. Held'[h] = Default
    BY <1>2, <1>5, <1>8
  <2>2. ASSUME NEW x \in HeldHashes PROVE Held'[x] = Held[x]
    <3>1. PICK d \in TakenCells : x = hashes[d]
      BY DEF HeldHashes
    <3>2. Held[x] = values[d]
      BY <1>1, <3>1, HeldValue
    <3>3. Held'[x] = values'[d]
      BY <1>2, <1>3, <1>8, <3>1
    <3> QED BY <3>2, <3>3
  <2> QED BY <1>4, <2>1, <2>2
<1>10. DOMAIN Held' = HeldHashes' /\ Held' = [x \in DOMAIN Held' |-> Held'[x]]
  BY DEF Held
<1> QED BY <1>4, <1>6, <1>7, <1>9, <1>10

\* A swap in a cell is an exchange of the value of its hash.
LEMMA SwapExchanges ==
  ASSUME RefinementInv, NoDuplicateHash, NEW c \in Cells, NEW r,
         hashes[c] \in Hashes, values' = [values EXCEPT ![c] = r], UNCHANGED hashes
  PROVE  /\ hashes[c] \in HeldHashes /\ HeldHashes' = HeldHashes
         /\ Held[hashes[c]] = values[c]
         /\ Held' = [Held EXCEPT ![hashes[c]] = r]
<1>1. TypeOK
  BY DEF RefinementInv, TableInv
<1>2. c \in TakenCells
  BY TableAssumption DEF TakenCells
<1>3. HeldHashes' = HeldHashes /\ TakenCells' = TakenCells
  BY DEF HeldHashes, TakenCells
<1>4. hashes[c] \in HeldHashes /\ Held[hashes[c]] = values[c]
  BY <1>1, <1>2, HeldValue
<1>5. ASSUME NEW x \in HeldHashes PROVE Held'[x] = IF x = hashes[c] THEN r ELSE Held[x]
  <2>1. PICK d \in TakenCells : x = hashes[d]
    BY DEF HeldHashes
  <2>2. d \in Cells /\ \A e \in Cells : hashes[e] = x => e = d
    BY <2>1 DEF NoDuplicateHash, TakenCells
  <2>3. (CHOOSE e \in Cells : hashes[e] = x) = d /\ (CHOOSE e \in Cells : hashes'[e] = x) = d
    BY <2>1, <2>2
  <2>4. Held[x] = values[d] /\ Held'[x] = values'[d]
    BY <1>3, <2>3 DEF Held
  <2>5. x = hashes[c] <=> d = c
    BY <2>1, <2>2
  <2> QED BY <1>1, <2>2, <2>4, <2>5 DEF TypeOK
<1>6. DOMAIN Held = HeldHashes
  BY DEF Held
<1>7. DOMAIN Held' = HeldHashes' /\ Held' = [x \in DOMAIN Held' |-> Held'[x]]
  BY DEF Held
<1> QED BY <1>3, <1>4, <1>5, <1>6, <1>7

\* The abstract table counts its cells as this module does.
LEMMA SameCount == ASSUME NEW S PROVE Abstract!Cardinality(S) = Cardinality(S)
BY DEF Abstract!Cardinality, Cardinality

\* Every step of insert_atomically is a step of the abstract table or none.
LEMMA StepRefines ==
  ASSUME RefinementInv, RefinementInv', NEW t \in Threads, InsertStep(t)
  PROVE  [Abstract!AtomicNext]_<<Held, Due, Returned, refused>>
<1> DEFINE stays == UNCHANGED <<Held, Due, Returned, refused>>
<1>1. /\ TypeOK /\ TypeOK' /\ NoDuplicateHash /\ NoDuplicateHash' /\ TableInv /\ ProbeInv
      /\ RowsAreDue
  <2>1. TypeOK /\ NoDuplicateHash /\ TableInv /\ ProbeInv /\ RowsAreDue
    BY OneCell DEF RefinementInv, TableInv
  <2>2. TypeOK' /\ NoDuplicateHash'
    BY InvariantThen
  <2> QED BY <2>1, <2>2
<1>2. \A u \in Threads \ {t} :
        /\ pc'[u] = pc[u] /\ row'[u] = row[u]
        /\ todo'[u] = todo[u] /\ previous'[u] = previous[u]
  <2>1. \A u \in Threads \ {t} : pc'[u] = pc[u] /\ row'[u] = row[u]
    BY <1>1, OthersStay
  <2>2. \A u \in Threads \ {t} : todo'[u] = todo[u] /\ previous'[u] = previous[u]
    BY <1>1 DEF TypeOK, InsertStep, Start, Probe, SwapMatch, ClaimCell, NextGroup, GiveUp,
                SwapOwn, StoreTag, StoreMirror, Leave, outcome
  <2> QED BY <2>1, <2>2
<1>3. ASSUME Due'[t] = Due[t] PROVE Due' = Due
  BY <1>2, <1>3 DEF Due
<1>4. ASSUME UNCHANGED <<returned, previous>>,
             t \in Owners' <=> t \in Owners
      PROVE  Returned' = Returned
  <2>1. Owners' = Owners
    BY <1>2, <1>4 DEF Owners
  <2> QED BY <1>4, <2>1 DEF Returned
<1>5. CASE \/ Start(t) \/ Probe(t) \/ NextGroup(t) \/ StoreTag(t)
           \/ ClaimCell(t) /\ UNCHANGED hashes
  <2>1. UNCHANGED <<hashes, values, returned, refused, previous, todo>>
    BY <1>5 DEF Start, Probe, NextGroup, StoreTag, ClaimCell, memory, outcome
  <2>2. \/ pc[t] \in {"idle", "probe", "claim"} /\ pc'[t] \in {"probe", "claim", "swap", "own"}
        \/ pc[t] = "tag" /\ pc'[t] = "mirror" /\ row' = row
    BY <1>1, <1>5 DEF TypeOK, Start, Probe, NextGroup, StoreTag, ClaimCell, Goto
  <2>3. Due' = Due
    BY <1>3, <2>1, <2>2 DEF Due
  <2>4. Returned' = Returned
    BY <1>4, <2>1, <2>2 DEF Owners
  <2> QED BY <2>1, <2>3, <2>4, HeldStays
<1>6. CASE ClaimCell(t) /\ hashes' # hashes
  <2>1. PICK c \in Cells :
          /\ pc[t] = "claim" /\ pc' = [pc EXCEPT ![t] = "own"]
          /\ hashes[c] = NoHash /\ hashes' = [hashes EXCEPT ![c] = Hash(t)]
          /\ UNCHANGED <<values, row, previous, todo, returned, refused>>
    <3>1. \A p \in empties[t] : CellAt(index[t], p) \in Cells
      BY <1>1, Places DEF TypeOK
    <3> QED BY <1>6, <3>1 DEF ClaimCell, outcome
  <2>2. Hash(t) \in Hashes
    BY <1>1, <2>1, InHand
  <2>3. /\ Hash(t) \notin HeldHashes
        /\ Cardinality(HeldHashes) < Capacity
        /\ Held' = [x \in HeldHashes \cup {Hash(t)} |-> IF x = Hash(t) THEN Default ELSE Held[x]]
    BY <1>1, <2>1, <2>2, ClaimTakes
  <2>4. pc'[t] = "own"
    BY <1>1, <2>1 DEF TypeOK
  <2>5. Due' = Due /\ row[t] \in Due[t]
    BY <1>1, <1>3, <2>1, <2>4 DEF Due, RowsAreDue
  <2>6. Returned' = Returned
    BY <1>4, <2>1, <2>4 DEF Owners
  <2>7. DOMAIN Held = HeldHashes /\ Hash(t) = HashOf[row[t]]
    BY DEF Held, Hash
  <2>8. Abstract!Take(HashOf[row[t]])
    <3>1. /\ HashOf[row[t]] \notin DOMAIN Held
          /\ Cardinality(DOMAIN Held) < Capacity
          /\ Held' = [x \in DOMAIN Held \cup {HashOf[row[t]]} |->
                        IF x = HashOf[row[t]] THEN Default ELSE Held[x]]
      BY <2>3, <2>7
    <3> QED BY <2>1, <2>5, <2>6, <3>1, SameCount DEF Abstract!Take
  <2> QED BY <2>5, <2>8 DEF Abstract!AtomicNext
<1>7. CASE SwapMatch(t) \/ SwapOwn(t)
  <2>1. /\ cell[t] \in Cells /\ hashes[cell[t]] = Hash(t) /\ Hash(t) \in Hashes
        /\ values' = [values EXCEPT ![cell[t]] = row[t]] /\ hashes' = hashes /\ refused' = refused
        /\ pc[t] \in {"swap", "own"}
    BY <1>1, <1>7, InHand DEF TypeOK, TableInv, CellsMatch, SwapMatch, SwapOwn, Goto, outcome
  <2>2. /\ Hash(t) \in HeldHashes /\ Held[Hash(t)] = values[cell[t]]
        /\ Held' = [Held EXCEPT ![Hash(t)] = row[t]]
    <3> DEFINE c == cell[t]
    <3>1. c \in Cells /\ hashes[c] \in Hashes /\ values' = [values EXCEPT ![c] = row[t]]
          /\ UNCHANGED hashes
      BY <2>1
    <3> HIDE DEF c
    <3>2. /\ hashes[c] \in HeldHashes /\ Held[hashes[c]] = values[c]
          /\ Held' = [Held EXCEPT ![hashes[c]] = row[t]]
      BY <1>1, <3>1, SwapExchanges
    <3> QED BY <2>1, <3>2 DEF c
  <2>3. row[t] \in Due[t]
    BY <1>1, <2>1 DEF RowsAreDue, Due
  <2>4. Due' = [Due EXCEPT ![t] = @ \ {row[t]}]
    <3>1. Due'[t] = Due[t] \ {row[t]}
      BY <1>1, <1>7 DEF TypeOK, Due, SwapMatch, SwapOwn, Goto, Leave, outcome
    <3> QED BY <1>2, <3>1 DEF Due
  <2>5. Returned' = Returned \cup ({Held[Hash(t)]} \ {Default})
    <3>1. CASE SwapMatch(t)
      <4>1. Owners' = Owners /\ previous' = previous
        BY <1>1, <1>2, <3>1 DEF Owners, TypeOK, SwapMatch, Goto
      <4>2. returned' = returned \cup ({values[cell[t]]} \ {Default})
        BY <3>1 DEF SwapMatch
      <4> QED BY <2>2, <4>1, <4>2 DEF Returned
    <3>2. CASE SwapOwn(t)
      <4>1. Owners' = Owners \cup {t} /\ t \notin Owners /\ previous'[t] = values[cell[t]]
            /\ returned' = returned
        BY <1>1, <1>2, <3>2 DEF Owners, TypeOK, SwapOwn, Goto, outcome
      <4>2. {previous'[u] : u \in Owners'} = {previous[u] : u \in Owners} \cup {values[cell[t]]}
        <5>1. \A u \in Owners : previous'[u] = previous[u]
          BY <1>2, <4>1 DEF Owners
        <5> QED BY <4>1, <5>1
      <4> QED BY <2>2, <4>1, <4>2 DEF Returned
    <3> QED BY <1>7, <3>1, <3>2
  <2>6. DOMAIN Held = HeldHashes
    BY DEF Held
  <2>7. Abstract!Exchange(t, row[t])
    BY <2>1, <2>2, <2>3, <2>4, <2>5, <2>6
       DEF Abstract!Exchange, Hash
  <2> QED BY <2>3, <2>7 DEF Abstract!AtomicNext
<1>8. CASE StoreMirror(t)
  <2>1. /\ UNCHANGED <<hashes, values, previous, returned, refused>>
        /\ pc[t] = "mirror" /\ pc'[t] \in {"idle", "panicked"}
        /\ pc'[t] = "idle" => previous[t] = Default
        /\ todo'[t] = todo[t] \ {row[t]}
    BY <1>1, <1>8 DEF TypeOK, StoreMirror, Leave
  <2>2. Due' = Due
    <3>1. Due'[t] = todo'[t]
      BY <2>1 DEF Due
    <3>2. Due[t] = todo[t] \ {row[t]}
      BY <2>1 DEF Due
    <3> QED BY <1>3, <2>1, <3>1, <3>2
  <2>3. Returned' = Returned
    <3>1. CASE pc'[t] = "panicked"
      <4>1. Owners' = Owners
        BY <1>2, <2>1, <3>1 DEF Owners
      <4> QED BY <2>1, <4>1 DEF Returned
    <3>2. CASE pc'[t] = "idle"
      <4>1. Owners = Owners' \cup {t} /\ previous[t] = Default
        BY <1>2, <2>1, <3>2 DEF Owners
      <4> QED BY <2>1, <4>1 DEF Returned
    <3> QED BY <2>1, <3>1, <3>2
  <2> QED BY <2>1, <2>2, <2>3, HeldStays
<1>9. CASE GiveUp(t)
  <2>1. /\ pc[t] = "claim" /\ pc' = [pc EXCEPT ![t] = "idle"] /\ empties[t] = {}
        /\ attempts[t] + 1 >= Groups /\ refused' = refused \cup {row[t]}
        /\ todo' = [todo EXCEPT ![t] = @ \ {row[t]}]
        /\ UNCHANGED <<hashes, values, previous, returned>>
    BY <1>9 DEF GiveUp, Goto, Leave, memory
  <2>2. Hash(t) \in Hashes /\ attempts[t] \in Nat /\ attempts[t] + 1 = Groups
    <3>1. attempts[t] \in 0 .. Groups - 1 /\ Groups \in Nat \ {0}
      BY <1>1, WholeGroups DEF TypeOK
    <3>2. attempts[t] \in Nat /\ attempts[t] + 1 = Groups
      BY <2>1, <3>1
    <3> QED BY <1>1, <2>1, <3>2, InHand
  <2>3. PastGroups(Hash(t), attempts[t] + 1)
    <3>1. index[t] = Window(Hash(t), attempts[t]) /\ PastGroups(Hash(t), attempts[t])
      BY <1>1, <2>1 DEF ProbeInv, Searching
    <3>2. \A p \in Positions : Elsewhere(Hash(t), CellAt(Window(Hash(t), attempts[t]), p))
      BY <1>1, <2>1, <3>1 DEF ProbeInv, Trying
    <3> QED BY <2>2, <3>1, <3>2, OneMoreGroup
  <2>4. \A c \in Cells : Elsewhere(Hash(t), c)
    BY <2>2, <2>3, SearchesReachAll DEF PastGroups
  <2>5. Hash(t) \notin HeldHashes /\ TakenCells = Cells
    BY <2>4 DEF HeldHashes, TakenCells, Elsewhere
  <2>6. Cardinality(HeldHashes) = Capacity
    BY <1>1, <2>5, HeldCount
  <2>7. pc'[t] = "idle" /\ todo'[t] = todo[t] \ {row[t]}
    BY <1>1, <2>1 DEF TypeOK
  <2>8. row[t] \in Due[t]
    BY <1>1, <2>1 DEF RowsAreDue, Due
  <2>9. Due' = [Due EXCEPT ![t] = @ \ {row[t]}]
    <3>1. Due'[t] = Due[t] \ {row[t]}
      BY <2>1, <2>7 DEF Due
    <3> QED BY <1>2, <3>1 DEF Due
  <2>10. Returned' = Returned
    BY <1>4, <2>1, <2>7 DEF Owners
  <2>11. DOMAIN Held = HeldHashes /\ Held' = Held
    BY <2>1, HeldStays DEF Held
  <2>12. Abstract!Refuse(t, row[t])
    <3>1. HashOf[row[t]] \notin DOMAIN Held /\ Cardinality(DOMAIN Held) = Capacity
      BY <2>5, <2>6, <2>11 DEF Hash
    <3> QED BY <2>1, <2>8, <2>9, <2>10, <2>11, <3>1, SameCount DEF Abstract!Refuse
  <2> QED BY <2>8, <2>12 DEF Abstract!AtomicNext
<1> QED BY <1>5, <1>6, <1>7, <1>8, <1>9 DEF InsertStep

------------------------------------------------------------------------------
(* The refinement *)

\* The empty table with every row due is the initial state of the abstract table.
LEMMA InitRefines == Init => Abstract!AtomicInit
<1> SUFFICES ASSUME Init PROVE Abstract!AtomicInit
  OBVIOUS
<1>1. HeldHashes = {}
  BY DEF Init, HeldHashes, TakenCells
<1>2. Held = [h \in {} |-> Default]
  BY <1>1 DEF Held
<1>3. Due = Work
  <2>1. \A u \in Threads : Due[u] = Work[u]
    BY DEF Init, Due
  <2> QED BY <2>1, TableAssumption DEF Due
<1>4. Returned = {}
  BY DEF Init, Returned, Owners
<1> QED BY <1>2, <1>3, <1>4 DEF Init, Abstract!AtomicInit

\* Every step, also a stop of the whole table, is a step of the abstract table or none.
LEMMA NextRefines ==
  ASSUME RefinementInv, RefinementInv', [Next]_fixedVars
  PROVE  [Abstract!AtomicNext]_<<Held, Due, Returned, refused>>
<1>1. CASE UNCHANGED fixedVars
  BY <1>1, HeldStays DEF fixedVars, Due, Returned, Owners
<1> QED BY <1>1, StepRefines DEF Next, Stopped

\* insert_atomically is atomic, for any table, any threads and any rows, where no load of a
\* hash of claim comes late: each insert takes a cell for its hash and exchanges its value
\* at one instant each, hands the value it replaced to its caller, and only a table
\* whose cells are all taken by other hashes refuses.
THEOREM InsertIsAtomic ==
  ASSUME ~StaleHashLoads
  PROVE  Spec => ImplementsAtomicTable
<1>1. Spec => []RefinementInv
  BY RefinementInvariant
<1>2. RefinementInv /\ RefinementInv' /\ [Next]_fixedVars
        => [Abstract!AtomicNext]_<<Held, Due, Returned, refused>>
  BY NextRefines
<1> QED
  BY <1>1, <1>2, InitRefines, PTL
     DEF Spec, ImplementsAtomicTable, Abstract!AtomicSpec, Abstract!tableVars
===============================================================================
