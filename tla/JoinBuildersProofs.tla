-------------------------- MODULE JoinBuildersProofs --------------------------
(***************************************************************************)
(* Proofs about JoinBuilders: for any number of threads and any batches    *)
(* the builders that share a map implement JoinIndex, and the partitioned  *)
(* one does so as long as hashes are not crowded.                          *)
(***************************************************************************)
EXTENDS JoinBuilders, ConcurrentIndexProofs

\* The indices of a thread's batch, those of them not inserted yet, and those
\* of the rows inserted by all.
Region(t) == batch[t].offset + 1..batch[t].offset + Len(batch[t].hashes)
Pending(t) == batch[t].offset + batch[t].next..batch[t].offset + Len(batch[t].hashes)
Inserted == {i \in 1..Len(rows) : \A t \in Threads : i \notin Pending(t)}
InsertedOf(hash) == {i \in Inserted : rows[i] = hash}

\* The place where row i finds the next of its chain: the buffer of a batch that
\* has not ended, or the overflow buffer.
LinksTo(i, j) ==
  \/ /\ design = "sharded"
     /\ \E t \in Threads : i \in Region(t) /\ j = batch[t].buffer[i - batch[t].offset]
  \/ /\ design = "mutex" \/ \A t \in Threads : i \notin Region(t)
     /\ j = overflow[i]

\* c[0], c[1], ... up to the first 0, c[n], is the chain of the rows of a hash.
IsChain(n, c, hash) ==
  /\ c[0] = Exchanged(hash) /\ c[n] = 0
  /\ \A k \in 0..n - 1 : c[k] \in InsertedOf(hash) /\ LinksTo(c[k], c[k + 1])
  /\ \A i \in InsertedOf(hash) : \E k \in 0..n - 1 : c[k] = i
  /\ \A j, k \in 0..n - 1 : c[j] = c[k] => j = k

\* A batch that is being inserted, given the rows.
BatchOK(b, r) ==
  /\ b.offset \in Nat /\ b.next \in Nat /\ b.hashes \in Seq(Hashes)
  /\ 1 <= b.next /\ b.next <= Len(b.hashes) + 1
  /\ DOMAIN b.buffer = 1..Len(b.hashes)
  /\ b.offset + Len(b.hashes) <= Len(r)
  /\ \A k \in 1..Len(b.hashes) : r[b.offset + k] = b.hashes[k]

LockedTypeOK ==
  /\ design \in {"mutex", "sharded"}
  /\ pc \in [Threads -> {"take", "insert", "receive", "done"}]
  /\ waiting \in [Threads -> Seq(Seq(Hashes))]
  /\ rows \in Seq(Hashes)
  /\ DOMAIN overflow = 0..Len(rows) /\ overflow[0] = 0
  /\ DOMAIN batch = Threads

\* A batch is in hand only while it is inserted, and who has left has no more.
LockedPhases ==
  /\ \A t \in Threads : pc[t] # "insert" => batch[t] = NoBatch
  /\ \A t \in Threads : pc[t] \in {"receive", "done"} => waiting[t] = <<>>

\* Batches get indices of their own; the mutex builder relies on zeros in the
\* overflow buffer.
LockedBatches ==
  /\ \A t \in Threads : BatchOK(batch[t], rows)
  /\ \A t, u \in Threads : t # u => Region(t) \cap Region(u) = {}
  /\ design = "mutex" => \A t \in Threads : \A i \in Pending(t) : overflow[i] = 0

\* Every row that has been inserted is on the chain of its hash, once.
Chained == \A hash \in Hashes : \E n \in Nat : \E c : IsChain(n, c, hash)

LockedInv == LockedTypeOK /\ LockedPhases /\ LockedBatches /\ Chained
-----------------------------------------------------------------------------
\* Without a batch in hand nothing is pending.
LEMMA NoBatchNothingPending ==
  ASSUME NEW t \in Threads, batch[t] = NoBatch
  PROVE  Region(t) = {} /\ Pending(t) = {}
<1>1. batch[t].offset = 0 /\ batch[t].next = 1 /\ Len(batch[t].hashes) = 0
  BY DEF NoBatch
<1> QED BY <1>1 DEF Region, Pending

\* What is pending is a part of the batch.
LEMMA PendingInRegion ==
  ASSUME LockedBatches, NEW t \in Threads
  PROVE  Pending(t) \subseteq Region(t) /\ Region(t) \subseteq 1..Len(rows)
<1>1. BatchOK(batch[t], rows)
  BY DEF LockedBatches
<1>2. Len(batch[t].hashes) \in Nat /\ Len(rows) \in Int
  BY <1>1 DEF BatchOK
<1> QED BY <1>1, <1>2 DEF BatchOK, Pending, Region

\* Rows that are added to the others do not touch a batch.
LEMMA BatchStays ==
  ASSUME NEW b, NEW r, NEW s, BatchOK(b, r), Len(r) \in Nat, Len(s) \in Nat, Len(r) <= Len(s),
         \A i \in 1..Len(r) : s[i] = r[i]
  PROVE  BatchOK(b, s)
<1>1. b.offset \in Nat /\ Len(b.hashes) \in Nat /\ b.offset + Len(b.hashes) <= Len(r)
  BY DEF BatchOK
<1>2. ASSUME NEW k \in 1..Len(b.hashes) PROVE s[b.offset + k] = b.hashes[k]
  <2>1. b.offset + k \in 1..Len(r)
    BY <1>1
  <2> QED BY <2>1 DEF BatchOK
<1>3. b.offset + Len(b.hashes) <= Len(s)
  BY <1>1
<1> QED BY <1>2, <1>3 DEF BatchOK

\* No builder has inserted anything initially.
LEMMA LockedInvInit == Init /\ design # "partitioned" => LockedInv
<1> SUFFICES ASSUME Init, design # "partitioned" PROVE LockedInv
  OBVIOUS
<1>1. LockedInit
  BY DEF Init
<1>2. LockedTypeOK
  BY <1>1, BuilderAssumption DEF LockedInit, BuilderInit, LockedTypeOK, ZeroBuffer
<1>3. \A t \in Threads : batch[t] = NoBatch
  BY <1>1 DEF LockedInit
<1>4. LockedPhases
  BY <1>1, <1>3 DEF LockedInit, BuilderInit, LockedPhases
<1>5. \A t \in Threads : Region(t) = {} /\ Pending(t) = {}
  BY <1>3, NoBatchNothingPending
<1>6. \A t \in Threads : BatchOK(batch[t], rows)
  <2>1. Len(rows) = 0
    BY <1>1 DEF LockedInit, BuilderInit
  <2>2. NoBatch.hashes \in Seq(Hashes) /\ Len(NoBatch.hashes) = 0 /\ DOMAIN NoBatch.buffer = {}
    BY DEF NoBatch
  <2>3. NoBatch.offset = 0 /\ NoBatch.next = 1
    BY DEF NoBatch
  <2>4. BatchOK(NoBatch, rows)
    BY <2>1, <2>2, <2>3 DEF BatchOK
  <2> QED BY <1>3, <2>4
<1>7. LockedBatches
  BY <1>5, <1>6 DEF LockedBatches
<1>8. Chained
  <2> SUFFICES ASSUME NEW hash \in Hashes PROVE \E n \in Nat : \E c : IsChain(n, c, hash)
    BY DEF Chained
  <2>1. Inserted = {}
    BY <1>1 DEF LockedInit, BuilderInit, Inserted
  <2>2. Exchanged(hash) = 0
    BY <1>1 DEF LockedInit, Exchanged
  <2>3. IsChain(0, [k \in 0..0 |-> 0], hash)
    BY <2>1, <2>2 DEF IsChain, InsertedOf
  <2> QED BY <2>3
<1> QED BY <1>2, <1>4, <1>7, <1>8 DEF LockedInv

\* A step that leaves the rows inserted, their links and the heads alone keeps the chains.
SameChains ==
  /\ Inserted' = Inserted
  /\ \A i \in Inserted : rows'[i] = rows[i] /\ \A j : LinksTo(i, j) => LinksTo(i, j)'
  /\ UNCHANGED heads

LEMMA ChainsStay == ASSUME Chained, SameChains PROVE Chained'
<1> SUFFICES ASSUME NEW hash \in Hashes PROVE (\E n \in Nat : \E c : IsChain(n, c, hash))'
  BY DEF Chained
<1>1. \E n \in Nat : \E c : IsChain(n, c, hash)
  BY DEF Chained
<1>2. PICK n \in Nat : \E c : IsChain(n, c, hash)
  BY <1>1
<1>3. PICK c : IsChain(n, c, hash)
  BY <1>2
<1>4. InsertedOf(hash)' = InsertedOf(hash) /\ Exchanged(hash)' = Exchanged(hash)
  BY DEF SameChains, InsertedOf, Exchanged
<1>5. \A k \in 0..n - 1 : LinksTo(c[k], c[k + 1])'
  BY <1>3 DEF IsChain, InsertedOf, SameChains
<1>6. IsChain(n, c, hash)'
  BY <1>3, <1>4, <1>5 DEF IsChain
<1> QED BY <1>6
\* A batch that is taken gets the indices after the last one; nothing of it is inserted.
LEMMA TakeKeeps ==
  ASSUME LockedInv, NEW t \in Threads, TakeBatch(t)
  PROVE  LockedInv'
<1> DEFINE hashes == Head(waiting[t])
           new == [offset |-> Offset, hashes |-> hashes, next |-> 1,
                   buffer |-> [k \in 1..Len(hashes) |-> 0]]
<1>1. /\ pc[t] = "take" /\ waiting[t] # <<>> /\ pc' = [pc EXCEPT ![t] = "insert"]
      /\ waiting' = [waiting EXCEPT ![t] = Tail(@)] /\ rows' = rows \o hashes
      /\ batch' = [batch EXCEPT ![t] = new]
      /\ overflow' = [i \in 0..Len(rows) + Len(hashes) |-> IF i <= Len(rows) THEN overflow[i] ELSE 0]
      /\ UNCHANGED <<design, heads>>
  BY DEF TakeBatch, GoTo, Offset
<1>2. /\ design \in {"mutex", "sharded"}
      /\ pc \in [Threads -> {"take", "insert", "receive", "done"}]
      /\ waiting \in [Threads -> Seq(Seq(Hashes))] /\ rows \in Seq(Hashes)
      /\ DOMAIN overflow = 0..Len(rows) /\ overflow[0] = 0 /\ DOMAIN batch = Threads
  BY DEF LockedInv, LockedTypeOK
<1>3. hashes \in Seq(Hashes) /\ Tail(waiting[t]) \in Seq(Seq(Hashes))
  BY <1>1, <1>2
<1> DEFINE old == Len(rows)
           size == Len(hashes)
<1>4. /\ rows' \in Seq(Hashes) /\ Len(rows') = old + size /\ old \in Nat /\ size \in Nat
      /\ \A i \in 1..old : rows'[i] = rows[i]
      /\ \A k \in 1..size : rows'[old + k] = hashes[k]
  BY <1>1, <1>2, <1>3
<1>5. /\ batch[t] = NoBatch /\ batch'[t] = new
      /\ \A u \in Threads : u # t => batch'[u] = batch[u]
  BY <1>1, <1>2 DEF LockedInv, LockedPhases
<1>6. /\ new.offset = old /\ new.hashes = hashes /\ new.next = 1 /\ DOMAIN new.buffer = 1..size
  BY DEF Offset
<1> HIDE DEF new, hashes
<1>7. LockedTypeOK'
  <2>1. DOMAIN overflow' = 0..Len(rows') /\ overflow'[0] = overflow[0]
    BY <1>1, <1>4
  <2>2. DOMAIN batch' = Threads /\ design' = design
    BY <1>1, <1>2
  <2>3. pc' \in [Threads -> {"take", "insert", "receive", "done"}]
        /\ waiting' \in [Threads -> Seq(Seq(Hashes))]
    BY <1>1, <1>2, <1>3
  <2> QED BY <1>2, <1>4, <2>1, <2>2, <2>3 DEF LockedTypeOK
<1>8. LockedPhases'
  BY <1>1, <1>2, <1>5 DEF LockedInv, LockedPhases
<1>9. \A u \in Threads : u # t => Region(u)' = Region(u) /\ Pending(u)' = Pending(u)
  BY <1>5 DEF Region, Pending
<1>10. Region(t)' = old + 1..old + size /\ Pending(t)' = old + 1..old + size
  BY <1>5, <1>6 DEF Region, Pending
<1>11. Region(t) = {} /\ Pending(t) = {}
  BY <1>5, NoBatchNothingPending
<1>12. \A u \in Threads : Region(u) \subseteq 1..old /\ Pending(u) \subseteq 1..old
  BY PendingInRegion DEF LockedInv
<1>13. LockedBatches'
  <2>1. BatchOK(new, rows')
    BY <1>3, <1>4, <1>6 DEF BatchOK
  <2>2. ASSUME NEW u \in Threads, u # t PROVE BatchOK(batch[u], rows')
    <3>1. BatchOK(batch[u], rows)
      BY DEF LockedInv, LockedBatches
    <3>2. old <= Len(rows') /\ Len(rows') \in Nat
      BY <1>4
    <3> QED BY <1>4, <3>1, <3>2, BatchStays
  <2>3. ASSUME NEW u \in Threads, NEW v \in Threads, u # v PROVE Region(u)' \cap Region(v)' = {}
    <3>1. Region(u) \cap Region(v) = {}
      BY <2>3 DEF LockedInv, LockedBatches
    <3>2. (1..old) \cap (old + 1..old + size) = {}
      BY <1>4
    <3> QED BY <1>9, <1>10, <1>12, <2>3, <3>1, <3>2
  <2>4. ASSUME design = "mutex", NEW u \in Threads, NEW i \in Pending(u)' PROVE overflow'[i] = 0
    <3>1. CASE u = t
      <4>1. i \in old + 1..old + size
        BY <1>10, <3>1
      <4> QED BY <1>1, <1>4, <4>1
    <3>2. CASE u # t
      <4>1. i \in Pending(u) /\ i \in 1..old
        BY <1>9, <1>12, <3>2
      <4>2. overflow[i] = 0
        BY <2>4, <4>1 DEF LockedInv, LockedBatches
      <4> QED BY <1>1, <1>4, <4>1, <4>2
    <3> QED BY <3>1, <3>2
  <2> QED BY <1>1, <1>5, <2>1, <2>2, <2>3, <2>4 DEF LockedBatches
<1>14. Inserted' = Inserted
  <2>1. ASSUME NEW i \in 1..old + size PROVE i \in Inserted' <=> i \in Inserted
    <3>1. CASE i \in 1..old
      <4>1. i \notin old + 1..old + size
        BY <1>4, <3>1
      <4>2. \A u \in Threads : i \in Pending(u)' <=> i \in Pending(u)
        BY <1>9, <1>10, <1>11, <4>1
      <4> QED BY <1>4, <2>1, <3>1, <4>2 DEF Inserted
    <3>2. CASE i \in old + 1..old + size
      <4>1. i \notin 1..old
        BY <1>4, <3>2
      <4> QED BY <1>10, <3>2, <4>1 DEF Inserted
    <3> QED BY <1>4, <3>1, <3>2
  <2>2. Inserted \subseteq 1..old + size /\ Inserted' \subseteq 1..old + size
    BY <1>4 DEF Inserted
  <2> QED BY <2>1, <2>2
<1>15. SameChains
  <2>1. ASSUME NEW i \in Inserted, NEW j, LinksTo(i, j) PROVE LinksTo(i, j)'
    <3>1. i \in 1..old /\ i \notin old + 1..old + size
      BY <1>4 DEF Inserted
    <3>2. overflow'[i] = overflow[i]
      BY <1>1, <1>4, <3>1
    <3>3. \A u \in Threads : i \in Region(u)' <=> i \in Region(u)
      BY <1>9, <1>10, <1>11, <3>1
    <3>4. \A u \in Threads : i \in Region(u) => batch'[u] = batch[u]
      BY <1>5, <1>11
    <3> QED BY <1>1, <2>1, <3>2, <3>3, <3>4 DEF LinksTo
  <2>2. \A i \in Inserted : rows'[i] = rows[i]
    BY <1>4 DEF Inserted
  <2> QED BY <1>1, <1>14, <2>1, <2>2 DEF SameChains
<1>16. Chained'
  BY <1>15, ChainsStay DEF LockedInv
<1> QED BY <1>7, <1>8, <1>13, <1>16 DEF LockedInv
\* A row that is inserted becomes the head of its chain, and is linked to the old head.
LEMMA InsertKeeps ==
  ASSUME LockedInv, NEW t \in Threads, InsertRow(t)
  PROVE  LockedInv'
<1> SUFFICES ASSUME NEW b, b = batch[t], NEW next, next = b.next, NEW offset, offset = b.offset,
                    NEW size, size = Len(b.hashes), NEW hash, hash = b.hashes[next],
                    NEW at, at = offset + next, NEW previous, previous = Exchanged(hash)
             PROVE  LockedInv'
  OBVIOUS
<1>1. /\ pc[t] = "insert" /\ b.next <= size
      /\ heads' = [h \in DOMAIN heads \cup {hash} |-> IF h = hash THEN at ELSE heads[h]]
      /\ UNCHANGED <<design, pc, waiting, rows>>
  BY DEF InsertRow
<1>2. \/ /\ design = "mutex"
         /\ overflow' = IF previous = 0 THEN overflow ELSE [overflow EXCEPT ![at] = previous]
         /\ batch' = [batch EXCEPT ![t].next = @ + 1]
      \/ /\ design = "sharded"
         /\ batch' = [batch EXCEPT ![t].next = @ + 1, ![t].buffer[b.next] = previous]
         /\ UNCHANGED overflow
  BY DEF InsertRow
<1>3. /\ rows \in Seq(Hashes) /\ Len(rows) \in Nat
      /\ DOMAIN overflow = 0..Len(rows) /\ overflow[0] = 0 /\ DOMAIN batch = Threads
  BY DEF LockedInv, LockedTypeOK
<1>4. /\ b.offset \in Nat /\ b.next \in Nat /\ b.hashes \in Seq(Hashes) /\ 1 <= b.next
      /\ DOMAIN b.buffer = 1..size /\ b.offset + size <= Len(rows)
      /\ \A k \in 1..size : rows[b.offset + k] = b.hashes[k]
  <2>1. BatchOK(b, rows)
    BY DEF LockedInv, LockedBatches
  <2> QED BY <2>1 DEF BatchOK
<1>5. size \in Nat
  BY <1>4
<1>6. /\ hash \in Hashes /\ at \in 1..Len(rows) /\ rows[at] = hash
  <2>1. b.next \in 1..size
    BY <1>1, <1>4, <1>5
  <2> QED BY <1>3, <1>4, <1>5, <2>1
<1>7. /\ \A u \in Threads : u # t => batch'[u] = batch[u]
      /\ batch'[t].offset = b.offset /\ batch'[t].hashes = b.hashes /\ batch'[t].next = b.next + 1
      /\ DOMAIN batch'[t].buffer = DOMAIN b.buffer /\ DOMAIN batch' = Threads
      /\ design = "sharded" => /\ batch'[t].buffer[b.next] = previous
                               /\ \A k \in 1..size : k # b.next => batch'[t].buffer[k] = b.buffer[k]
  <2>1. CASE /\ design = "mutex"
             /\ batch' = [batch EXCEPT ![t].next = @ + 1]
    BY <1>3, <2>1
  <2>2. CASE /\ design = "sharded"
             /\ batch' = [batch EXCEPT ![t].next = @ + 1, ![t].buffer[b.next] = previous]
    <3> DEFINE buffer == [b.buffer EXCEPT ![b.next] = previous]
    <3>1. batch'[t] = [b EXCEPT !.next = @ + 1, !.buffer = buffer]
      BY <1>3, <2>2
    <3>2. DOMAIN buffer = DOMAIN b.buffer /\ buffer[b.next] = previous
          /\ \A k \in 1..size : k # b.next => buffer[k] = b.buffer[k]
      BY <1>1, <1>4, <1>5
    <3>3. \A u \in Threads : u # t => batch'[u] = batch[u]
      BY <1>3, <2>2
    <3>4. DOMAIN batch' = Threads
      BY <1>3, <2>2
    <3> HIDE DEF buffer
    <3>5. /\ batch'[t].offset = b.offset /\ batch'[t].hashes = b.hashes /\ batch'[t].next = b.next + 1
          /\ batch'[t].buffer = buffer
      BY <3>1
    <3> QED BY <3>2, <3>3, <3>4, <3>5
  <2> QED BY <1>2, <2>1, <2>2
<1>8. /\ Region(t) = offset + 1..offset + size /\ Region(t)' = Region(t)
      /\ Pending(t) = at..offset + size /\ Pending(t)' = at + 1..offset + size
  <2>1. b.offset + (b.next + 1) = at + 1
    <3>1. \A x, y \in Nat : x + (y + 1) = (x + y) + 1
      OBVIOUS
    <3>2. offset \in Nat /\ next \in Nat
      BY <1>4
    <3>3. offset + (next + 1) = at + 1
      BY <3>1, <3>2
    <3> QED BY <3>3
  <2>2. Region(t) = b.offset + 1..b.offset + size /\ Pending(t) = b.offset + b.next..b.offset + size
    BY DEF Region, Pending
  <2>3. /\ Region(t)' = b.offset + 1..b.offset + size
        /\ Pending(t)' = b.offset + (b.next + 1)..b.offset + size
    BY <1>7 DEF Region, Pending
  <2> QED BY <2>1, <2>2, <2>3
<1>9. \A u \in Threads : u # t => Region(u)' = Region(u) /\ Pending(u)' = Pending(u)
  BY <1>7 DEF Region, Pending
<1>10. /\ next \in 1..size /\ offset \in Nat /\ at = offset + next
       /\ at \in Pending(t) /\ at \in Region(t) /\ at \notin Pending(t)'
       /\ Pending(t)' = Pending(t) \ {at}
  <2>1. next \in 1..size /\ offset \in Nat /\ size \in Nat /\ at = offset + next
    BY <1>1, <1>4, <1>5
  <2>2. at \in at..offset + size /\ at \in offset + 1..offset + size /\ at \notin at + 1..offset + size
    BY <2>1
  <2>3. at + 1..offset + size = (at..offset + size) \ {at}
    BY <2>1
  <2> QED BY <1>8, <2>1, <2>2, <2>3
<1>11. \A u \in Threads : u # t => at \notin Region(u) /\ at \notin Pending(u)
  BY <1>10, PendingInRegion DEF LockedInv, LockedBatches
<1>22. \A i \in 1..Len(rows) : i # at => overflow'[i] = overflow[i]
  <2>1. CASE overflow' = overflow
    BY <2>1
  <2>2. CASE overflow' = [overflow EXCEPT ![at] = previous]
    <3> SUFFICES ASSUME NEW i \in 1..Len(rows), i # at PROVE overflow'[i] = overflow[i]
      OBVIOUS
    <3>1. i \in DOMAIN overflow
      BY <1>3
    <3> QED BY <2>2, <3>1
  <2> QED BY <1>2, <2>1, <2>2
<1>12. LockedTypeOK'
  <2>1. DOMAIN overflow' = DOMAIN overflow /\ overflow'[0] = overflow[0]
    BY <1>2, <1>3, <1>6
  <2> QED BY <1>1, <1>3, <1>7, <2>1 DEF LockedInv, LockedTypeOK
<1>13. LockedPhases'
  <2>1. \A u \in Threads : pc[u] # "insert" => batch'[u] = batch[u]
    BY <1>1, <1>7
  <2> QED BY <1>1, <2>1 DEF LockedInv, LockedPhases
<1>14. LockedBatches'
  <2>1. BatchOK(batch'[t], rows')
    <3>1. b.next + 1 \in Nat /\ 1 <= b.next + 1 /\ b.next + 1 <= size + 1
      BY <1>1, <1>4, <1>5
    <3> QED BY <1>1, <1>4, <1>7, <3>1 DEF BatchOK
  <2>2. \A u \in Threads : u # t => BatchOK(batch'[u], rows')
    BY <1>1, <1>7 DEF LockedInv, LockedBatches
  <2>3. \A u, v \in Threads : u # v => Region(u)' \cap Region(v)' = {}
    BY <1>8, <1>9 DEF LockedInv, LockedBatches
  <2>4. ASSUME design = "mutex", NEW u \in Threads, NEW i \in Pending(u)' PROVE overflow'[i] = 0
    <3>1. i \in Pending(u) /\ i # at
      BY <1>9, <1>10, <1>11
    <3>2. overflow[i] = 0
      BY <2>4, <3>1 DEF LockedInv, LockedBatches
    <3>3. i \in 1..Len(rows)
      BY <3>1, PendingInRegion DEF LockedInv
    <3> QED BY <1>22, <3>1, <3>2, <3>3
  <2> QED BY <1>1, <2>1, <2>2, <2>3, <2>4 DEF LockedBatches
<1>15. Inserted' = Inserted \cup {at} /\ at \notin Inserted
  <2>1. \A u \in Threads, i \in 1..Len(rows) : i \in Pending(u)' <=> (i \in Pending(u) /\ i # at)
    BY <1>9, <1>10, <1>11
  <2>2. \A u \in Threads : u # t => at \notin Pending(u)
    BY <1>11
  <2>3. Inserted' = {i \in 1..Len(rows) : \A u \in Threads : i \notin Pending(u)'}
    BY <1>1 DEF Inserted
  <2>4. ASSUME NEW i \in 1..Len(rows) PROVE i \in Inserted' <=> i \in Inserted \/ i = at
    <3>1. i \in Inserted' <=> \A u \in Threads : i \notin Pending(u)'
      BY <2>3
    <3>2. i \in Inserted <=> \A u \in Threads : i \notin Pending(u)
      BY DEF Inserted
    <3> QED BY <2>1, <3>1, <3>2
  <2>5. Inserted \subseteq 1..Len(rows) /\ Inserted' \subseteq 1..Len(rows)
    BY <2>3 DEF Inserted
  <2>6. at \notin Inserted
    BY <1>10 DEF Inserted
  <2> QED BY <1>6, <2>4, <2>5, <2>6
<1>16. ASSUME NEW i \in Inserted, NEW j, LinksTo(i, j) PROVE LinksTo(i, j)'
  <2>1. i # at
    BY <1>15
  <2>2. \A u \in Threads : i \in Region(u)' <=> i \in Region(u)
    BY <1>8, <1>9
  <2>3. CASE design = "sharded" /\ \E u \in Threads : i \in Region(u) /\ j = batch[u].buffer[i - batch[u].offset]
    <3>1. PICK u \in Threads : i \in Region(u) /\ j = batch[u].buffer[i - batch[u].offset]
      BY <2>3
    <3>2. j = batch'[u].buffer[i - batch'[u].offset]
      <4>1. CASE u # t
        BY <1>7, <3>1, <4>1
      <4>2. CASE u = t
        <5>1. i - offset \in 1..size /\ i - offset # next
          <6>1. i \in offset + 1..offset + size
            BY <1>8, <3>1, <4>2
          <6>2. i # offset + next
            BY <1>10, <2>1
          <6>3. \A o, n, m \in Nat : \A x \in o + 1..o + n :
                  (x - o \in 1..n) /\ (x # o + m => x - o # m)
            OBVIOUS
          <6>4. offset \in Nat /\ size \in Nat /\ next \in Nat
            BY <1>5, <1>10
          <6> QED BY <6>1, <6>2, <6>3, <6>4
        <5> QED BY <1>7, <2>3, <3>1, <4>2, <5>1
      <4> QED BY <4>1, <4>2
    <3> QED BY <1>1, <2>2, <2>3, <3>1, <3>2 DEF LinksTo
  <2>4. CASE (design = "mutex" \/ \A u \in Threads : i \notin Region(u)) /\ j = overflow[i]
    <3>1. overflow'[i] = overflow[i]
      BY <1>22, <2>1 DEF Inserted
    <3> QED BY <1>1, <2>2, <2>4, <3>1 DEF LinksTo
  <2> QED BY <1>16, <2>3, <2>4 DEF LinksTo
<1>17. LinksTo(at, previous)'
  <2>1. CASE design = "mutex"
    <3>1. overflow'[at] = previous
      <4>1. overflow[at] = 0
        BY <1>10, <2>1 DEF LockedInv, LockedBatches
      <4> QED BY <1>2, <1>3, <1>6, <2>1, <4>1
    <3> QED BY <1>1, <2>1, <3>1 DEF LinksTo
  <2>2. CASE design = "sharded"
    <3>1. at \in Region(t)' /\ at - batch'[t].offset = next
      BY <1>7, <1>8, <1>10
    <3>2. previous = batch'[t].buffer[at - batch'[t].offset]
      BY <1>7, <2>2, <3>1
    <3> QED BY <1>1, <2>2, <3>1, <3>2 DEF LinksTo
  <2> QED BY <1>2, <2>1, <2>2
<1>18. /\ Exchanged(hash)' = at
       /\ \A h : h # hash => Exchanged(h)' = Exchanged(h)
  BY <1>1 DEF Exchanged
<1>19. /\ InsertedOf(hash)' = InsertedOf(hash) \cup {at}
       /\ \A h : h # hash => InsertedOf(h)' = InsertedOf(h)
  BY <1>1, <1>6, <1>15 DEF InsertedOf
<1>20. InsertedOf(hash) \subseteq Inserted
  BY DEF InsertedOf
<1>21. Chained'
  <2> SUFFICES ASSUME NEW h \in Hashes PROVE (\E n \in Nat : \E c : IsChain(n, c, h))'
    BY DEF Chained
  <2>1. \E n \in Nat : \E c : IsChain(n, c, h)
    BY DEF LockedInv, Chained
  <2>2. PICK n \in Nat : \E c : IsChain(n, c, h)
    BY <2>1
  <2>3. PICK c : IsChain(n, c, h)
    BY <2>2
  <2>4. \A k \in 0..n - 1 : c[k] \in InsertedOf(h) /\ LinksTo(c[k], c[k + 1])'
    BY <1>16, <2>3 DEF IsChain, InsertedOf
  <2>5. CASE h # hash
    <3>1. IsChain(n, c, h)'
      BY <1>18, <1>19, <2>3, <2>4, <2>5 DEF IsChain
    <3> QED BY <3>1
  <2>6. CASE h = hash
    <3> DEFINE d == [k \in 0..n + 1 |-> IF k = 0 THEN at ELSE c[k - 1]]
    <3>1. c[0] = previous /\ c[n] = 0
      BY <2>3, <2>6 DEF IsChain
    <3>2. d[0] = at /\ \A k \in 0..n : d[k + 1] = c[k]
      OBVIOUS
    <3> HIDE DEF d
    <3>3. ASSUME NEW k \in 0..n PROVE d[k] \in InsertedOf(h)' /\ LinksTo(d[k], d[k + 1])'
      <4>1. CASE k = 0
        <5>1. d[0 + 1] = c[0]
          BY <3>2
        <5> QED BY <1>17, <1>19, <2>6, <3>1, <3>2, <4>1, <5>1
      <4>2. CASE k # 0
        <5>1. PICK m \in 0..n - 1 : k = m + 1
          <6>1. k - 1 \in 0..n - 1 /\ k = (k - 1) + 1
            BY <4>2
          <6> QED BY <6>1
        <5>2. m \in 0..n /\ m + 1 \in 0..n
          BY <5>1
        <5>3. d[k] = c[m] /\ d[k + 1] = c[m + 1]
          BY <3>2, <5>1, <5>2
        <5> QED BY <1>19, <2>4, <2>6, <5>1, <5>3
      <4> QED BY <4>1, <4>2
    <3>4. ASSUME NEW i \in InsertedOf(h)' PROVE \E k \in 0..n : d[k] = i
      <4>1. CASE i = at
        BY <3>2, <4>1
      <4>2. CASE i \in InsertedOf(h)
        <5>1. PICK k \in 0..n - 1 : c[k] = i
          BY <2>3, <4>2 DEF IsChain
        <5>2. k \in 0..n /\ k + 1 \in 0..n
          BY <5>1
        <5> QED BY <3>2, <5>1, <5>2
      <4> QED BY <1>19, <2>6, <3>4, <4>1, <4>2
    <3>5. \A k \in 1..n : k - 1 \in 0..n - 1 /\ d[k] = c[k - 1] /\ c[k - 1] # at
      <4> SUFFICES ASSUME NEW k \in 1..n PROVE k - 1 \in 0..n - 1 /\ d[k] = c[k - 1] /\ c[k - 1] # at
        OBVIOUS
      <4>1. k - 1 \in 0..n - 1 /\ k - 1 \in 0..n /\ (k - 1) + 1 = k
        OBVIOUS
      <4>2. c[k - 1] \in InsertedOf(h)
        BY <2>4, <4>1
      <4> QED BY <1>15, <1>20, <2>6, <3>2, <4>1, <4>2
    <3>6. ASSUME NEW j \in 0..n, NEW k \in 0..n, d[j] = d[k] PROVE j = k
      <4>1. \A x, y \in 0..n - 1 : c[x] = c[y] => x = y
        BY <2>3 DEF IsChain
      <4>2. CASE j = 0 /\ k # 0
        BY <3>2, <3>5, <3>6, <4>2
      <4>3. CASE j # 0 /\ k = 0
        BY <3>2, <3>5, <3>6, <4>3
      <4>4. CASE j # 0 /\ k # 0
        <5>1. j \in 1..n /\ k \in 1..n
          BY <4>4
        <5>2. c[j - 1] = c[k - 1] /\ j - 1 \in 0..n - 1 /\ k - 1 \in 0..n - 1
          BY <3>5, <3>6, <5>1
        <5>3. j - 1 = k - 1
          BY <4>1, <5>2
        <5> QED BY <5>3
      <4> QED BY <4>2, <4>3, <4>4
    <3>7. d[n + 1] = 0
      BY <3>1, <3>2
    <3>8. (n + 1) - 1 = n
      OBVIOUS
    <3>9. d[0] = Exchanged(h)'
      BY <1>18, <2>6, <3>2
    <3>10. IsChain(n + 1, d, h)'
      BY <3>3, <3>4, <3>6, <3>7, <3>8, <3>9 DEF IsChain
    <3>11. n + 1 \in Nat
      OBVIOUS
    <3> QED BY <3>10, <3>11
  <2> QED BY <2>5, <2>6
<1> QED BY <1>12, <1>13, <1>14, <1>21 DEF LockedInv

\* At the end of a batch its links are in the overflow buffer, where they were or
\* copied to.
LEMMA FinishKeeps ==
  ASSUME LockedInv, NEW t \in Threads, FinishBatch(t)
  PROVE  LockedInv'
<1> SUFFICES ASSUME NEW b, b = batch[t], NEW offset, offset = b.offset,
                    NEW size, size = Len(b.hashes)
             PROVE  LockedInv'
  OBVIOUS
<1>1. /\ pc[t] = "insert" /\ b.next > size
      /\ batch' = [batch EXCEPT ![t] = NoBatch] /\ pc' = [pc EXCEPT ![t] = "take"]
      /\ UNCHANGED <<design, waiting, rows, heads>>
  BY DEF FinishBatch, GoTo
<1>2. overflow' = IF design = "mutex" THEN overflow
                  ELSE [i \in DOMAIN overflow |->
                          IF i - offset \in DOMAIN b.buffer THEN b.buffer[i - offset] ELSE overflow[i]]
  BY DEF FinishBatch
<1>3. /\ rows \in Seq(Hashes) /\ Len(rows) \in Nat
      /\ pc \in [Threads -> {"take", "insert", "receive", "done"}]
      /\ DOMAIN overflow = 0..Len(rows) /\ overflow[0] = 0 /\ DOMAIN batch = Threads
      /\ design \in {"mutex", "sharded"}
  BY DEF LockedInv, LockedTypeOK
<1>4. /\ offset \in Nat /\ size \in Nat /\ b.next \in Nat /\ DOMAIN b.buffer = 1..size
  <2>1. BatchOK(b, rows)
    BY DEF LockedInv, LockedBatches
  <2> QED BY <2>1 DEF BatchOK
<1>5. batch'[t] = NoBatch /\ \A u \in Threads : u # t => batch'[u] = batch[u]
  BY <1>1, <1>3
<1>6. Region(t) = offset + 1..offset + size /\ Pending(t) = {}
  <2>1. Region(t) = offset + 1..offset + size /\ Pending(t) = offset + b.next..offset + size
    BY DEF Region, Pending
  <2>2. offset + b.next..offset + size = {}
    BY <1>1, <1>4
  <2> QED BY <2>1, <2>2
<1>7. /\ NoBatch.offset = 0 /\ NoBatch.next = 1 /\ NoBatch.hashes \in Seq(Hashes)
      /\ Len(NoBatch.hashes) = 0 /\ DOMAIN NoBatch.buffer = {}
  BY DEF NoBatch
<1>8. Region(t)' = {} /\ Pending(t)' = {}
  BY <1>5, <1>7 DEF Region, Pending
<1>9. \A u \in Threads : u # t => Region(u)' = Region(u) /\ Pending(u)' = Pending(u)
  BY <1>5 DEF Region, Pending
<1>10. \A i \in Int : (i - offset \in 1..size) <=> (i \in Region(t))
  <2> SUFFICES ASSUME NEW i \in Int PROVE (i - offset \in 1..size) <=> (i \in offset + 1..offset + size)
    BY <1>6
  <2> QED BY <1>4
<1>11. \A i \in 0..Len(rows) : i \notin Region(t) => overflow'[i] = overflow[i]
  <2> SUFFICES ASSUME NEW i \in 0..Len(rows), i \notin Region(t) PROVE overflow'[i] = overflow[i]
    OBVIOUS
  <2>1. i \in DOMAIN overflow /\ i - offset \notin DOMAIN b.buffer
    BY <1>3, <1>4, <1>10
  <2> QED BY <1>2, <2>1
<1>12. LockedTypeOK'
  <2>1. 0 \notin Region(t)
    BY <1>4, <1>6
  <2>2. DOMAIN overflow' = DOMAIN overflow /\ overflow'[0] = overflow[0]
    BY <1>2, <1>3, <1>11, <2>1
  <2> QED BY <1>1, <1>3, <2>2 DEF LockedInv, LockedTypeOK
<1>13. LockedPhases'
  BY <1>1, <1>3, <1>5 DEF LockedInv, LockedPhases
<1>14. LockedBatches'
  <2>1. BatchOK(NoBatch, rows)
    BY <1>3, <1>7 DEF BatchOK
  <2>2. \A u \in Threads : BatchOK(batch[u], rows)
    BY DEF LockedInv, LockedBatches
  <2>3. \A u \in Threads : BatchOK(batch'[u], rows')
    BY <1>1, <1>5, <2>1, <2>2
  <2>4. \A u, v \in Threads : u # v => Region(u)' \cap Region(v)' = {}
    BY <1>8, <1>9 DEF LockedInv, LockedBatches
  <2>5. ASSUME design = "mutex", NEW u \in Threads, NEW i \in Pending(u)' PROVE overflow'[i] = 0
    BY <1>2, <1>8, <1>9, <2>5 DEF LockedInv, LockedBatches
  <2> QED BY <1>1, <2>3, <2>4, <2>5 DEF LockedBatches
<1>15. Inserted' = Inserted
  BY <1>1, <1>6, <1>8, <1>9 DEF Inserted
<1>16. SameChains
  <2>1. ASSUME NEW i \in Inserted, NEW j, LinksTo(i, j) PROVE LinksTo(i, j)'
    <3>1. i \in 0..Len(rows) /\ i \in Int
      BY <1>3 DEF Inserted
    <3>2. CASE i \in Region(t)
      <4>1. \A u \in Threads : i \notin Region(u)'
        BY <1>8, <1>9, <3>2 DEF LockedInv, LockedBatches
      <4>2. \A u \in Threads : i \in Region(u) => u = t
        BY <3>2 DEF LockedInv, LockedBatches
      <4>3. CASE design = "mutex"
        BY <1>1, <1>2, <2>1, <4>3 DEF LinksTo
      <4>4. CASE design = "sharded"
        <5>1. j = b.buffer[i - offset]
          BY <2>1, <3>2, <4>2, <4>4 DEF LinksTo
        <5>2. overflow'[i] = b.buffer[i - offset]
          BY <1>2, <1>3, <1>4, <1>10, <3>1, <3>2, <4>4
        <5> QED BY <4>1, <5>1, <5>2 DEF LinksTo
      <4> QED BY <1>3, <4>3, <4>4
    <3>3. CASE i \notin Region(t)
      <4>1. overflow'[i] = overflow[i]
        BY <1>11, <3>1, <3>3
      <4>2. \A u \in Threads : i \in Region(u)' <=> i \in Region(u)
        BY <1>8, <1>9, <3>3
      <4>3. \A u \in Threads : i \in Region(u) => batch'[u] = batch[u]
        BY <1>5, <3>3
      <4> QED BY <1>1, <2>1, <4>1, <4>2, <4>3 DEF LinksTo
    <3> QED BY <3>2, <3>3
  <2> QED BY <1>1, <1>15, <2>1 DEF SameChains
<1>17. Chained'
  BY <1>16, ChainsStay DEF LockedInv
<1> QED BY <1>12, <1>13, <1>14, <1>17 DEF LockedInv

\* Who leaves, or receives the lookup, touches no row.
LEMMA LeavingKeeps ==
  ASSUME LockedInv, NEW t \in Threads, DropState(t) \/ ReceiveLookup(t)
  PROVE  LockedInv'
<1>1. /\ pc[t] # "insert" /\ waiting[t] = <<>>
      /\ pc' = [pc EXCEPT ![t] = "done"] \/ pc' = [pc EXCEPT ![t] = "receive"]
      /\ UNCHANGED <<design, waiting, rows, overflow, heads, batch>>
  BY DEF LockedInv, LockedPhases, DropState, ReceiveLookup, GoTo, lockedVars
<1>2. pc \in [Threads -> {"take", "insert", "receive", "done"}]
  BY DEF LockedInv, LockedTypeOK
<1>3. LockedTypeOK'
  BY <1>1, <1>2 DEF LockedInv, LockedTypeOK
<1>4. LockedPhases'
  BY <1>1, <1>2 DEF LockedInv, LockedPhases
<1>5. LockedBatches'
  BY <1>1 DEF LockedInv, LockedBatches, Region, Pending
<1>6. SameChains
  BY <1>1 DEF SameChains, Inserted, LinksTo, Region, Pending
<1>7. Chained'
  BY <1>6, ChainsStay DEF LockedInv
<1> QED BY <1>3, <1>4, <1>5, <1>7 DEF LockedInv

LEMMA LockedInvNext ==
  ASSUME LockedInv, [Next]_allVars
  PROVE  LockedInv'
<1>1. design # "partitioned"
  BY DEF LockedInv, LockedTypeOK
<1>2. ASSUME NEW t \in Threads, LockedStep(t) PROVE LockedInv'
  <2>1. CASE TakeBatch(t)
    BY <2>1, TakeKeeps
  <2>2. CASE InsertRow(t)
    BY <2>2, InsertKeeps
  <2>3. CASE FinishBatch(t)
    BY <2>3, FinishKeeps
  <2>4. CASE DropState(t) \/ ReceiveLookup(t)
    BY <2>4, LeavingKeeps
  <2> QED BY <1>2, <2>1, <2>2, <2>3, <2>4 DEF LockedStep
<1>3. CASE UNCHANGED allVars
  <2>1. UNCHANGED <<design, pc, waiting, rows, overflow, heads, batch>>
    BY <1>3 DEF allVars, builderVars, lockedVars
  <2>2. LockedTypeOK' /\ LockedPhases' /\ LockedBatches'
    BY <2>1 DEF LockedInv, LockedTypeOK, LockedPhases, LockedBatches, Region, Pending
  <2>3. SameChains
    BY <2>1 DEF SameChains, Inserted, LinksTo, Region, Pending
  <2>4. Chained'
    BY <2>3, ChainsStay DEF LockedInv
  <2> QED BY <2>2, <2>4 DEF LockedInv
<1>4. CASE Next
  BY <1>1, <1>2, <1>4 DEF Next, Step
<1> QED BY <1>3, <1>4

\* Of the builders that share a map: at every moment each row inserted is on the
\* chain of its hash exactly once, although the links of a batch are elsewhere
\* until it ends.
THEOREM LockedInvariant == Spec /\ design # "partitioned" => []LockedInv
<1>1. Init /\ design # "partitioned" => LockedInv
  BY LockedInvInit
<1>2. LockedInv /\ [Next]_allVars => LockedInv'
  BY LockedInvNext
<1> QED BY <1>1, <1>2, PTL DEF Spec
-----------------------------------------------------------------------------
\* What the lookup must answer.
RightAnswer(hash) == {n - 1 : n \in {n \in DOMAIN rows : rows[n] = hash}}
RightAnswers ==
  (\A t \in Threads : pc[t] = "done") => \A hash \in Hashes : LockedLookedUp(hash) = RightAnswer(hash)

\* Once all have left, a chain in the overflow buffer has the rows of its hash.
LEMMA ChainsAnswer == LockedInv => RightAnswers
<1> SUFFICES ASSUME LockedInv, \A t \in Threads : pc[t] = "done", NEW hash \in Hashes
             PROVE  LockedLookedUp(hash) = RightAnswer(hash)
  BY DEF RightAnswers
<1>1. /\ rows \in Seq(Hashes) /\ Len(rows) \in Nat /\ DOMAIN rows = 1..Len(rows)
      /\ overflow[0] = 0
  BY DEF LockedInv, LockedTypeOK
<1>2. \A t \in Threads : Region(t) = {} /\ Pending(t) = {}
  BY NoBatchNothingPending DEF LockedInv, LockedPhases
<1>3. Inserted = 1..Len(rows)
  BY <1>2 DEF Inserted
<1>4. \A i, j : LinksTo(i, j) => j = overflow[i]
  BY <1>2 DEF LinksTo
<1>5. PICK n \in Nat : \E c : IsChain(n, c, hash)
  BY DEF LockedInv, Chained
<1>6. PICK c : IsChain(n, c, hash)
  BY <1>5
<1>7. InsertedOf(hash) = AllOf(hash) /\ AllOf(hash) \in SUBSET (1..Len(rows))
  BY <1>3 DEF InsertedOf, AllOf
<1>8. Strung(n, c, Exchanged(hash), AllOf(hash))
  BY <1>4, <1>6, <1>7 DEF IsChain, Strung
<1>9. RightAnswer(hash) = {i - 1 : i \in AllOf(hash)}
  BY <1>1 DEF RightAnswer, AllOf
<1>10. CASE hash \in DOMAIN heads
  <2>1. ChainOf(Exchanged(hash)) = {i - 1 : i \in AllOf(hash)}
    BY <1>1, <1>7, <1>8, ChainYields
  <2> QED BY <1>9, <1>10, <2>1 DEF LockedLookedUp, Exchanged
<1>11. CASE hash \notin DOMAIN heads
  <2>1. Exchanged(hash) = 0
    BY <1>11 DEF Exchanged
  <2>2. n = 0
    <3> SUFFICES ASSUME n # 0 PROVE FALSE
      OBVIOUS
    <3>1. 0 \in 0..n - 1
      OBVIOUS
    <3>2. c[0] \in 1..Len(rows)
      BY <1>7, <1>8, <3>1 DEF Strung
    <3> QED BY <1>8, <2>1, <3>2 DEF Strung
  <2>3. AllOf(hash) = {}
    BY <1>8, <2>2 DEF Strung
  <2> QED BY <1>9, <1>11, <2>3 DEF LockedLookedUp
<1> QED BY <1>10, <1>11
-----------------------------------------------------------------------------
(* The refinement of JoinIndex *)

\* While some thread is in run there is no answer.
LEMMA NoAnswerYet ==
  ASSUME NEW t \in Threads, pc[t] # "done"
  PROVE  Answers = NotReady
BY DEF Answers

LEMMA InitImplements == Init /\ design # "partitioned" => Index!Init
<1> SUFFICES ASSUME Init, design # "partitioned" PROVE Index!Init
  OBVIOUS
<1>1. waiting \in Inputs /\ rows = <<>> /\ pc = [t \in Threads |-> "take"]
  BY DEF Init, LockedInit, BuilderInit
<1>2. 0 \in Threads
  BY BuilderAssumption DEF Threads
<1>3. Answers = NotReady
  BY <1>1, <1>2, NoAnswerYet
<1> QED BY <1>1, <1>3 DEF Index!Init

\* A batch that is taken is placed, and the last thread that leaves or receives the
\* lookup publishes; whatever happens between is not seen.
LEMMA StepImplements ==
  ASSUME LockedInv, LockedInv', RightAnswers', [Next]_allVars
  PROVE  [Index!Next]_(Index!vars)
<1>1. /\ design # "partitioned" /\ design' # "partitioned"
      /\ pc \in [Threads -> {"take", "insert", "receive", "done"}]
      /\ waiting \in [Threads -> Seq(Seq(Hashes))] /\ DOMAIN waiting = Threads
  BY DEF LockedInv, LockedTypeOK
<1>2. ASSUME NEW t \in Threads, LockedStep(t) PROVE [Index!Next]_(Index!vars)
  <2>1. pc[t] # "done"
    BY <1>2 DEF LockedStep, TakeBatch, InsertRow, FinishBatch, DropState, ReceiveLookup
  <2>2. Answers = NotReady
    BY <2>1, NoAnswerYet
  <2>3. CASE TakeBatch(t)
    <3>1. pc'[t] = "insert"
      BY <1>1, <2>3 DEF TakeBatch, GoTo
    <3>2. Answers' = NotReady
      BY <3>1 DEF Answers
    <3>3. /\ waiting[t] # <<>> /\ rows' = rows \o Head(waiting[t])
          /\ waiting' = [waiting EXCEPT ![t] = Tail(@)]
      BY <2>3 DEF TakeBatch
    <3>4. Index!PlaceBatch(t)
      BY <2>2, <3>2, <3>3 DEF Index!PlaceBatch
    <3> QED BY <1>1, <3>4 DEF Index!Next
  <2>4. CASE InsertRow(t) \/ FinishBatch(t)
    <3>1. pc'[t] # "done" /\ UNCHANGED <<waiting, rows>>
      BY <1>1, <2>4 DEF InsertRow, FinishBatch, GoTo
    <3>2. Answers' = NotReady
      BY <3>1 DEF Answers
    <3> QED BY <2>2, <3>1, <3>2 DEF Index!vars
  <2>5. CASE DropState(t) \/ ReceiveLookup(t)
    <3>1. UNCHANGED <<waiting, rows>>
      BY <2>5 DEF DropState, ReceiveLookup
    <3>2. CASE \E u \in Threads : pc'[u] # "done"
      <4>1. Answers' = NotReady
        BY <3>2 DEF Answers
      <4> QED BY <2>2, <3>1, <4>1 DEF Index!vars
    <3>3. CASE \A u \in Threads : pc'[u] = "done"
      <4>1. \A u \in Threads : waiting[u] = <<>>
        BY <3>1, <3>3 DEF LockedInv, LockedPhases
      <4>2. Answers' = [hash \in Hashes |-> RightAnswer(hash)']
        BY <1>1, <3>3 DEF Answers, RightAnswers
      <4>3. \A hash \in Hashes : RightAnswer(hash)' = RightAnswer(hash)
        BY <3>1 DEF RightAnswer
      <4>4. Answers' = [hash \in Hashes |-> RightAnswer(hash)]
        BY <4>2, <4>3
      <4>5. Index!Publish
        BY <1>1, <2>2, <3>1, <4>1, <4>4 DEF Index!Publish, RightAnswer
      <4> QED BY <4>5 DEF Index!Next
    <3> QED BY <3>2, <3>3
  <2> QED BY <1>2, <2>3, <2>4, <2>5 DEF LockedStep
<1>3. CASE UNCHANGED allVars
  <2>1. UNCHANGED <<design, pc, waiting, rows, overflow, heads>>
    BY <1>3 DEF allVars, builderVars, lockedVars
  <2>2. Answers' = Answers
    <3>1. CASE \E u \in Threads : pc[u] # "done"
      BY <2>1, <3>1 DEF Answers
    <3>2. CASE \A u \in Threads : pc[u] = "done"
      <4>1. \A hash : LockedLookedUp(hash)' = LockedLookedUp(hash)
        BY <2>1 DEF LockedLookedUp, ChainOf, Ends, Followed
      <4>2. Answers = [hash \in Hashes |-> LockedLookedUp(hash)]
        BY <1>1, <3>2 DEF Answers
      <4>3. Answers' = [hash \in Hashes |-> LockedLookedUp(hash)']
        BY <1>1, <2>1, <3>2 DEF Answers
      <4> QED BY <4>1, <4>2, <4>3
    <3> QED BY <3>1, <3>2
  <2> QED BY <2>1, <2>2 DEF Index!vars
<1>4. CASE Next
  BY <1>1, <1>2, <1>4 DEF Next, Step
<1> QED BY <1>3, <1>4

\* MutexMapBuilder, DashMapBuilder and LeapfrogBuilder give each row an index of its
\* own, a batch consecutive ones, and once every call of run has returned their
\* lookup has for each hash exactly its rows: no link is lost between the batch's
\* buffer and the overflow buffer and no chain is cut or goes round, whatever the
\* threads and their batches.
THEOREM LockedBuildersAreAnIndex == Spec /\ design # "partitioned" => ImplementsJoinIndex
<1>1. Init /\ design # "partitioned" => Index!Init
  BY InitImplements
<1>2. LockedInv /\ LockedInv' /\ RightAnswers' /\ [Next]_allVars => [Index!Next]_(Index!vars)
  BY StepImplements
<1>3. LockedInv => RightAnswers
  BY ChainsAnswer
<1>4. Spec /\ design # "partitioned" => []LockedInv
  BY LockedInvariant
<1> QED BY <1>1, <1>2, <1>3, <1>4, PTL DEF Spec, ImplementsJoinIndex, Index!Spec
-----------------------------------------------------------------------------
(* The partitioned builder *)

\* While it runs JoinBuilders is ConcurrentBuilder.
LEMMA PartitionedStep ==
  ASSUME design = "partitioned", [Next]_allVars
  PROVE  design' = "partitioned" /\ [ConcurrentNext]_concurrentVars
<1> USE DEF partitionedVars
<1>1. CASE UNCHANGED allVars
  BY <1>1 DEF allVars, builderVars, concurrentVars
<1>2. ASSUME NEW t \in Threads, ConcurrentStep(t) PROVE UNCHANGED design
  <2>1. CASE LockTracker(t) \/ AllocateBatch(t) \/ SendTables(t) \/ CollectTables(t)
    BY <2>1 DEF LockTracker, AllocateBatch, SendTables, CollectTables
  <2>2. CASE AllocateOverflow(t) \/ ReceiveOverflow(t) \/ CopyOverflow(t)
    BY <2>2 DEF AllocateOverflow, ReceiveOverflow, CopyOverflow
  <2>3. CASE AllocateCounts(t) \/ ReceiveCounts(t) \/ ArriveCopied(t) \/ Merge(t)
    BY <2>3 DEF AllocateCounts, ReceiveCounts, ArriveCopied, Arrive, Merge
  <2>4. CASE LockSenders(t) \/ MissSenders(t) \/ TakeSenders(t) \/ ArriveMerged(t) \/ AllocateDestination(t) \/ ReceiveDestination(t)
    BY <2>4 DEF LockSenders, MissSenders, TakeSenders, ArriveMerged, Arrive, AllocateDestination, ReceiveDestination
  <2>5. CASE PlanWrites(t) \/ PanicFewCounters(t) \/ WriteCell(t) \/ Return(t)
    BY <2>5 DEF PlanWrites, PanicFewCounters, WriteCell, Return
  <2> QED BY <1>2, <2>1, <2>2, <2>3, <2>4, <2>5 DEF ConcurrentStep
<1>3. CASE Next
  <2>1. PICK t \in Threads : Step(t)
    BY <1>3 DEF Next
  <2>2. ConcurrentStep(t)
    BY <2>1 DEF Step
  <2> QED BY <1>2, <2>2 DEF ConcurrentNext
<1> QED BY <1>1, <1>3

LEMMA PartitionedIsConcurrent ==
  Spec /\ design = "partitioned" => ConcurrentSpec /\ [](design = "partitioned")
<1>1. Init /\ design = "partitioned" => ConcurrentInit
  BY DEF Init
<1>2. design = "partitioned" /\ [Next]_allVars => (design = "partitioned")' /\ [ConcurrentNext]_concurrentVars
  BY PartitionedStep
<1> QED BY <1>1, <1>2, PTL DEF Spec, ConcurrentSpec

\* Its lookup has for each hash exactly its rows.
FoundRight ==
  (\A t \in Threads : pc[t] = "done") => \A hash \in Hashes : LookedUp(hash) = RightAnswer(hash)

LEMMA PartitionedAnswers == ASSUME FewHashes PROVE PartitionedInv => FoundRight
<1> SUFFICES ASSUME PartitionedInv, \A t \in Threads : pc[t] = "done", NEW hash \in Hashes
             PROVE  LookedUp(hash) = RightAnswer(hash)
  BY DEF FoundRight
<1>1. LookedUp(hash) = {i - 1 : i \in AllOf(hash)}
  BY LookupComplete DEF PartitionedInv
<1>2. DOMAIN rows = 1..Len(rows)
  BY DEF PartitionedInv, ControlInv, ControlTypeOK
<1> QED BY <1>1, <1>2 DEF AllOf, RightAnswer

\* A batch that is allocated is placed, and the last thread that returns publishes.
LEMMA PartitionedStepImplements ==
  ASSUME PartitionedInv, PartitionedInv', FoundRight', design = "partitioned", design' = "partitioned",
         [ConcurrentNext]_concurrentVars
  PROVE  [Index!Next]_(Index!vars)
<1>1. pc \in [Threads -> Steps] /\ waiting \in [Threads -> Seq(Seq(Hashes))] /\ DOMAIN waiting = Threads
      /\ \A t \in Threads : pc'[t] = "done" => waiting'[t] = <<>>
  BY DEF PartitionedInv, ControlInv, ControlTypeOK, InputInv, Accumulating
<1> USE DEF GoTo, partitionedVars
<1>2. ASSUME NEW t \in Threads, ConcurrentStep(t) PROVE [Index!Next]_(Index!vars)
  <2>1. CASE AllocateBatch(t)
    <3>1. /\ pc[t] = "allocate" /\ pc' = [pc EXCEPT ![t] = "accumulate"]
          /\ rows' = rows \o Head(waiting[t])
          /\ waiting' = [waiting EXCEPT ![t] = Tail(@)]
      BY <2>1 DEF AllocateBatch
    <3>2. pc[t] # "done" /\ pc'[t] # "done"
      BY <1>1, <3>1
    <3>3. Answers = NotReady /\ Answers' = NotReady
      BY <3>2 DEF Answers
    <3>4. waiting[t] # <<>>
      BY <3>1 DEF PartitionedInv, ControlInv, TrackerInv
    <3>5. Index!PlaceBatch(t)
      BY <3>1, <3>3, <3>4 DEF Index!PlaceBatch
    <3> QED BY <1>1, <3>5 DEF Index!Next
  <2>2. CASE Return(t)
    <3>1. pc[t] # "done" /\ UNCHANGED <<waiting, rows>>
      BY <2>2 DEF Return
    <3>2. Answers = NotReady
      BY <3>1, NoAnswerYet
    <3>3. CASE \E u \in Threads : pc'[u] # "done"
      <4>1. Answers' = NotReady
        BY <3>3 DEF Answers
      <4> QED BY <3>1, <3>2, <4>1 DEF Index!vars
    <3>4. CASE \A u \in Threads : pc'[u] = "done"
      <4>1. \A u \in Threads : waiting[u] = <<>>
        BY <1>1, <3>1, <3>4
      <4>2. Answers' = [hash \in Hashes |-> RightAnswer(hash)']
        BY <3>4 DEF Answers, FoundRight
      <4>3. \A hash \in Hashes : RightAnswer(hash)' = RightAnswer(hash)
        BY <3>1 DEF RightAnswer
      <4>4. Answers' = [hash \in Hashes |-> RightAnswer(hash)]
        BY <4>2, <4>3
      <4>5. Index!Publish
        BY <1>1, <3>1, <3>2, <4>1, <4>4 DEF Index!Publish, RightAnswer
      <4> QED BY <4>5 DEF Index!Next
    <3> QED BY <3>3, <3>4
  <2>3. CASE ~AllocateBatch(t) /\ ~Return(t)
    <3>1. ASSUME UNCHANGED <<waiting, rows>>, pc[t] # "done", pc'[t] # "done" PROVE [Index!Next]_(Index!vars)
      <4>1. Answers = NotReady /\ Answers' = NotReady
        BY <3>1 DEF Answers
      <4> QED BY <3>1, <4>1 DEF Index!vars
    <3>2. CASE LockTracker(t) \/ SendTables(t) \/ CollectTables(t)
      BY <1>1, <3>1, <3>2 DEF LockTracker, SendTables, CollectTables
    <3>3. CASE AllocateOverflow(t) \/ ReceiveOverflow(t) \/ CopyOverflow(t)
      BY <1>1, <3>1, <3>3 DEF AllocateOverflow, ReceiveOverflow, CopyOverflow
    <3>4. CASE AllocateCounts(t) \/ ReceiveCounts(t) \/ ArriveCopied(t) \/ Merge(t)
      BY <1>1, <3>1, <3>4 DEF AllocateCounts, ReceiveCounts, ArriveCopied, Arrive, Merge
    <3>5. CASE LockSenders(t) \/ MissSenders(t) \/ TakeSenders(t) \/ ArriveMerged(t) \/ AllocateDestination(t) \/ ReceiveDestination(t)
      BY <1>1, <3>1, <3>5 DEF LockSenders, MissSenders, TakeSenders, ArriveMerged, Arrive, AllocateDestination, ReceiveDestination
    <3>6. CASE PlanWrites(t) \/ PanicFewCounters(t) \/ WriteCell(t)
      BY <1>1, <3>1, <3>6 DEF PlanWrites, PanicFewCounters, WriteCell
    <3> QED BY <1>2, <2>3, <3>2, <3>3, <3>4, <3>5, <3>6 DEF ConcurrentStep
  <2> QED BY <2>1, <2>2, <2>3
<1>3. CASE UNCHANGED concurrentVars
  <2>1. UNCHANGED <<pc, waiting, rows, overflow, table>>
    BY <1>3 DEF concurrentVars, builderVars
  <2>2. CASE \E u \in Threads : pc[u] # "done"
    <3>1. Answers = NotReady /\ Answers' = NotReady
      BY <2>1, <2>2 DEF Answers
    <3> QED BY <2>1, <3>1 DEF Index!vars
  <2>3. CASE \A u \in Threads : pc[u] = "done"
    <3>3. \A hash : LookedUp(hash)' = LookedUp(hash)
      BY <2>1 DEF LookedUp, Found, Window, Stops, GroupStart, Buckets, ChainOf, Ends, Followed
    <3>4. Answers = [hash \in Hashes |-> LookedUp(hash)]
      BY <2>3 DEF Answers
    <3>5. Answers' = [hash \in Hashes |-> LookedUp(hash)']
      BY <2>1, <2>3 DEF Answers
    <3> QED BY <2>1, <3>3, <3>4, <3>5 DEF Index!vars
  <2> QED BY <2>2, <2>3
<1> QED BY <1>2, <1>3 DEF ConcurrentNext

LEMMA PartitionedInitImplements == Init /\ design = "partitioned" => Index!Init
<1> SUFFICES ASSUME Init, design = "partitioned" PROVE Index!Init
  OBVIOUS
<1>1. waiting \in Inputs /\ rows = <<>> /\ \A t \in Threads : pc[t] \in {"accumulate", "refused"}
  BY FirstSteps DEF Init, ConcurrentInit, BuilderInit, LockedInit
<1>2. 0 \in Threads
  BY ThreadsAre
<1>3. Answers = NotReady
  BY <1>1, <1>2, NoAnswerYet
<1> QED BY <1>1, <1>3 DEF Index!Init

\* The ConcurrentBuilder of attempt3.rs, too, gives each row an index of its own, a
\* batch consecutive ones, and once every call of run has returned its lookup has for
\* each hash exactly its rows: the threads copy, link and write without a lock, and no
\* link is lost, no chain is cut or goes round and no entry is overwritten or passed
\* over, as long as the input's hashes are not crowded.
THEOREM PartitionedBuilderIsAnIndex ==
  ASSUME FewHashes, UncrowdedInputs PROVE Spec /\ design = "partitioned" => ImplementsJoinIndex
<1>1. Init /\ design = "partitioned" => Index!Init
  BY PartitionedInitImplements
<1>2. PartitionedInv /\ PartitionedInv' /\ FoundRight' /\ design = "partitioned" /\ (design = "partitioned")'
      /\ [ConcurrentNext]_concurrentVars => [Index!Next]_(Index!vars)
  BY PartitionedStepImplements
<1>3. PartitionedInv => FoundRight
  BY PartitionedAnswers
<1>4. ConcurrentSpec => []PartitionedInv
  BY PartitionedInvariant
<1>5. Spec /\ design = "partitioned" => ConcurrentSpec /\ [](design = "partitioned")
  BY PartitionedIsConcurrent
<1> QED BY <1>1, <1>2, <1>3, <1>4, <1>5, PTL DEF Spec, ConcurrentSpec, ImplementsJoinIndex, Index!Spec

\* So every builder of the hash join implements JoinIndex.
THEOREM BuildersAreAnIndex == ASSUME FewHashes, UncrowdedInputs PROVE Spec => ImplementsJoinIndex
<1>1. Spec /\ design # "partitioned" => ImplementsJoinIndex
  BY LockedBuildersAreAnIndex
<1>2. Spec /\ design = "partitioned" => ImplementsJoinIndex
  BY PartitionedBuilderIsAnIndex
<1>3. design # "partitioned" \/ design = "partitioned"
  OBVIOUS
<1> QED BY <1>1, <1>2, <1>3, PTL
=============================================================================
