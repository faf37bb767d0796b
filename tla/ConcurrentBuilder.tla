-------------------------- MODULE ConcurrentBuilder --------------------------
(***************************************************************************)
(* ConcurrentBuilder (hashjoin/src/builder/attempt3.rs): a hash table      *)
(* built by threads that take no lock while they write it.                 *)
(*                                                                         *)
(* Each thread first builds tables of its own, one per partition of the    *)
(* hashes, and shares them.  Each then merges the partitions it owns and   *)
(* counts, in a shared vector, the hashes that will start their probe at   *)
(* each place of the destination.  From these counts every thread works    *)
(* out which cells all the others will fill, and writes its own hashes to  *)
(* the cells left.  Two barriers separate the phases.                      *)
(***************************************************************************)
EXTENDS JoinBuilder

CONSTANTS
  Width,        \* Group::WIDTH, the stride of ProbeSeq and the window of find
  Lanes,        \* the cells of a group this builder fills, 8 in the code
  None          \* no thread, no row

ASSUME GroupAssumption == /\ Width \in Nat \ {0} /\ Lanes \in 1..Width
                          /\ None \notin Threads /\ None \notin [hash : Hashes, head : Nat]

VARIABLES
  tracker,      \* who holds the mutex of the GlobalIndexTracker, or None
  local,        \* local tables: per thread and hash, [head, tail] of the rows
  regions,      \* local overflow buffers: [offset, buffer]
  shared,       \* the order in which local tables were sent
  claimant,     \* who claimed the sender of the destination table, or None
  counts,       \* shared_bucket_counts
  arrived,      \* who has come to each of the two barriers
  table,        \* the destination, a function from buckets to rows or None
  plan,         \* the writes a thread has left, and whether it gets stuck then
  writers       \* for the specification: the threads that wrote each bucket

partitionedVars == <<tracker, local, regions, shared, claimant, counts, arrived,
                     table, plan, writers>>
concurrentVars == <<builderVars, partitionedVars>>
-----------------------------------------------------------------------------
\* Partitions.  A hash belongs to the partition given by its lowest bits, the
\* lowest of them first, so that a longer vector splits each partition into
\* consecutive ones.
Log2(power) == CHOOSE k \in 0..64 : 2 ^ k = power
Reversed(number, bits) ==
  LET r[n \in 0..bits] ==
        IF n = 0 THEN 0 ELSE 2 * r[n - 1] + ((number \div 2 ^ (n - 1)) % 2)
  IN r[bits]
PartitionOf(hash, partitions) == Reversed(hash % partitions, Log2(partitions))
MaskedHash(partition, partitions) == Reversed(partition, Log2(partitions))

TablePartitions == Min({p \in {2 ^ k : k \in 0..16} : p >= Parallelism})

\* Mutant of OwnedRange: the remainder is not shared out.
OwnedRangeWithoutRemainder(total, actor) ==
  LET floor == total \div Parallelism IN [low |-> actor * floor, high |-> (actor + 1) * floor]

\* get_owned_range: the partitions low..high - 1 are this thread's.
OwnedRange(total, actor) ==
  LET floor == total \div Parallelism
      remainder == total % Parallelism
      low == actor * floor + Min({actor, remainder})
  IN [low |-> low, high |-> low + floor + (IF actor < remainder THEN 1 ELSE 0)]
Owned(t) == LET range == OwnedRange(TablePartitions, t) IN range.low..range.high - 1

CapacityToBuckets(capacity) ==
  IF capacity < 8 THEN IF capacity < 4 THEN 4 ELSE 8
                  ELSE Min({p \in {2 ^ k : k \in 0..30} : p >= (capacity * 8) \div 7})

\* What the threads' local tables hold together; it counts a hash once per
\* thread that has it.
LocalEntries == MapThenSumSet(LAMBDA t : Cardinality(DOMAIN local[t]), Threads)
-----------------------------------------------------------------------------
\* The first thing a call does is to make a LocalTablePartitioner, which asserts that
\* there is more than one partition: with one thread, every call panics.
FirstStep == IF TablePartitions > 1 THEN "accumulate" ELSE "refused"

ConcurrentInit ==
  /\ BuilderInit(FirstStep)
  /\ overflow = Unallocated
  /\ tracker = None
  /\ local = [t \in Threads |-> <<>>]
  /\ regions = [t \in Threads |-> {}]
  /\ shared = <<>>
  /\ claimant = None
  /\ counts = Unallocated
  /\ arrived = <<{}, {}>>
  /\ table = Unallocated
  /\ plan = [t \in Threads |-> [writes |-> <<>>, stuck |-> FALSE]]
  /\ writers = Unallocated

LockTracker(t) ==
  /\ pc[t] = "accumulate" /\ waiting[t] # <<>> /\ tracker = None
  /\ tracker' = t
  /\ GoTo(t, "allocate")
  /\ UNCHANGED <<design, waiting, rows, overflow, local, regions, shared, claimant,
                 counts, arrived, table, plan, writers>>

\* locally_accumulate_input: the first row of a hash is the tail of its chain, the
\* last the head; the buffer links every other row to the one before it.
Places(batch, hash) == {n \in DOMAIN batch : batch[n] = hash}
AccumulatedEntries(entries, offset, batch) ==
  [hash \in DOMAIN entries \cup ToSet(batch) |->
    [head |-> IF hash \in ToSet(batch) THEN offset + Max(Places(batch, hash)) ELSE entries[hash].head,
     tail |-> IF hash \in DOMAIN entries THEN entries[hash].tail ELSE offset + Min(Places(batch, hash))]]
AccumulatedOverflow(entries, offset, batch) ==
  [n \in DOMAIN batch |->
    LET earlier == {m \in Places(batch, batch[n]) : m < n}
    IN IF earlier # {} THEN offset + Max(earlier)
       ELSE IF batch[n] \in DOMAIN entries THEN entries[batch[n]].head ELSE 0]

\* GlobalIndexTracker::allocate, and the batch into the local tables.
AllocateBatch(t) ==
  LET batch == Head(waiting[t])
  IN /\ pc[t] = "allocate"
     /\ rows' = rows \o batch
     /\ waiting' = [waiting EXCEPT ![t] = Tail(@)]
     /\ tracker' = None
     /\ local' = [local EXCEPT ![t] = AccumulatedEntries(@, Offset, batch)]
     /\ regions' = [regions EXCEPT ![t] = @ \cup
          {[offset |-> Offset, buffer |-> AccumulatedOverflow(local[t], Offset, batch)]}]
     /\ GoTo(t, "accumulate")
     /\ UNCHANGED <<design, overflow, shared, claimant, counts, arrived, table, plan, writers>>

\* share_tables: send, and drop the sender ...
SendTables(t) ==
  /\ pc[t] = "accumulate" /\ waiting[t] = <<>>
  /\ shared' = Append(shared, t)
  /\ GoTo(t, "collect")
  /\ UNCHANGED <<design, waiting, rows, overflow, tracker, local, regions, claimant,
                 counts, arrived, table, plan, writers>>

\* Mutant of CollectTables: it goes on with the tables sent so far.
CollectTablesSent(t) ==
  /\ pc[t] = "collect" /\ shared # <<>>
  /\ GoTo(t, "overflow")
  /\ UNCHANGED <<design, waiting, rows, overflow, partitionedVars>>

\* ... and receive until the channel is closed: every sender has been dropped.
CollectTables(t) ==
  /\ pc[t] = "collect" /\ ToSet(shared) = Threads
  /\ GoTo(t, "overflow")
  /\ UNCHANGED <<design, waiting, rows, overflow, partitionedVars>>

\* allocate_global_overflow_buffer: the first to claim the sender allocates; it
\* expects nobody to hold the tracker.
AllocateOverflow(t) ==
  /\ pc[t] = "overflow" /\ overflow = Unallocated
  /\ \/ /\ tracker = None
        /\ overflow' = ZeroBuffer(Offset + 1)
        /\ GoTo(t, "copy")
     \/ /\ tracker # None
        /\ GoTo(t, "panicked")
        /\ UNCHANGED overflow
  /\ UNCHANGED <<design, waiting, rows, partitionedVars>>

ReceiveOverflow(t) ==
  /\ pc[t] = "overflow" /\ overflow # Unallocated
  /\ GoTo(t, "copy")
  /\ UNCHANGED <<design, waiting, rows, overflow, partitionedVars>>

\* write_local_overflow_buffers_to_global_buffer
CopyOverflow(t) ==
  /\ pc[t] = "copy"
  /\ overflow' = [i \in DOMAIN overflow |->
       LET mine == {r \in regions[t] : i - r.offset \in DOMAIN r.buffer}
       IN IF mine = {} THEN overflow[i]
          ELSE LET r == CHOOSE r \in mine : TRUE IN r.buffer[i - r.offset]]
  /\ GoTo(t, "counts")
  /\ UNCHANGED <<design, waiting, rows, partitionedVars>>
-----------------------------------------------------------------------------
\* allocate_shared_bucket_counts: claimed and received in the same way.
AllocateCounts(t) ==
  /\ pc[t] = "counts" /\ counts = Unallocated
  /\ counts' = ZeroBuffer(Max({TablePartitions, CapacityToBuckets(LocalEntries)}))
  /\ GoTo(t, "copied")
  /\ UNCHANGED <<design, waiting, rows, overflow, tracker, local, regions, shared, claimant,
                 arrived, table, plan, writers>>

ReceiveCounts(t) ==
  /\ pc[t] = "counts" /\ counts # Unallocated
  /\ GoTo(t, "copied")
  /\ UNCHANGED <<design, waiting, rows, overflow, partitionedVars>>

\* Mutant of Passed: nobody waits.
PassedAtOnce(barrier) == barrier \in {1, 2}

\* tokio's Barrier lets everybody go when as many have come as there are threads.
Passed(barrier) == Cardinality(arrived[barrier]) = Parallelism

\* tokio's Barrier counts a thread when its wait is first polled, at the await.
Arrive(t, barrier, step) ==
  /\ arrived' = [arrived EXCEPT ![barrier] = @ \cup {t}]
  /\ GoTo(t, step)
  /\ UNCHANGED <<design, waiting, rows, overflow, tracker, local, regions, shared, claimant,
                 counts, table, plan, writers>>
ArriveCopied(t) == pc[t] = "copied" /\ Arrive(t, 1, "merge")

\* The hashes of the partitions a thread owns, and which of the tables sent, in
\* their order, have rows of a hash.
PartOf(hash) == PartitionOf(hash, TablePartitions)
MergedHashes(t) == {hash \in UNION {DOMAIN local[u] : u \in Threads} : PartOf(hash) \in Owned(t)}
Sources(hash) == {n \in DOMAIN shared : hash \in DOMAIN local[shared[n]]}
Chain(hash, n) == local[shared[n]][hash]
MergedHead(hash) == Chain(hash, Max(Sources(hash))).head

\* Mutant of ChainLinks: the new chain is linked at its head.
ChainLinksAtHead(hash) ==
  {[at |-> Chain(hash, n).head, to |-> Chain(hash, Max({m \in Sources(hash) : m < n})).head] :
     n \in Sources(hash) \ {Min(Sources(hash))}}

\* Each further chain of a hash is put before those merged already.
ChainLinks(hash) ==
  {[at |-> Chain(hash, n).tail, to |-> Chain(hash, Max({m \in Sources(hash) : m < n})).head] :
     n \in Sources(hash) \ {Min(Sources(hash))}}

CounterOf(hash) == PartitionOf(hash, Cardinality(DOMAIN counts))

\* merge_owned_partitions_and_update_counts, past the first barrier.
Merge(t) ==
  LET links == UNION {ChainLinks(hash) : hash \in MergedHashes(t)}
  IN /\ pc[t] = "merge" /\ Passed(1)
     /\ overflow' = [i \in DOMAIN overflow |->
          LET here == {l \in links : l.at = i}
          IN IF here = {} THEN overflow[i] ELSE (CHOOSE l \in here : TRUE).to]
     /\ counts' = [c \in DOMAIN counts |->
          counts[c] + Cardinality({hash \in MergedHashes(t) : CounterOf(hash) = c})]
     /\ GoTo(t, "claim")
     /\ UNCHANGED <<design, waiting, rows, tracker, local, regions, shared, claimant, arrived,
                    table, plan, writers>>
-----------------------------------------------------------------------------
\* allocate_destination_table: each tries to claim the senders, and all wait.  A
\* ClaimOnce is a mutex around what can be claimed; claim only tries to lock it.
SendersAreLocked == \E t \in Threads : pc[t] = "claiming"
LockSenders(t) ==
  /\ pc[t] = "claim" /\ ~SendersAreLocked
  /\ GoTo(t, "claiming")
  /\ UNCHANGED <<design, waiting, rows, overflow, partitionedVars>>

\* Who finds it locked takes the senders for claimed, which they need not be yet.
MissSenders(t) ==
  /\ pc[t] = "claim" /\ SendersAreLocked
  /\ GoTo(t, "merged")
  /\ UNCHANGED <<design, waiting, rows, overflow, partitionedVars>>

\* Who has locked it takes what is there, and unlocks it.
TakeSenders(t) ==
  /\ pc[t] = "claiming"
  /\ claimant' = IF claimant = None THEN t ELSE claimant
  /\ GoTo(t, "merged")
  /\ UNCHANGED <<design, waiting, rows, overflow, tracker, local, regions, shared, counts,
                 arrived, table, plan, writers>>

ArriveMerged(t) == pc[t] = "merged" /\ Arrive(t, 2, "destination")

\* The claimant, past the second barrier, adds up the counts.  Without any row it
\* panics: the table it gets has one bucket only.
AllocateDestination(t) ==
  LET total == MapThenSumSet(LAMBDA c : counts[c], DOMAIN counts)
      buckets == CapacityToBuckets(total)
  IN /\ pc[t] = "destination" /\ claimant = t /\ Passed(2)
     /\ \/ /\ total > 0 /\ buckets <= Cardinality(DOMAIN counts)
           /\ table' = [i \in 0..buckets - 1 |-> None]
           /\ writers' = [i \in 0..buckets - 1 |-> {}]
           /\ GoTo(t, "plan")
        \/ /\ total = 0 \/ buckets > Cardinality(DOMAIN counts)
           /\ GoTo(t, "panicked")
           /\ UNCHANGED <<table, writers>>
     /\ UNCHANGED <<design, waiting, rows, overflow, tracker, local, regions, shared, claimant,
                    counts, arrived, plan>>

\* Mutant of ReceiveDestination: it waits on when the sender is gone.
ReceiveDestinationOnly(t) ==
  /\ pc[t] = "destination" /\ claimant # t /\ Passed(2)
  /\ table # Unallocated /\ GoTo(t, "plan")
  /\ UNCHANGED <<design, waiting, rows, overflow, partitionedVars>>

\* The others receive the table, or the news that its sender is gone.
ReceiveDestination(t) ==
  /\ pc[t] = "destination" /\ claimant # t /\ Passed(2)
  /\ \/ table # Unallocated /\ GoTo(t, "plan")
     \/ pc[claimant] = "panicked" /\ GoTo(t, "panicked")
  /\ UNCHANGED <<design, waiting, rows, overflow, partitionedVars>>

\* ProbeSeq, and the first of the lanes it comes past that is not taken yet.
Buckets == Cardinality(DOMAIN table)
GroupStart(hash, n) == (hash + Width * ((n * (n + 1)) \div 2)) % Buckets
ProbedCell(hash, k) == (GroupStart(hash, k \div Lanes) + (k % Lanes)) % Buckets
Untaken(hash, taken) == {k \in 0..Buckets * Lanes - 1 : ProbedCell(hash, k) \notin taken}

\* Probing for one hash after another: the cells found, until one finds none.
\* (`before` is bound through a set to have TLC work it out once.)
WithCell(cells, n, hash) ==
  LET free == Untaken(hash, ToSet(cells))
  IN IF Len(cells) < n - 1 \/ free = {} THEN cells ELSE Append(cells, ProbedCell(hash, Min(free)))
CellsFor(hashes) ==
  LET after[n \in 0..Len(hashes)] ==
        IF n = 0 THEN <<>>
        ELSE CHOOSE cells \in {WithCell(before, n, hashes[n]) : before \in {after[n - 1]}} : TRUE
  IN after[Len(hashes)]

\* Mutant of Pretended: each counter stands for one hash at most.
PretendedOnce(low, high) ==
  FlattenSeq([c \in 1..high - low |->
    [k \in 1..Min({1, counts[low + c - 1]}) |-> MaskedHash(low + c - 1, Cardinality(DOMAIN counts))]])

\* The hashes other threads write, as far as the counters from low to high - 1
\* tell: pretend_to_write_hashes_to_map.
Pretended(low, high) ==
  FlattenSeq([c \in 1..high - low |->
    [k \in 1..counts[low + c - 1] |-> MaskedHash(low + c - 1, Cardinality(DOMAIN counts))]])

Scale == Cardinality(DOMAIN counts) \div TablePartitions
PretendedBelow(t) == Pretended(0, OwnedRange(TablePartitions, t).low * Scale)
PretendedAbove(t) == Pretended(OwnedRange(TablePartitions, t).high * Scale, Cardinality(DOMAIN counts))

\* The hashes of a thread, partition by partition; within one in the order in
\* which its merged table is iterated, which hash bits the model leaves out decide.
Orders(t) == {order \in SetToSeqs(MergedHashes(t)) :
                \A m, n \in DOMAIN order : m < n => PartOf(order[m]) <= PartOf(order[n])}

FewCounters == Cardinality(DOMAIN counts) <= TablePartitions

\* write_to_destination_table: below the owned counters pretend, then write, and
\* above them pretend.
PlanWrites(t) ==
  /\ pc[t] = "plan" /\ ~FewCounters
  /\ \E order \in Orders(t), below \in {PretendedBelow(t)}, above \in {PretendedAbove(t)} :
     \E cells \in {CellsFor(below \o order \o above)} :
       LET mine == {n \in DOMAIN order : Len(below) + n <= Len(cells)}
       IN plan' = [plan EXCEPT ![t] =
            [writes |-> [n \in mine |-> [cell |-> cells[Len(below) + n],
                                         row |-> [hash |-> order[n], head |-> MergedHead(order[n])]]],
             stuck |-> Len(cells) < Len(below) + Len(order) + Len(above)]]
  /\ GoTo(t, "write")
  /\ UNCHANGED <<design, waiting, rows, overflow, tracker, local, regions, shared, claimant,
                 counts, arrived, table, writers>>

\* The assertion that there are more counters than partitions.
PanicFewCounters(t) ==
  /\ pc[t] = "plan" /\ FewCounters
  /\ GoTo(t, "panicked")
  /\ UNCHANGED <<design, waiting, rows, overflow, partitionedVars>>

\* actually_write_hashes_to_map, insert_directly: without a look at the cell.
WriteCell(t) ==
  /\ pc[t] = "write" /\ plan[t].writes # <<>>
  /\ LET write == Head(plan[t].writes)
     IN /\ table' = [table EXCEPT ![write.cell] = write.row]
        /\ writers' = [writers EXCEPT ![write.cell] = @ \cup {t}]
  /\ plan' = [plan EXCEPT ![t].writes = Tail(@)]
  /\ UNCHANGED <<design, pc, waiting, rows, overflow, tracker, local, regions, shared, claimant,
                 counts, arrived>>

\* A thread that finds no free cell goes on looking for one.
Return(t) ==
  /\ pc[t] = "write" /\ plan[t].writes = <<>>
  /\ GoTo(t, IF plan[t].stuck THEN "spinning" ELSE "done")
  /\ UNCHANGED <<design, waiting, rows, overflow, partitionedVars>>

ConcurrentStep(t) ==
  \/ LockTracker(t) \/ AllocateBatch(t) \/ SendTables(t) \/ CollectTables(t)
  \/ AllocateOverflow(t) \/ ReceiveOverflow(t) \/ CopyOverflow(t)
  \/ AllocateCounts(t) \/ ReceiveCounts(t) \/ ArriveCopied(t) \/ Merge(t)
  \/ LockSenders(t) \/ MissSenders(t) \/ TakeSenders(t)
  \/ ArriveMerged(t) \/ AllocateDestination(t) \/ ReceiveDestination(t)
  \/ PlanWrites(t) \/ PanicFewCounters(t) \/ WriteCell(t) \/ Return(t)

\* Where a thread may be once it has merged.
PastMerge == {"claim", "claiming", "merged", "destination", "plan", "write", "spinning", "done"}

ConcurrentNext == \E t \in Threads : ConcurrentStep(t)
ConcurrentSpec == ConcurrentInit /\ [][ConcurrentNext]_concurrentVars
-----------------------------------------------------------------------------
\* Lookup::get.  find looks at a window of Width cells at a time and stops at one
\* with an empty cell; a table smaller than a window shows one at once.
Window(hash, n) == {(GroupStart(hash, n) + k) % Buckets : k \in 0..Width - 1}
Stops(hash, n) == Buckets < Width \/ \E i \in Window(hash, n) : table[i] = None
Found(hash) == {i \in DOMAIN table :
  /\ table[i] # None /\ table[i].hash = hash
  /\ \E n \in 0..Buckets - 1 : /\ i \in Window(hash, n)
                               /\ \A m \in 0..n - 1 : ~Stops(hash, m)}
LookedUp(hash) == UNION {ChainOf(table[i].head) : i \in Found(hash)}
-----------------------------------------------------------------------------
\* Not too many hashes start their probe close together: in the table that holds
\* them, any stretch of buckets at least as long as the lanes filled of a group
\* has no more hashes that start in it than buckets.  Nothing in the code sees to it.
HashesOf(batches) == UNION {ToSet(batch) : batch \in UNION {ToSet(batches[t]) : t \in Threads}}
Uncrowded(hashes) ==
  LET buckets == CapacityToBuckets(Cardinality(hashes))
  IN \A p \in 0..buckets - 1, m \in Min({Lanes, buckets})..buckets :
       Cardinality({hash \in hashes : (p - hash) % buckets < m}) <= m
UncrowdedInputs == \A input \in Inputs : Uncrowded(HashesOf(input))
-----------------------------------------------------------------------------
\* Local overflow buffers are copied to parts of the overflow buffer that overlap
\* with no other thread's, "thanks to the global offset tracker", and lie within it.
BuffersAreDisjoint ==
  /\ \A t, u \in DOMAIN regions : \A r \in regions[t], s \in regions[u] :
       <<t, r>> = <<u, s>> \/ r.offset + Len(r.buffer) <= s.offset
                           \/ s.offset + Len(s.buffer) <= r.offset
  /\ \A t \in DOMAIN regions : \A r \in regions[t] : r.offset + Len(r.buffer) <= Offset
  /\ overflow # Unallocated => DOMAIN overflow = 0..Offset

\* The phases do not overlap: no local buffer is copied once a thread has merged
\* and may have linked chains in the overflow buffer, and the counters and chains
\* are not written any more once the destination is allocated from them.
PhasesAreSeparated ==
  [][/\ \A t, u \in Threads : pc[t] = "copy" /\ pc'[t] # "copy" => pc[u] \notin PastMerge
     /\ table # Unallocated => UNCHANGED <<counts, overflow>>]_concurrentVars

\* The destination is allocated from counts to which every thread has added its
\* own: together they count every hash once, and no more than there are counters.
CountsAreComplete ==
  table # Unallocated =>
    /\ MapThenSumSet(LAMBDA c : counts[c], DOMAIN counts) = Cardinality(ToSet(rows))
    /\ Buckets <= Cardinality(DOMAIN counts)

\* Where a call may have panicked: before its first batch, or later.
Panicked == {"refused", "panicked"}

\* A call panics only when the builder is for one thread, or when all threads
\* together have fewer hashes than there are partitions: in particular nobody holds
\* the tracker when it is expected to be free.
PanicsOnFewHashes ==
  (\E t \in Threads : pc[t] \in Panicked) =>
    Parallelism = 1 \/ Cardinality(ToSet(rows)) < TablePartitions

\* No two threads write one bucket of the destination, each through a mutable
\* reference of its own: the occupied cells each works out for the others are
\* those the others fill, "avoiding any possibility of races between threads".
OneWriterPerBucket == \A i \in DOMAIN writers : Cardinality(writers[i]) <= 1

\* What the tests assert of a lookup once every call of run has returned: each
\* row is among the answers for its hash.
RowsAreFound ==
  (\A t \in Threads : pc[t] = "done") =>
    \A n \in DOMAIN rows : n - 1 \in LookedUp(rows[n])
=============================================================================
