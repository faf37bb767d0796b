# Verification of the hash tables of this repository

The repository is a fork of `hashbrown` 0.15.2 (`src/src`) with a second crate, `hashjoin`
(`src/hashjoin`), which builds the table of a hash join from many threads. This directory holds
TLA+ modules of the parts that are hard to get right, TLC configurations that check them on small
instances, and proofs, checked with TLAPS, for instances of any size.

Paths below are relative to the root of the repository as the modules see it (`src/...`).
`PROJECT.json` maps every definition to the lines it stands for.

## 1. Inventory

### hashjoin, `new_map_3`: the lock-free build table

The newest design, with tests and a benchmark binary (`hashjoin/bin/build_new_map_3.rs`). Three
layers:

| part | state | operations |
|---|---|---|
| growth (`new_map_3.rs`) | `SharedTableBuilder`: `current_table` (an atomic pointer), `full_tables` (a `Mutex<Vec>`), `migration_state` (an `AtomicU64` packing a generation and a claimed flag); per handle: `current_table_cache`, `total_writes` | `WriteOnlyTable::insert`, `create_new_table`, `migrate_table`, `claim_migration_relaxed`, `complete_migration` |
| compaction (`new_map_3.rs`, `new_map_2/write_notify_cell.rs`) | `Arc<SharedTableBuilder>`, `total_size_during_compaction`, two `WriteNotifyCell`s, `Arc<Compactor>` with `next_table_counter`, the destination table | `WriteOnlyTable::compact`, dropping a handle, `WriteNotifyCell::write`, `ReadNotifyCell::read` and its drop |
| fixed table (`fixed_table.rs`, `probe_sequence.rs`, `group.rs`) | tag bytes with a mirrored group, a stored hash and a value per cell, all atomics used `Relaxed` | `insert_atomically`, `get`, `entries`, bulk lookups |

Threads clone a `WriteOnlyTable` handle, insert batches and each call `compact`. Handles share
the builder through an `Arc`; a full table is replaced by one thread (compare-exchange on
`migration_state`) while the others spin on `current_table`. `compact` elects with
`Arc::into_inner`: the last holder of the builder prepares a `Compactor` and hands it to the others
through a notify cell, all copy source tables into the destination, and the last holder of the
`Arc<Compactor>` publishes the destination through the second cell.

Hard: everything about it. Relaxed loads, threads between the swap of a pointer and the update of
what describes it, elections by reference count, cells that must give up an `Arc` in time, tables
iterated while sized by a count kept by racing threads.

Correct means: one migrator at a time; a table is replaced only when full, never lost, never freed
twice; every insert and every `compact` returns; the published table holds every hash inserted; one
cell per hash; `Err` of an insert only from a table without room; `get` finds what was inserted.

### hashbrown, the raw table and its two copies

`src/raw/mod.rs` (triangular probing), `raw_table_double_hash.rs` (the stride comes from the tag)
and `raw_table_extra_bit.rs` (the same with an 8-bit tag, `control_extra`). State: bucket mask,
control bytes, buckets, `items`, `growth_left`. Operations: insert, find-or-insert, erase, reserve,
resize, `rehash_in_place`, shrink, clear, iteration, drain, clone, `replace_bucket_with`. One owner
at a time.

Hard: long sequences of legal calls, and calls that run the caller's code half way. `erase` must not leave an EMPTY byte where a probe has come
past; every probe must meet an EMPTY byte; tables smaller than a group have their own rules;
`rehash_in_place` moves elements through each other and calls a hash function that may panic. An
iterator remembers a group of control bytes and a count while elements are erased behind it; a clone
copies all control bytes before it has any element.

Correct means: every element is found, every search ends, the counts agree with the bytes, and to
its caller the table is a bag of elements.

### hashjoin, the other builders

A builder takes batches of hashes from several threads, each of which calls `run` once, and gives
all of them a lookup from a hash to the indices of its rows. Rows of one hash are chained through an
overflow buffer.

| builder | state | operations |
|---|---|---|
| `builder/attempt3.rs`, `ConcurrentBuilder` | `GlobalIndexTracker` behind a mutex; per thread local tables and overflow buffers; `ClaimOnce` senders; the shared overflow buffer, bucket counts and destination table in `UnsafeCell`s; two barriers | `locally_accumulate_input`, `share_tables`, `allocate_global_overflow_buffer`, `write_local_overflow_buffers_to_global_buffer`, `allocate_shared_bucket_counts`, `merge_owned_partitions_and_update_counts`, `allocate_destination_table`, `write_to_destination_table` |
| `mutex_map_builder.rs` | one map and overflow buffer behind a lock, shared by an `Arc` | take a batch, insert a row, drop the `Arc` |
| `dash_map_builder.rs`, `leapfrog_builder.rs` | a concurrent map of another crate, an overflow buffer written a batch at a time | the same |

Hard: in `ConcurrentBuilder` threads partition their hashes, replay each other's bucket counts and
so write one destination without locks; the phases are held apart by channels that close and by
barriers; a thread that panics may leave others waiting; a `try_lock` counts a mutex that is busy as
claimed. In the others, the last to drop the `Arc` has to publish.

Correct means: indices are handed out once; no bucket is written by two threads, no part of the
overflow buffer either; every row is in the chain of its hash; every call ends.

* `new_map_2`: the predecessor of `new_map_3`, the same growth with another fixed table. Only its
  `WriteNotifyCell`, which `new_map_3` uses, is modelled.
* `builder/histogram_local_accumulate.rs`: one thread, no caller. `attempt2.rs`, `build_me.rs`,
  `histogram_merger.rs`, `new_map/new_map.rs`: commented out. Not modelled.

### The rest of hashbrown

`map.rs`, `set.rs`, `table.rs`, the entry types, serde and rayon adapters: typed layers without
state of their own; what they rely on is `ElementBag`. Their calls that hold on to a place in the
table between two steps (`retain`, `extract_if`, `drain`, an entry vacated and filled again) are
actions of `TableCalls`. The vector code of the group backends is
taken as set operations on control bytes. Benches, tests and CI are not modelled.

## 2. Modules

| module | models | extends / instantiates |
|---|---|---|
| `TableGrowth` | insert and growth of `new_map_3` | |
| `SharedTableBuilder` | the whole life of the build table: growth, compaction, publication | EXTENDS `TableGrowth` |
| `AtomicTable` | what a fixed table promises: insert is one atomic exchange | |
| `FixedTable` | `insert_atomically` step by step, `get`, `get_in_bulk` and `entries` at rest | INSTANCE `AtomicTable` |
| `ElementBag` | what a raw table promises: a bag of elements | |
| `RawTable` | the raw table in its variants | INSTANCE `ElementBag` |
| `TableCalls` | calls on the raw table that run the caller's code half way | EXTENDS `RawTable` |
| `JoinIndex` | what a builder promises: every row gets an index, every lookup finds the rows of its hash | |
| `JoinBuilder` | what the builders have in common: batches, indices, chains | |
| `ConcurrentBuilder` | `ConcurrentBuilder::run` of every thread | EXTENDS `JoinBuilder` |
| `LockedBuilder` | the builders around one map | EXTENDS `JoinBuilder` |
| `JoinBuilders` | all of them, against `JoinIndex` | EXTENDS both, INSTANCE `JoinIndex` |
| `TableGrowthProofs`, `SharedTableBuilderProofs`, `ConcurrentBuilderProofs` | theorems | EXTEND the module they are about |
| `JoinBuildersProofs` | theorems about all builders: the refinement of `JoinIndex` | EXTENDS `JoinBuilders`, `ConcurrentIndexProofs` |
| `FixedTableProofs` | theorems about `FixedTable`: the writes, the search and what readers find; the refinement | EXTENDS `FixedTable`, `NumberLemmas` |
| `ConcurrentIndexProofs` | theorems about the cells that `ConcurrentBuilder` gives to hashes, and what a lookup finds in them | EXTENDS `ConcurrentBuilderProofs` |
| `RawTableProofs` | theorems about `RawTable` and `TableCalls` | EXTENDS `TableCalls`, `NumberLemmas` |
| `NumberLemmas` | arithmetic the proofs share: powers of two, remainders, bits, the strides of the probe sequences, and which places of a ring keys take that probe one place after the other | |
| `MC*` | constants for TLC | EXTEND the module they check |

`TableGrowth` and `SharedTableBuilder` take the insert into one `WritableFixedTable` as atomic:
it puts a row, displaces the row of the same hash, or fails because the table is full. That is what
`AtomicTable` states and `FixedTable` implements, which is proved for machines that do not read a
hash late (section 6; what late ones do, and a claimer that panics, are findings 4 and 3).

### TableGrowth

* A raw pointer `*mut InnerTable` is the index of the table in the order of allocation
  (`tables`, `entries`). Comparing pointers for age is then comparing numbers.
* `currentTable`, `fullTables`, `migrationState` are the fields of `SharedTableBuilder`; the packed
  `u64` is a record. `pc`, `row`, `target`, `replaced`, `fresh` are where a thread is inside
  `insert` and its locals there; `cache` and `writes` are the fields of its handle.
* One action per atomic access that another thread can come between: `InsertCached` and `MissCache`
  (the cached table), `LoadCurrent`, `InsertTarget` / `FindFull`, `ClaimMigration` / `LoseClaim`
  (the compare-exchange; `PreviousInProgress` is a spin, so neither is enabled), `SwapTable`,
  `CompleteMigration` (or its panic), `PushFull`, `WaitForTable`.
* A `Relaxed` load of `current_table` may return any pointer the variable has held, but not one
  older than this thread has seen: `\E p \in target[t] .. currentTable`.
* Capacities are rounded as `with_capacity` does, in `CapacityBits` bits, where
  `next_power_of_two` gives 0 on overflow.

### SharedTableBuilder

* An `Arc` is the set of those that hold it (`writers`, `holders`); `Arc::into_inner` succeeds for
  the one that holds it alone. A `WriteNotifyCell` keeps its value, and the `Arc<Compactor>` in
  it, while a reader of it is alive: `cellReaders`.
* `phase` is where a thread is inside `compact`: `AddSize`, `ReleaseHandle` (the first election),
  `SetUp` (step 1, by the last writer), `ReadCompactor` and `DropReader` (the others),
  `TakeSource`, `CopyPair`, `SourceCopied` (step 2), `Finish` (step 3, the second election),
  `ReadResult`. `DropHandle` is a clone that goes out of scope.
* `Yields` is `entries` of a source table. Its iterator is right for a full table and for a table
  of one group; for any other it may pass over pairs and make up pairs of empty cells.
* Clones are taken of fresh handles, as the tests and benches do; the values inserted are never
  `V::default()`.

### FixedTable

* `tags`, `hashes`, `values` are the three arrays; the tags have a mirrored group.
* `Probe` is `load_tags_atomically` with the search for the tag; a tag byte that was stored may be
  read as EMPTY until the thread has seen it (`seen`). `ClaimCell` is the compare-exchange on the
  hash with its three outcomes, `SwapMatch` the swap of a match or of a late duplicate, `SwapOwn`,
  `StoreTag`, `StoreMirror` what the claimer does, `NextGroup` and `GiveUp` the end of a group.
* `Stops`, `FoundCells` are `get`, `BulkStops`, `BulkFoundCells` are `get_in_bulk`, which does not ask
  whether its first group has an empty cell; `Iterated` is the iterator of `entries`. They are read
  on a table at rest. The other lookups (`get_const_lookup`, `get_with_stats` and the further bulk
  ones) are the loop of `get` written again.
* A hash is an abstract value with a tag and a start. Bit 63, which the stored hash drops, is not
  told apart (see the hazards).
* `StaleHashLoads` says whether a hash may be read as 0 after its tag was seen. Nothing in the
  code orders these two `Relaxed` loads, so TRUE is what the memory model allows; FALSE is an
  in-order machine. The passing run takes FALSE, the run `stale_hash` shows what TRUE leads to.

### RawTable

* `table` is `RawTableInner`; an element is its hash, a record of the low bits and the top byte.
  Elements of one hash are not told apart, so an element equal to a given one is in a given bucket.
* `build` is the variant: group width, probing, encoding of control bytes, whether elements need
  drop, whether the hash function panics. It is chosen initially and never changes.
* A call is one step unless it rehashes in place; then `rehashing` holds and every iteration of the
  inner loop is a step (`Stay`, `Move`, `Swap`), so that `HasherPanics` can come in between, and
  `EndRehash` recounts and finishes the insert that asked for room. A panic of the hash function in
  `resize_inner` changes nothing (the guard drops the new table) and is a stutter.
* `Converted` is the vector operation at the start of a rehash, on the constants it really has.

### TableCalls

* `call` is the call under way, `NoCall` when there is none (`Whole` is then a step of `RawTable`).
  The caller's code runs between two steps, so each of them may be the last: the caller stops, panics
  or forgets what it holds.
* `BeginIteration`, `Keep`, `EraseYielded`, `EndIteration` are `iter`, `retain` and `extract_if`.
  `AtGroup` is `RawIterRange::next_impl`, with no check for the end; the count of `RawIter` alone
  stops it.
* `BeginDrain` .. `ForgetDrain`: the table is moved into the drain, its drop moves it back cleared.
* `BeginClone` .. `ClonePanics`: `index` is the guard's field, `Unwound` what the guard drops.
* `BeginReplace`, `PutBack`, `LeaveOut` are `replace_bucket_with`; `Vacate`, `Refill`, `DropVacant` an
  `OccupiedEntry` that is removed and the `VacantEntry` it leaves.
* `HashIterReturns` is `RawIterHash`, whose state is a function of the table.

### JoinBuilder, ConcurrentBuilder, LockedBuilder

* `rows` is the hash of each index handed out; its length is both the `GlobalIndexTracker` and the
  length of the locked builders' overflow buffer. A row is stored as its index plus one, 0 ends a
  chain, as in the code.
* `ConcurrentBuilder` has one action per message, lock, barrier or shared write: `LockTracker`,
  `AllocateBatch`, `SendTables`, `CollectTables` (the channel is closed when every sender is
  dropped), `AllocateOverflow` / `ReceiveOverflow`, `CopyOverflow`, `AllocateCounts` /
  `ReceiveCounts`, `ArriveCopied`, `Merge`, `LockSenders` / `MissSenders`, `TakeSenders`,
  `ArriveMerged`, `AllocateDestination` / `ReceiveDestination`, `PlanWrites` / `PanicFewCounters`, `WriteCell`,
  `Return`.
* A call begins at `FirstStep`: `LocalTablePartitioner::new` asserts more than one partition
  (`attempt3.rs:65`), and a builder for one thread has one, so each of its calls ends there
  (`"refused"`).
* `claim` of a `ClaimOnce` locks with `try_lock`, takes what is there and unlocks. For the
  senders of the destination, claimed before the second barrier and used after it, these are steps:
  one thread has the lock (`LockSenders`), those that come meanwhile take the senders for claimed
  although nobody has them yet (`MissSenders`), and the first to look has them (`TakeSenders`,
  `claimant`). The senders of the overflow buffer and of the counters are claimed and sent on without
  waiting for anything between; who misses them and who comes late wait for the same message, so
  they are one variable that is allocated or not.
* tokio's `Barrier::wait` counts a thread when it is first polled, that is at the `.await`, after
  the work between, and not where it is called. "Signal ... but don't wait" (`attempt3.rs:807`,
  `850`) is not what happens; it only costs waiting.
* `PlanWrites` works out all cells of a thread from the counters, which do not change any more;
  `WriteCell` writes one of them. The order of a thread's own hashes within a partition is that of
  iterating its merged table and depends on bits of the hash the model leaves out: any order.
* `Width` is `Group::WIDTH`, `Lanes` the 8 cells of a group the builder fills.
* A hash is a number, since partition, counter and place are taken from its bits.
* The model is of the release build.
* `LockedBuilder`: the maps of `DashMapBuilder` and `LeapfrogBuilder` differ, what they do with them
  does not, so they are one design `"sharded"`; `MutexMapBuilder` is `"mutex"`. A map of another
  crate is a function whose insert hands back the previous value.
* `JoinBuilders` runs one `design`, chosen initially.

## 3. Runs

| run | expect | what it asks |
|---|---|---|
| `shared_builder` | pass | every interleaving of insert, growth and compaction: the inductive invariants, one election each, nothing left behind, a complete result, `insert` and `compact` return |
| `fixed_table` | pass | is the lock-free insert an atomic exchange, and do `get`, `get_in_bulk` and `entries` see what was inserted |
| `raw_table` | pass | do all sequences of calls, stopped anywhere, keep elements findable, searches finite and counts right; is the table a bag; do iterators return each element once |
| `join_builders` | pass | does every builder give every row to every lookup of its hash, and does every call of `run` end |
| `dropped_handle` | violation | does every `compact` return although a clone is dropped last |
| `partial_source` | violation | is every inserted row in the published table |
| `late_duplicate` | violation | is the value of a claimed cell always the default |
| `stale_hash` | violation | is a cell whose hash was read late tried again |
| `hasher_panic` | violation | is the table cleaned up after a panic of the hash function |
| `extra_bit` | violation | are the elements of the extra-bit copy found after `rehash_in_place` |
| `builder_race` | violation | is every bucket of `ConcurrentBuilder` written by one thread when many hashes start at one place |
| `builder_groups` | violation | are rows found whose hash did not fit the cells the builder fills of a group |

### Properties of the passing runs

* `shared_builder`: `GrowthInv`, `OneMigrator` (the migration state is a lock and
  `complete_migration` never panics), `OwnedOnce` (every table but the current one is in
  `full_tables` or in the hands of one thread), `GrowsFromNewest` (generations and previous
  capacities have no gap), `ReplacedOnlyFull`, `EveryInsertReturns`; `BuilderInv`; `WritesCounted`
  (the sum that decides whether the current table is large enough is the number of cells written);
  `NoTableLeftBehind` (when the last handle takes the builder apart each table is the destination or
  a source, once); `UnwrapHolds`, `PublishedIsComplete` (both for compactions whose sources come out
  whole); `NoInsertAfterSetUp` and `PublishedIsReadOnly` (action properties); `CompactReturns`.
* `fixed_table`: `ImplementsAtomicTable` (refinement), `TagsShowWrittenCells` (a tag in memory, in
  the middle of any inserts, shows a cell with hash and value), `EveryHashReadable` (`get` finds the
  one cell of every hash, through the tag or its mirror), `GetReturnsUnlessFull` (the search comes
  past every cell), `BulkAgreesWithGet` (`get_in_bulk`, which searches on past the end of a chain,
  returns and finds what `get` does), `IteratesWholeTables`, `TypeOK`.
* `raw_table`: `ElementsAreFound` (in every state of a rehash too), `SearchesEnd`,
  `GrowthIsAccounted`, `MirrorAgrees`, `SmallTablesHaveNoTombstones`, `ItemsCountFullBuckets`,
  `IterationIsExact` (what is left to an iterator is what it has not returned, whatever was erased),
  `HashIterationIsExact` (no window shows a bucket twice), `UnwindDropsCloned` (a clone that panics
  drops the elements cloned and no other), `ImplementsElementBag`, `RehashEnds`, `TypeOK`.
* `join_builders`: `ImplementsJoinIndex` (refinement: the answer for a hash is the set of the indices
  of its rows), `OneWriterPerBucket`, `BuffersAreDisjoint`, `CountsAreComplete`, `PanicsOnFewHashes`
  (a call panics for one thread, or for fewer hashes than partitions, and for nothing else),
  `PhasesAreSeparated` (action property), `EveryRunEnds`.

Every property of a passing run has a mutant in `PROJECT.json`: a change of one definition that a
plausible bug would make (a dropped check of the claimed flag, a forgotten source table, a mirror
computed without the mask, an off-by-one in `erase`), under which TLC finds the property violated.
The mutated forms stand in the modules just before the definition they change.

## 4. Bounds, and why they are enough

* `shared_builder`: 3 threads and one spare handle, 4 rows, two of them of one hash in different
  batches. The first table has one cell and is full at once, so all threads meet at the migration:
  one migrates, one loses the claim, one comes late with an old pointer, and pointers two generations
  old exist. Both forms of `SetUp` occur (reuse of the current table and a new destination), each with
  two sources for the three threads to race for, and the spare handle goes before, between and
  after the others. 29,856 states.
* `fixed_table`: 3 threads, 6 rows of 5 hashes, 4 cells in 2 groups. Five hashes for four cells
  make some insert be refused; two rows share a hash in two threads; two hashes share a tag; starts
  at the last cell make the window wrap into the mirror, and starts that are not a multiple of the
  group make the windows overlap. 954,565 states.
* `raw_table`: at most 5 elements of two hashes, 1 to 16 buckets, reservations up to 8. Widths 4
  and 8, so that tables smaller than, equal to and larger than a group occur; triangular and
  double hashing; 181,848 states, the calls of `TableCalls` in every state of the table among them.
  The two hashes probe from starts that let each be pushed into the windows of the other, so that
  `rehash_in_place` does swap two different elements. `MaxItems`, `MaxBuckets` and `MaxReserve` are
  the only bounds; the protocol models need none as their batches are finite.
* `join_builders`: 3 threads, so that the number of partitions (4) is no multiple of the threads;
  four inputs: one hash in all threads next to hashes of every partition; two batches of a thread,
  two hashes that start at one place in a partition each, and a thread without rows; fewer hashes
  than partitions; none. 87,768 states. Every group the builder fills is whole here
  (`Lanes = Width`), as with groups of 8. **None of the inputs is crowded**: for crowded ones
  `OneWriterPerBucket` and the refinement are false, see findings 7 and 8. No run has one thread, as
  a call would end with its first step.
* `builder_race`, `builder_groups`: 2 threads, `Width = 4` and `Lanes = 2` for the 16 bytes of an
  SSE2 group of which the builder fills 8. Five hashes in one row of probes (of 16 buckets) and three
  (of 8) are the least that overflow a group.

Deadlock is checked in `fixed_table`, `partial_source`, `late_duplicate`, `stale_hash` and
`raw_table`. It is not in `shared_builder` and `dropped_handle`, where the system does stop (the
readers of a cell that nobody will write), nor in the runs of `JoinBuilders`, where it stops when all
calls have returned (that they do is `EveryRunEnds`), nor in `hasher_panic` and `extra_bit`, which
look for a bad state only.

## 5. Fairness

* `GrowthSpec`, `BuilderSpec`: weak fairness of every thread's step. These are OS threads that spin
  or block and are scheduled; nothing stronger is assumed: a thread may lose every race as long as
  it loses only finitely many, which holds since batches are finite. The drop of a spare handle is
  fair too: a clone that is never dropped keeps everyone waiting by design.
* `RawTable`: weak fairness of `RehashStep` only. A call that has begun runs on; the owner is free
  to stop calling. `HasherPanics` is not fair.
* `JoinBuilders`: weak fairness of `Next`: as long as some task can go on, the runtime polls one that
  can. Every run is finite, so nothing is needed of a single task.
* `FixedTable` has no fairness and no liveness property.

## 6. Proofs

Each theorem is for all values of the constants that the assumptions at the end of the list and the
hypotheses marked allow: any number of threads, any rows, hashes and batches, any capacities. (A
`ConcurrentBuilder` for one thread is among them, but all its calls panic at once.)

**Seven of the theorems, those marked (\*\*\*\*\*), are about inputs that are not crowded, and nothing in
the code keeps inputs from being crowded.** Under that hypothesis `ConcurrentBuilder` is shown to be
right; without it, it can go wrong (findings 7 and 8). This is no remote case: of randomly drawn sets of
10 hashes nine in ten were not crowded, of sets of 28 or more none was (8 lanes, 300 draws each). The
hashes of the repository's tests, consecutive numbers, meet the hypothesis; random ones, such as the
benches make, as a rule do not. The theorems about its phases, buffers, counts, links and panics, and
those about the other builders, do not have the hypothesis.


| theorem | statement |
|---|---|
| `GrowthInvariant` | `GrowthSpec => []GrowthInv` |
| `MigrationIsExclusive` | `GrowthSpec => []OneMigrator` |
| `TablesOwnedOnce` | `GrowthSpec => []OwnedOnce` |
| `GrowthFromNewest` | `GrowthSpec => []GrowsFromNewest` |
| `OnlyFullReplaced` | `GrowthSpec => []ReplacedOnlyFull` |
| `BuilderInvariant` | `BuilderSpec => []BuilderInv` |
| `CompactionFindsEveryTable` | `BuilderSpec => []NoTableLeftBehind` |
| `TablesFrozenAfterSetUp` | `BuilderSpec => NoInsertAfterSetUp` |
| `NobodyWritesThePublished` | `BuilderSpec => PublishedIsReadOnly` |
| `WritesAreCounted` | `BuilderSpec => []WritesCounted` |
| `DestinationFits` | `BuilderSpec => []UnwrapHolds` (\*\*) |
| `EveryHashIsPublished` | `BuilderSpec => []PublishedIsComplete` (\*\*) |
| `TableInvariant` | `FixedTable!Spec => []TableInv` |
| `TypesHold` | `FixedTable!Spec => []TypeOK` |
| `TagsNeverLead` | `FixedTable!Spec => []TagsShowWrittenCells` |
| `ProbeInvariant` | `FixedTable!Spec => []ProbeInv` (\*) |
| `OneCellPerHash` | `FixedTable!Spec => []NoDuplicateHash` (\*) |
| `GetFindsInserted` | `FixedTable!Spec => []EveryHashReadable` (\*) |
| `EntriesYieldWholeTables` | `FixedTable!Spec => []IteratesWholeTables` |
| `GetReturnsUnlessTableFull` | `FixedTable!Spec => []GetReturnsUnlessFull` |
| `BulkFindsWhatGetFinds` | `FixedTable!Spec => []BulkAgreesWithGet` (\*) |
| `InsertIsAtomic` | `FixedTable!Spec => ImplementsAtomicTable` (\*) |
| `ControlInvariant` | `ConcurrentSpec => []ControlInv` |
| `TrackerFreeForOverflow` | `ConcurrentSpec => []TrackerIsFree` |
| `BuffersDisjoint` | `ConcurrentSpec => []BuffersAreDisjoint` |
| `SeparatePhases` | `ConcurrentSpec => PhasesAreSeparated` |
| `EveryPartitionHasOneOwner` | each of any number of partitions is in the range of one thread |
| `HashesHaveOneOwner` | no hash is merged by two threads |
| `CountsInvariant` | `ConcurrentSpec => []CountsInv` (\*\*\*\*) |
| `CompleteCounts` | `ConcurrentSpec => []CountsAreComplete` (\*\*\*\*) |
| `PanicMeansFewHashes` | `ConcurrentSpec => []PanicsOnFewHashes` (\*\*\*\*) |
| `LocalInvariant` | `ConcurrentSpec => []LocalInv` (\*\*\*\*) |
| `LinkInvariant` | `ConcurrentSpec => []LinkInv` (\*\*\*\*) |
| `PlanInvariant` | `ConcurrentSpec => []PlanInv` (\*\*\*\*\*) |
| `OneWriter` | `ConcurrentSpec => []OneWriterPerBucket` (\*\*\*\*\*) |
| `PlacedInvariant` | `ConcurrentSpec => []PlacedInv` (\*\*\*\*\*) |
| `EveryRowIsFound` | `ConcurrentSpec => []RowsAreFound` (\*\*\*\*\*) |
| `AllFindCells` | `ConcurrentSpec => []NobodySpins` (\*\*\*\*\*) |
| `LockedInvariant` | `JoinBuilders!Spec /\ design # "partitioned" => []LockedInv` |
| `LockedBuildersAreAnIndex` | `JoinBuilders!Spec /\ design # "partitioned" => ImplementsJoinIndex` |
| `PartitionedBuilderIsAnIndex` | `JoinBuilders!Spec /\ design = "partitioned" => ImplementsJoinIndex` (\*\*\*\*\*) |
| `BuildersAreAnIndex` | `JoinBuilders!Spec => ImplementsJoinIndex` (\*\*\*\*\*) |
| `CallsInvariant` | `CallsSpec => []CallsInv` (\*\*\*) |
| `TableIsTyped` | `CallsSpec => []TypeOK` (\*\*\*) |
| `EveryElementIsFound` | `CallsSpec => []ElementsAreFound` (\*\*\*) |
| `EverySearchEnds` | `CallsSpec => []SearchesEnd` (\*\*\*) |
| `GrowthStaysAccounted` | `CallsSpec => []GrowthIsAccounted` (\*\*\*) |
| `MirrorStaysEqual` | `CallsSpec => []MirrorAgrees` (\*\*\*) |
| `NoTombstonesInSmallTables` | `CallsSpec => []SmallTablesHaveNoTombstones` (\*\*\*) |
| `ItemsStayCounted` | `CallsSpec => []ItemsCountFullBuckets` (\*\*\*) |
| `IterationStaysExact` | `CallsSpec => []IterationIsExact` (\*\*\*) |
| `HashIterationStaysExact` | `CallsSpec => []HashIterationIsExact` (\*\*\*) |
| `UnwindDropsExactly` | `CallsSpec => []UnwindDropsCloned` (\*\*\*) |
| `TableIsABag` | `CallsSpec => ImplementsElementBag` (\*\*\*) |

(\*) under the hypothesis `~StaleHashLoads`: a cell whose tag was seen is not read as without
a hash. With such loads the statements are false, which the run `stale_hash`
shows (section 7).

(\*\*) under the hypothesis `FewRows`: there are no more rows than the largest capacity,
`2 ^ (CapacityBits - 1)`. With more, `next_power_of_two` overflows and `with_capacity` makes a table
that is too small; with 64 bits there is no memory for that many rows.

(\*\*\*) under the hypothesis `SoundVariants`: every variant in `Builds` has the original encoding
of control bytes, and one whose hash function panics has elements with a drop function. The two
kinds of variants left out are not sound, which the runs `extra_bit` and `hasher_panic` show
(section 7). Group widths and both probe sequences are arbitrary.

(\*\*\*\*) under the hypothesis `FewHashes`: at most 2^16 threads, and the number of threads times that
of hashes is at most 2^29. The powers of two that `TablePartitions` and `CapacityToBuckets` choose
from end there; `Hashes` may be taken to be the hashes that occur.

(\*\*\*\*\*) under the hypotheses `FewHashes` and `UncrowdedInputs`: in the table that holds the hashes of
an input, a stretch of buckets at least as long as the lanes filled of a group has no more hashes
that start in it than buckets. **Nothing in the code sees to that, most large inputs of random hashes
are crowded, and with crowded inputs the statements are false**: the runs `builder_race` and
`builder_groups` have one each (section 7). The inputs of `join_builders` are
not crowded, which TLC evaluates (`InputsAreUncrowded`), though several of their hashes start at one
place, which the mutant `PretendedOnce` shows to matter.

Assumptions: `WorkAssumption` (batches are sets of rows, rows have hashes), `CapacityAssumption`
(positive), `NullAssumption` (the null pointer is no table), `SparesAssumption` (dropped clones are
other handles than the threads'), `DefaultAssumption` (the default value is no row), `TableAssumption` (the capacity is a multiple of
the group, tags are not the empty one), `PowerAssumption` (the number of groups is a power of two),
`BuilderAssumption` (threads, batches of hashes), `GroupAssumption` (lanes are some of a group, and
`None` is neither a thread nor an entry of the table), `HashAssumption` and
`BuildAssumption` (hashes are a number and a byte, groups have 4, 8 or 16 bytes), `BoundAssumption`
(elements, buckets and reservations together are fewer than 2^29, so that `CapacityToBuckets` finds
its power of two). TLC evaluates them in the runs.

**`GrowthInv`.** `OneMigrator` is not inductive: that the compare-exchange succeeds for one thread
only needs that the state names the newest generation whenever it is unclaimed, and that is so
because the one thread that published a table reopens the state for exactly that generation.
`Numbered` (the current table is the newest and table p has generation p - 1) and
`MigrationTracksGeneration` (claimed only while someone migrates; unless a thread is between swap
and reopening, the state names the current generation; a migrator's target is the generation it
claimed) say this. `CarriedIsOlder` (what is pushed is older than the current table) makes
`OwnedOnce` inductive, and `AskedWhenFull` (whoever asked for a table found its target full, and
full tables stay full) makes `ReplacedOnlyFull` inductive. The proof treats the actions that leave
the migration alone in two lemmas (`OutsideMigration`, `InsideMigration`) and `ClaimMigration`,
`SwapTable`, `CompleteMigration` and `PushFull` in one lemma each.

**`BuilderInv`.** `GrowthInv`, the types of the compaction, `HoldersInsert` and
`NoTableLeftBehind`. A step of the builder is a step of the growth or leaves it alone
(`BuilderStepIsGrowthStep`). `HoldersInsert` says that whoever may still insert holds the builder,
so that when a thread sets up, every thread is idle; then no thread carries a table, and by
`OwnedOnce` the tables other than the current one are exactly those in `full_tables`
(`QuietTablesListed`). Their number comes from the injectivity of `full_tables`.

**`PublishedIsReadOnly`** needs, besides `BuilderInv`, the election of the publisher (`PublishInv`):
whoever may still copy holds the `Arc<Compactor>`, whoever may still take it out of the cell keeps
the cell alive, and there is one setup at most, before all that. Then the thread that finds itself
the only holder is the last that could write.

**`CountInv`, `CopyInv`** (`SharedTableBuilderProofs`). `WritesCounted` compares cardinalities: a cell is a
table and a hash in it, a counted write is a thread and a number below its count, or a number below
`total_size_during_compaction`. An insert adds one of each, wherever the race of inserts puts it;
`AddSize` moves the counts of a thread in one piece. The cells and the rows still to come are never
more than the rows given (`FewCells`), so under `FewRows` the capacity asked for at `SetUp` is not
rounded to less (`RoundCapacityFits`). `CopyInv` says that the destination has room for as many
hashes as there are cells, that what is in it or on the way to it is stored in some build table, and
that every hash of a source taken is in it or on the way. Hence a copying insert always finds room (`UnwrapHolds`),
and when all have finished nothing is missing (`PublishedIsComplete`).

**`TableInv`** (`FixedTable`). `TagsShowWrittenCells` is not inductive: that a tag may be stored says
that the owner has written hash and value (`OwnersHaveWritten`), and that another thread's swap in
between keeps the cell written, since it holds a row of the same hash (`CellsMatch`, `RowsInHand`)
and a cell never changes its hash (`HashesStay`). That the mirrored place of a tag is the first place
or the one behind the last cell, and never another cell's, is `MirrorPlace`; it is the only place
where the arithmetic of `set_tag` matters.

**`ProbeInv`** (`FixedTable`). Why two racing inserts of a hash cannot take two cells, and why `get`
finds the one: a thread leaves a group only when each cell of it has another hash (`Trying`: all but
the empty positions it has in hand are taken by others; `Searching`: so are all cells of the groups
before), and since cells keep their hashes this stays true whatever the others do. So a claimed cell
is the first that the search for its hash comes to (`Reached`), and there is only one first cell. A
reader sees it because both its tags are stored, or their owner is on the way (`Shown`), and at rest
no owner is. That the search leaves none out is the odd stride of `HybridProbeSequence`, which comes
to every group since their number is a power of two (`OddStride` of `NumberLemmas`: an odd number
cancels modulo a power of two, and an injective map of a finite set into itself is onto). It gives
that `get` comes to the empty cell of a table that is not full, and that Err is returned only for a
full one.

**`BulkAgreesWithGet`** (`FixedTable`). `get_in_bulk` may search on where `get` stops, at an empty
cell of the first group. Then `get` found nothing, so by `EveryHashReadable` the hash is nowhere and
no group shows it; and after as many groups as there are the search is back at the first
(`WindowRound`), whose empty cell it asks about this time. Where `get` finds the hash both stop.

**`InsertIsAtomic`.** `Abstract` maps the memory to the function from hashes to values; the value of
an insert counts from its swap (`Due`), and the previous value that a claimer still carries counts
as handed over (`Returned`). The claim of a cell is `Take`, either swap is `Exchange`, giving up is
`Refuse`, and all else, the stores of the tags included, changes nothing. `RefinementInv` adds to
`TableInv` and `ProbeInv` that a cell without hash has the default value and that a row in hand is
still due. What needs the invariant is that a claimed hash is not held already (`OneCell`) and that
at `GiveUp` no cell is free (`SearchesReachAll`).

**`ControlInv`** (`ConcurrentBuilder`). How far a thread has come tells what it has sent and which
barriers it has met the others at (`PhaseInv`), and the tracker is held only while a batch is placed
(`TrackerInv`). So when one thread has merged, all have copied; when the destination exists, all have
merged. `BuffersAreDisjoint` is inductive with it, since a batch gets the indices after the last one
and `locally_accumulate_input` makes a buffer as long as the batch (`AccumulatedLength`). That every
partition has one owner is arithmetic: the ranges of `get_owned_range` are consecutive, also for the
threads that get one partition of the remainder more, and end at the total. The proof is for any
total, so it holds for the ranges of counters too. Disjoint partitions do *not* give
`OneWriterPerBucket`: probing leaves the partition (`PlanInv`, and finding 7).

**`CountsInv`** (`ConcurrentBuilder`). Once there are counters, each counts the hashes merged so far
that belong to it, and what has been merged grows by the hashes of one owner, which no other has
(`HashesHaveOneOwner`). The counters are allocated when all local tables are complete and before
anybody merges, and `Merge` needs them: that is `PhaseInv`. When all have come to the second barrier
all hashes are merged, since every hash is in a partition (`PartitionRange`: the reversed bits of a
number are no longer than the number) and every partition has an owner. The sum of the counters is
then the number of hashes (`SumOfParts`), which is at most what the local tables hold together
(`SumOfSizes`), and `CapacityToBuckets` is monotone: the destination never has more buckets than
there are counters. So `allocate_destination_table` panics for no hash at all only, and the assertion
of `write_to_destination_table` fails only if the counters are no more than the partitions, which are
then more than the hashes. Who is past the claim of the destination's senders knows that somebody
has them or has them locked (`Claimed`, in `DestinationInv`); at the second barrier nobody holds
the lock any more, so one of those who wait is to send (`OneHasClaimed`).

**`PlanInv`** (`ConcurrentBuilder`). No two threads write one bucket, though they neither lock nor look
at the table. Each replays, on cells of its own, the probing of all the hashes below its partitions,
then of its own, then of those above, and writes its own hashes to the cells found for them. Three
facts make the replays agree.

* The counters stand for the hashes. The bits of a hash are reversed to get its partition, so
  there are as many hashes in the list of a thread as there are altogether, in order of partition, and
  each entry names a hash that *starts its probe at the same bucket* (`Stands`, `CounterStands`,
  `PretendedStands`, `PlanStands`); the thread does not know which. It rests on the number of
  counters being a power of two that the number of partitions divides and that is no less than the
  number of buckets (`CountsInv`), and on reversing bits twice (`ReversedTwice`, `ReversedMore`).
* The *set* of cells taken does not depend on the order. If every hash takes the first free bucket
  from where it starts (`Probed`), then a set of hashes takes all buckets that a part of it takes,
  in whatever order either came and whatever each hash got (`ProbedMonotone`: keys in a run of taken
  buckets also started in it, so they fill it in every order). That goes for the entries
  that only stand for hashes too (`AllArePlaced`).
* So the cells a thread writes to, taken by the hashes up to its last partition and not by those
  below its first (`Territory`), are disjoint from those of any other thread
  (`TerritoriesDisjoint`).

`PlanInv` then says that what a thread has left to write, and has written, is in its territory. That
every hash finds a cell in the first lanes is where `UncrowdedInputs` is needed: past the lanes, the
probe jumps by `Width`, and the cells taken do depend on the order (finding 7).

**`LocalInv`, `LinkInv`** (`ConcurrentBuilderProofs`). A chain of rows is described without naming its
elements: `Ordered` says that the head is the last row of a set in some order `later`, and that each
row leads to the last of those before it, or to 0. Following such a chain yields the set
(`OrderedIsStrung`, `ChainYields`), and the order may be another one at each level. In one thread it is the order of the
indices (`LocalInv`: `accumulate` puts a batch's row before those of its hash that the thread has). Merging
changes one link of each table but the first that has the hash: from the end of its chain to the head of the one before
(`LinkInv`, with `Joined` and `Earlier`). No two of these ends are one row (`TailsApart`), and
nobody's copy comes later, by `ControlInv`; so what one thread links another neither overwrites nor
reads too soon. When all have merged, the rows of a hash are `Ordered` by table first and index second
(`MergedIsOrdered`), so its entry leads to all of them (`ChainsComplete`).

**`PlacedInv`** (`ConcurrentIndexProofs`). A thread that has planned has a place in its territory for each
of its hashes, in the first lanes from where the hash starts (`Housed`); the place is empty while the
write is still to come and has the hash's entry after it, and nothing else is in the territory
(`Filled`). Others do not come there, by `PlanInv`. That the probe of `find` passes no empty bucket
before it comes to the entry needs no argument about buckets passed over: the lanes are part of
the first window (`InFirstWindow`), and no second entry has the hash (`FoundOnce`). This holds also where
`Lanes` is less than `Width`: it is a hash put past the first lanes that is lost (finding 8).

**`LockedInv`** (`JoinBuildersProofs`). The builders around one map. Every row inserted is on the chain
of its hash, once (`Chained`): `IsChain` names the elements, and the link of a row is in the buffer of
its batch until the batch ends and in the overflow buffer afterwards (`LinksTo`). An insert prepends
to one chain and disturbs no other; `FinishBatch` moves links to where nobody else's are, since batches
have indices of their own (`LockedBatches`). `MutexMapBuilder` writes no link for the first row of a
hash and relies on the zero that `TakeBatch` put there. The refinement maps `TakeBatch` to `PlaceBatch`
and the step after which all threads are done to `Publish`; then nothing is left in a buffer, a chain
has no row twice and so is not longer than there are rows, and following it from the head of the map
yields the rows of the hash and no other (`ChainsAnswer`).

**`BuildersAreAnIndex`** (`JoinBuildersProofs`). The same mapping for `ConcurrentBuilder`: `AllocateBatch`
is `PlaceBatch`, the last `Return` is `Publish`, and all the steps between them, which share, copy,
link, plan and write, are stutters. At `Publish` the answers are right because `PartitionedInv`, the
conjunction of all the above, gives an entry for each hash that occurs and for no other, and the chain
from it (`LookupComplete`).

**`CallsInv`** (`RawTableProofs`). A table at rest (`AtRest`): an element is in each full bucket
and in no other, under its own tag; the counts agree with the bytes; a table smaller than a group
has no tombstone; and every element is `Reached`, that is, in the window of some probe before which
no window shows an EMPTY byte. In the middle of `rehash_in_place` (`InRehash`) a DELETED byte stands
for an element that has not been placed yet, which `Reached` would count as passed, so full buckets
have to be `Nearest`: all windows before show full bytes only.

* Control bytes. A group that wraps is read through the mirror; `ByteShown` and `WindowShows` say that
  it shows the bytes of its buckets and, in tables smaller than a group, EMPTY bytes besides.
* Probing. The starts of the windows come to every group, by `OddStride` for double hashing and
  `TriangleStride` for the original, as the number of buckets is a power of two; and one bucket is
  always EMPTY (`items + growthLeft + tombstones` is the capacity, which is less than the buckets).
  So every search ends.
* `erase`. It writes EMPTY only if the run of bytes that are not EMPTY around the bucket is shorter
  than a group. If a probe had passed the bucket, its window would be such a run (`ProbePassed`); in a
  table smaller than a group the run is always shorter (`SmallRun`), hence no tombstones there.
* `resize_inner`. `Moving` is the table after n buckets have been moved. By induction over n (of a
  set of numbers, `SetInduction`) it holds one element for each full bucket below n, so there is
  room, and after the last it has them all.
* `rehash_in_place`. `Stay`, `Move` and `Swap` each make one element more `Nearest` (`OnePlaced`) and
  no full byte something else; `Stay` is right because the place found and the place held are in the
  same window of the probe sequence (`SameGroup`).
* Iterators. `Remaining`: what an iterator has not returned is what is left of its group and the full
  buckets behind it, and the count it stops at is their number. Groups of 4, 8 or 16 bytes cut a
  table into disjoint windows; `RawIterHash` needs in addition that the windows of two probes of one
  sequence do not overlap, which is where the multiples of the width in the stride matter.
* Calls that are stopped. An element that `replace_bucket_with` or a vacant entry took out leaves a
  table that is at rest again when it is put back (`Replacing`, `Vacant`): the byte that `erase`
  wrote is put back as it was, and the insert of the vacant entry finds the slot the search gave.

**`TableIsABag`** (`RawTableProofs`). `Bag` counts the buckets that hold an element of each hash
(`SlotCount`). One bucket that gains or loses an element changes one count by one (`OneSlot`,
`BagAdds`, `BagTakes`); `Move` and `Swap` are such changes of two or three buckets that cancel
(`BagMoves`, `BagSwaps`), and `resize_inner` has in its new table, after each bucket, as many elements
of each hash as it has read (`Receiving`). That is not enough for a step of the whole table: an insert
adds an element only because the bucket that the search returns was free, and the element that is
put back, or inserted for a vacated entry, must find the bucket still free (`TakenOut` in
`CallsInv`); what `rehash_in_place` moves to must be free or hold an element not placed yet
(`InRehash`). A panicking hash function is the step `Lose`, and `needsDrop` is what makes it keep
`CallsInv`.

**Only model-checked**: the liveness properties (`EveryInsertReturns`, `CompactReturns`,
`RehashEnds`, `EveryRunEnds`), which are out of the prover's reach.

## 7. Findings

1. `dropped_handle`. A handle that is dropped without `compact` after all others have called it is
   the last holder of the builder, and nobody writes the compaction cell: the others wait for ever.
   The multi-threaded test of the crate clones its handle with `iter::repeat`, whose own copy is
   dropped at a time nobody controls.
2. `partial_source`. `WritableMapIterator::next` reads the tags of group 0 for every group. A
   current table of more than one group that is not full, when it becomes a source of the
   compaction, is copied wrongly; rows are missing from the published table.
3. `late_duplicate`. A duplicate that fails its compare-exchange swaps its value before the
   claimer's own swap; the claimer's `assert_eq!` on the default value fails.
4. `stale_hash`. A cell whose hash is read as 0 after its tag was seen is meant to be tried again
   "later"; the position is reset in a copy that is not looked at any more, and the hash takes a
   second cell.
5. `hasher_panic`. The guard of `rehash_in_place` cleans up only for elements with a drop function.
   For others `items` still counts what was given up.
6. `extra_bit`. `convert_special_to_empty_and_full_to_deleted` of the extra-bit groups has the
   constants of the original encoding; after a rehash in place elements are not found.
7. `builder_race`. A thread of `ConcurrentBuilder` writes its own hashes in the order of its merged
   tables, the others pretend them in the order of the counters. When hashes collide past a group,
   the cells they take depend on that order, and two threads write one bucket. It takes a few more
   hashes than a group has lanes that start close together (`UncrowdedInputs` fails), which in a table
   of random hashes is the rule (section 6).
8. `builder_groups`. The builder fills 8 cells of a group and goes on by `Group::WIDTH`. With 16-byte
   groups the ninth hash of a place goes to the next group, and `find` stops at the empty rest of the
   first.

Each is quoted with its lines in `PROJECT.json`.

Met while modelling, without a run of their own:

* `write_to_destination_table` asserts that there are more counters than partitions and says that
  "there are always more counter buckets than local table buckets" (`attempt3.rs:693-698`); with
  fewer hashes than partitions, or none, every call panics.
* A `ConcurrentBuilder` for one thread panics in every call, whatever the input: it has one
  partition (`attempt3.rs:931`) and `LocalTablePartitioner::new` asserts more (`attempt3.rs:65`).
  `PanicsOnFewHashes` states that these two are the only panics.
* The line marked `WRONG!` (`attempt3.rs:467`) is right: the refinement holds with it.
* `match_empty_or_deleted` of `control_extra/group/sse2.rs:100` tests the high bit, which neither of
  the two bytes has in that encoding.

## 8. Not modelled, and why

* `map.rs`, `set.rs`, `table.rs`, the entry types and the trait adapters are most of the
  repository's lines, and most of these are documentation, generic signatures and tests around one
  call of the raw table. They keep no state, so a module of theirs would repeat `ElementBag`; what
  they do between two calls of the raw table is in `TableCalls`. The map of `PROJECT.json` covers a
  small share of the repository for this reason, and because the two copies of the raw table are
  mapped through the module of the original.
* The group backends are vector code for set operations; the models take the operations. Tables of
  `fixed_table.rs` with the group types of SwissTable and its triangular probing are not modelled.
* `new_map_2`: the growth protocol is that of `new_map_3`, and its fixed table is not used by it.
* Commented-out code, the histogram accumulator without a caller, benches, binaries and CI.
* Within the modelled parts: clones of a handle that has inserted (its count would be taken twice),
  values equal to `V::default()`, hashes that differ in bit 63 only (the first three are hazards with
  a note); a generation counter that wraps after 2^32 migrations (the capacity overflows before);
  allocation failure; `with_fixed_items`, which only commented-out code calls (`insert_directly`,
  which `ConcurrentBuilder` calls, is its `WriteCell`); the splitting of iterators for rayon;
  `into_iter`, which is the same iterator.

## 9. Plan

Done: the build table of `new_map_3` in its three layers, the raw table with the calls that run the
caller's code, all builders that are not commented out; every safety invariant and action property
of the passing runs proved, and all three refinements: `insert_atomically` implements the atomic
insert the layer above takes it for, the raw table a bag, and every builder an index
(`ConcurrentBuilder` for uncrowded inputs only, which it does not ensure).

What would come next, in order:

1. The fixed table of `new_map_2`, as another implementation of `AtomicTable`, should it come into
   use again.
2. The bits of a hash in `FixedTable`: bit 63, and values equal to the default.
