----------------------------- MODULE TableGrowth -----------------------------
(***************************************************************************)
(* The insert path of the lock-free build table of hashjoin, new_map_3:    *)
(* WriteOnlyTable::insert and the migration protocol that replaces a full  *)
(* table by a larger one (create_new_table, migrate_table,                 *)
(* claim_migration_relaxed, complete_migration).                           *)
(*                                                                         *)
(* One WritableFixedTable is taken as atomic here: its insert puts a row,  *)
(* displaces a row of the same hash, or fails because the table is full.   *)
(* Module FixedTable models that insert cell by cell.                      *)
(*                                                                         *)
(* A raw pointer *mut InnerTable is the index of the table in the order of *)
(* allocation, so "newer" is ">" on pointers.  A row is its own value; the *)
(* code's values are never V::default() here, see FixedTable for those.    *)
(***************************************************************************)
EXTENDS Integers, Sequences, FiniteSets

CONSTANTS
    Threads,          \* one WriteOnlyTable handle each, cloned while fresh
    Rows,             \* the rows (values) to insert
    HashOf,           \* [Rows -> hashes], the full 64-bit hash of a row
    Work,             \* [Threads -> SUBSET Rows], the batch of each thread
    InitialCapacity,  \* 16 in the code
    GroupSize,        \* G::GROUP_SIZE, 8 in the code
    CapacityBits,     \* the bits of usize, 64 in the code
    Null              \* std::ptr::null_mut() of current_table_cache

Hashes == {HashOf[r] : r \in Rows}

ASSUME WorkAssumption ==
    /\ HashOf \in [Rows -> Hashes]
    /\ Work \in [Threads -> SUBSET Rows]

ASSUME CapacityAssumption ==
    /\ InitialCapacity \in Nat \ {0}
    /\ GroupSize \in Nat \ {0}
    /\ CapacityBits \in Nat \ {0}

ASSUME NullAssumption == Null \notin Nat /\ Null \notin Rows

VARIABLES
    tables,          \* every InnerTable allocated: generation, capacity, previous
    entries,         \* what each table holds: a partial function hash -> row
    currentTable,    \* SharedTableBuilder.current_table
    fullTables,      \* SharedTableBuilder.full_tables, behind its mutex
    migrationState,  \* SharedTableBuilder.migration_state, unpacked
    pc,              \* where each thread is inside insert
    row,             \* the row being inserted
    cache,           \* current_table_cache
    target,          \* target_table: the newest table the thread has observed
    replaced,        \* previous_table, between the swap and the push
    fresh,           \* new_table, between the swap and the push
    writes,          \* total_writes
    todo,            \* the rows of the batch that are not inserted yet
    displaced        \* the rows returned by insert as the previous value

sharedVars == <<tables, entries, currentTable, fullTables, migrationState>>
localVars == <<pc, row, cache, target, replaced, fresh, writes, todo, displaced>>
growthVars == <<tables, entries, currentTable, fullTables, migrationState,
                pc, row, cache, target, replaced, fresh, writes, todo, displaced>>

------------------------------------------------------------------------------

\* usize::next_power_of_two of a usize of CapacityBits bits: 0 when the power does
\* not fit, which is what a release build returns.
Powers == {c \in 1 .. 2 ^ (CapacityBits - 1) : \E k \in 0 .. CapacityBits - 1 : c = 2 ^ k}
IsNextPower(c, n) == c >= n /\ (c = 1 \/ c \div 2 < n)
NextPowerOfTwo(n) ==
    IF \E c \in Powers : IsNextPower(c, n)
    THEN CHOOSE c \in Powers : IsNextPower(c, n)
    ELSE 0

\* WritableFixedTable::with_capacity: the next power of two, at least a group.
RoundCapacity(requested) ==
    IF NextPowerOfTwo(requested) >= GroupSize THEN NextPowerOfTwo(requested) ELSE GroupSize

NewTable(generation, requested, previous) ==
    [generation |-> generation, capacity |-> RoundCapacity(requested), previous |-> previous]

NoEntries == [h \in {} |-> Null]

Held(p) == DOMAIN entries[p]
Full(p) == Cardinality(Held(p)) >= tables[p].capacity
Accepts(p, h) == h \in Held(p) \/ ~Full(p)
Generation(p) == tables[p].generation

\* The capacity of a table and of all the tables before it.
ExistingCapacity(p) == tables[p].capacity + tables[p].previous

------------------------------------------------------------------------------

InnerTables == [generation : Nat, capacity : Nat, previous : Nat]
MigrationStates == [generation : Nat, claimed : BOOLEAN]
Contents == UNION {[H -> Rows] : H \in SUBSET Hashes}
Labels == {"idle", "load", "insert", "claim", "publish", "complete", "push", "wait", "panicked"}

TypeOK ==
    /\ tables \in Seq(InnerTables)
    /\ entries \in Seq(Contents)
    /\ Len(entries) = Len(tables)
    /\ currentTable \in 1 .. Len(tables)
    /\ fullTables \in Seq(1 .. Len(tables))
    /\ migrationState \in MigrationStates
    /\ pc \in [Threads -> Labels]
    /\ row \in [Threads -> Rows \cup {Null}]
    /\ \A t \in Threads : pc[t] # "idle" => row[t] \in Rows
    /\ cache \in [Threads -> (1 .. Len(tables)) \cup {Null}]
    /\ target \in [Threads -> 1 .. Len(tables)]
    /\ replaced \in [Threads -> 1 .. Len(tables)]
    /\ fresh \in [Threads -> 1 .. Len(tables)]
    /\ writes \in [Threads -> Nat]
    /\ todo \in [Threads -> SUBSET Rows]
    /\ displaced \in SUBSET Rows

Init ==
    /\ tables = <<NewTable(0, InitialCapacity, 0)>>
    /\ entries = <<NoEntries>>
    /\ currentTable = 1
    /\ fullTables = <<>>
    /\ migrationState = [generation |-> 0, claimed |-> FALSE]
    /\ pc = [t \in Threads |-> "idle"]
    /\ row = [t \in Threads |-> Null]
    /\ cache = [t \in Threads |-> Null]
    /\ target = [t \in Threads |-> 1]
    /\ replaced = [t \in Threads |-> 1]
    /\ fresh = [t \in Threads |-> 1]
    /\ writes = [t \in Threads |-> 0]
    /\ todo = Work
    /\ displaced = {}

------------------------------------------------------------------------------

Goto(t, from, to) ==
    /\ pc[t] = from
    /\ pc' = [pc EXCEPT ![t] = to]

\* Mutant of Put: an insert that displaces a value is counted as a write too.
PutCountingOverwrites(t, p, r) ==
    LET h == HashOf[r] IN
    /\ Accepts(p, h)
    /\ entries' = [entries EXCEPT ![p] =
                      [x \in Held(p) \cup {h} |-> IF x = h THEN r ELSE entries[p][x]]]
    /\ writes' = [writes EXCEPT ![t] = @ + 1]
    /\ displaced' = IF h \in Held(p) THEN displaced \cup {entries[p][h]} ELSE displaced
    /\ todo' = [todo EXCEPT ![t] = @ \ {r}]

\* A successful WritableFixedTable::insert of row r into table p, with what the
\* caller does about it: count the write when no value was there before.
Put(t, p, r) ==
    LET h == HashOf[r] IN
    /\ Accepts(p, h)
    /\ entries' = [entries EXCEPT ![p] =
                      [x \in Held(p) \cup {h} |-> IF x = h THEN r ELSE entries[p][x]]]
    /\ writes' = [writes EXCEPT ![t] = IF h \in Held(p) THEN @ ELSE @ + 1]
    /\ displaced' = IF h \in Held(p) THEN displaced \cup {entries[p][h]} ELSE displaced
    /\ todo' = [todo EXCEPT ![t] = @ \ {r}]

\* insert: the cached table takes the row.
InsertCached(t) ==
    \E r \in todo[t] :
        /\ pc[t] = "idle"
        /\ cache[t] # Null
        /\ Put(t, cache[t], r)
        /\ UNCHANGED <<tables, currentTable, fullTables, migrationState,
                       pc, row, cache, target, replaced, fresh>>

\* insert: there is no cached table, or it is full.
MissCache(t) ==
    \E r \in todo[t] :
        /\ Goto(t, "idle", "load")
        /\ cache[t] # Null => ~Accepts(cache[t], HashOf[r])
        /\ row' = [row EXCEPT ![t] = r]
        /\ UNCHANGED <<sharedVars, cache, target, replaced, fresh, writes, todo, displaced>>

\* insert: the Relaxed load of current_table.  It may return any pointer the
\* variable has held that is not older than one this thread saw before.
LoadCurrent(t) ==
    /\ Goto(t, "load", "insert")
    /\ \E p \in target[t] .. currentTable : target' = [target EXCEPT ![t] = p]
    /\ UNCHANGED <<sharedVars, row, cache, replaced, fresh, writes, todo, displaced>>

\* insert: the target table takes the row and becomes the cached table.
InsertTarget(t) ==
    /\ Goto(t, "insert", "idle")
    /\ Put(t, target[t], row[t])
    /\ cache' = [cache EXCEPT ![t] = target[t]]
    /\ UNCHANGED <<tables, currentTable, fullTables, migrationState,
                   row, target, replaced, fresh>>

\* Mutant of FindFull: a new table is asked for without a failed insert.
FindFullUnchecked(t) ==
    /\ Goto(t, "insert", "claim")
    /\ UNCHANGED <<sharedVars, row, cache, target, replaced, fresh, writes, todo, displaced>>

\* insert: the target table is full, so create_new_table is called.
FindFull(t) ==
    /\ Goto(t, "insert", "claim")
    /\ ~Accepts(target[t], HashOf[row[t]])
    /\ UNCHANGED <<sharedVars, row, cache, target, replaced, fresh, writes, todo, displaced>>

\* Mutants of ClaimMigration: the compare-exchange looks at the generation only,
\* or at the claimed flag only.
ClaimIgnoringFlag(t) ==
    /\ Goto(t, "claim", "publish")
    /\ migrationState.generation = Generation(target[t])
    /\ migrationState' = [migrationState EXCEPT !.claimed = TRUE]
    /\ UNCHANGED <<tables, entries, currentTable, fullTables,
                   row, cache, target, replaced, fresh, writes, todo, displaced>>

ClaimIgnoringGeneration(t) ==
    /\ Goto(t, "claim", "publish")
    /\ ~migrationState.claimed
    /\ migrationState' = [migrationState EXCEPT !.claimed = TRUE]
    /\ UNCHANGED <<tables, entries, currentTable, fullTables,
                   row, cache, target, replaced, fresh, writes, todo, displaced>>

\* claim_migration_relaxed: the compare-exchange succeeds.
ClaimMigration(t) ==
    /\ Goto(t, "claim", "publish")
    /\ migrationState = [generation |-> Generation(target[t]), claimed |-> FALSE]
    /\ migrationState' = [migrationState EXCEPT !.claimed = TRUE]
    /\ UNCHANGED <<tables, entries, currentTable, fullTables,
                   row, cache, target, replaced, fresh, writes, todo, displaced>>

\* claim_migration_relaxed: AlreadyInProgress or GenerationOutOfDate.  While
\* the migration state is of an older generation (PreviousInProgress) the
\* thread spins here.
LoseClaim(t) ==
    /\ Goto(t, "claim", "wait")
    /\ \/ migrationState.generation > Generation(target[t])
       \/ migrationState = [generation |-> Generation(target[t]), claimed |-> TRUE]
    /\ UNCHANGED <<sharedVars, row, cache, target, replaced, fresh, writes, todo, displaced>>

\* migrate_table: allocate the next table and swap it in.
SwapTable(t) ==
    LET full == target[t]
        new == Len(tables) + 1
    IN
    /\ Goto(t, "publish", "complete")
    /\ tables' = Append(tables,
                    NewTable(Generation(full) + 1, 2 * ExistingCapacity(full), ExistingCapacity(full)))
    /\ entries' = Append(entries, NoEntries)
    /\ currentTable' = new
    /\ replaced' = [replaced EXCEPT ![t] = currentTable]
    /\ fresh' = [fresh EXCEPT ![t] = new]
    /\ UNCHANGED <<fullTables, migrationState, row, cache, target, writes, todo, displaced>>

\* Mutants of CompleteMigration: the state is reopened for the generation just
\* replaced, or stays claimed.
CompleteSameGeneration(t) ==
    /\ Goto(t, "complete", "push")
    /\ migrationState' = [migrationState EXCEPT !.claimed = FALSE]
    /\ UNCHANGED <<tables, entries, currentTable, fullTables,
                   row, cache, target, replaced, fresh, writes, todo, displaced>>

CompleteStillClaimed(t) ==
    /\ Goto(t, "complete", "push")
    /\ migrationState' = [migrationState EXCEPT !.generation = @ + 1]
    /\ UNCHANGED <<tables, entries, currentTable, fullTables,
                   row, cache, target, replaced, fresh, writes, todo, displaced>>

\* complete_migration: reopen the state for the next generation, or panic.
CompleteMigration(t) ==
    /\ pc[t] = "complete"
    /\ IF migrationState = [generation |-> Generation(target[t]), claimed |-> TRUE]
       THEN /\ migrationState' = [generation |-> Generation(target[t]) + 1, claimed |-> FALSE]
            /\ pc' = [pc EXCEPT ![t] = "push"]
       ELSE /\ pc' = [pc EXCEPT ![t] = "panicked"]
            /\ UNCHANGED migrationState
    /\ UNCHANGED <<tables, entries, currentTable, fullTables,
                   row, cache, target, replaced, fresh, writes, todo, displaced>>

\* Mutant of PushFull: the new table is pushed instead of the one it replaced.
PushFresh(t) ==
    /\ Goto(t, "push", "insert")
    /\ fullTables' = Append(fullTables, fresh[t])
    /\ target' = [target EXCEPT ![t] = fresh[t]]
    /\ UNCHANGED <<tables, entries, currentTable, migrationState,
                   row, cache, replaced, fresh, writes, todo, displaced>>

\* migrate_table: keep the replaced table for the compaction, then insert
\* retries on the new one.
PushFull(t) ==
    /\ Goto(t, "push", "insert")
    /\ fullTables' = Append(fullTables, replaced[t])
    /\ target' = [target EXCEPT ![t] = fresh[t]]
    /\ UNCHANGED <<tables, entries, currentTable, migrationState,
                   row, cache, replaced, fresh, writes, todo, displaced>>

\* create_new_table: spin until current_table is of another generation.
WaitForTable(t) ==
    /\ Goto(t, "wait", "insert")
    /\ \E p \in target[t] .. currentTable :
          /\ Generation(p) # Generation(target[t])
          /\ target' = [target EXCEPT ![t] = p]
    /\ UNCHANGED <<sharedVars, row, cache, replaced, fresh, writes, todo, displaced>>

Step(t) ==
    \/ InsertCached(t)
    \/ MissCache(t)
    \/ LoadCurrent(t)
    \/ InsertTarget(t)
    \/ FindFull(t)
    \/ ClaimMigration(t)
    \/ LoseClaim(t)
    \/ SwapTable(t)
    \/ CompleteMigration(t)
    \/ PushFull(t)
    \/ WaitForTable(t)

\* Every thread has inserted its batch: the system may stop here, nowhere else.
Finished ==
    /\ \A t \in Threads : pc[t] = "idle" /\ todo[t] = {}
    /\ UNCHANGED growthVars

GrowthNext == (\E t \in Threads : Step(t)) \/ Finished

\* An operating-system thread that can take a step is scheduled eventually.
GrowthSpec ==
    /\ Init
    /\ [][GrowthNext]_growthVars
    /\ \A t \in Threads : WF_growthVars(Step(t))

------------------------------------------------------------------------------
(* Safety *)

\* The thread inside migrate_table, between its claim and complete_migration.
Migrating(t) == pc[t] \in {"publish", "complete"}

\* The thread that took a table out of current_table and has not pushed it yet.
Carrying(t) == pc[t] \in {"complete", "push"}

\* migration_state is a lock: at most one thread replaces the current table at
\* a time, and complete_migration never finds a state it did not leave
\* (its panic "something else must have written to the state").
OneMigrator ==
    /\ \A t, u \in Threads : Migrating(t) /\ Migrating(u) => t = u
    /\ \A t \in Threads : pc[t] # "panicked"

\* Each allocated table but the current one is owned exactly once: it is in
\* full_tables or in the hands of the one thread that will push it.  Box::from_raw
\* in migrate_table never runs twice on a pointer and no table is leaked.
OwnedOnce ==
    /\ \A i, j \in 1 .. Len(fullTables) : fullTables[i] = fullTables[j] => i = j
    /\ \A t, u \in Threads : Carrying(t) /\ Carrying(u) /\ replaced[t] = replaced[u] => t = u
    /\ \A t \in Threads : Carrying(t) =>
          \A i \in 1 .. Len(fullTables) : fullTables[i] # replaced[t]
    /\ \A p \in 1 .. Len(tables) :
          \/ p = currentTable
          \/ \E i \in 1 .. Len(fullTables) : fullTables[i] = p
          \/ \E t \in Threads : Carrying(t) /\ replaced[t] = p
    /\ \A i \in 1 .. Len(fullTables) : fullTables[i] # currentTable
    /\ \A t \in Threads : Carrying(t) => replaced[t] # currentTable

\* total_capacity_of_previous_tables is what the tables replaced so far can
\* hold, and generations number the tables without a gap: the growth always
\* starts from the newest table, never from one that was replaced already.
GrowsFromNewest ==
    \A p \in 1 .. Len(tables) - 1 :
        /\ tables[p + 1].previous = ExistingCapacity(p)
        /\ Generation(p + 1) = Generation(p) + 1

\* A table is replaced only once it is full, whatever other threads do between
\* the failed insert and the swap.
ReplacedOnlyFull == \A p \in 1 .. Len(tables) : p # currentTable => Full(p)

\* The inductive invariant behind the four: tables are numbered by generation,
\* the newest is the current one, the migration state names the generation that
\* its one migrator replaces, and a thread that asked for a new table holds a
\* full one.
Numbered ==
    /\ currentTable = Len(tables)
    /\ \A p \in 1 .. Len(tables) : Generation(p) = p - 1

MigrationTracksGeneration ==
    /\ migrationState.claimed => \E t \in Threads : Migrating(t)
    /\ (\A t \in Threads : pc[t] # "complete") => migrationState.generation = currentTable - 1
    /\ \A t \in Threads :
          /\ Migrating(t) =>
                migrationState = [generation |-> target[t] - 1, claimed |-> TRUE]
          /\ pc[t] = "publish" => target[t] = currentTable
          /\ pc[t] = "complete" => target[t] = currentTable - 1 /\ fresh[t] = currentTable

CarriedIsOlder ==
    /\ \A t \in Threads : Carrying(t) => replaced[t] < currentTable
    /\ \A i \in 1 .. Len(fullTables) : fullTables[i] < currentTable

AskedWhenFull ==
    \A t \in Threads :
        pc[t] \in {"claim", "publish", "complete", "wait"} => Full(target[t])

GrowthInv ==
    /\ TypeOK
    /\ Numbered
    /\ MigrationTracksGeneration
    /\ CarriedIsOlder
    /\ AskedWhenFull
    /\ OneMigrator
    /\ OwnedOnce
    /\ GrowsFromNewest
    /\ ReplacedOnlyFull

------------------------------------------------------------------------------
(* Liveness *)

\* Every insert returns: no thread is left spinning on a claimed migration, on
\* an older generation or on a table that nobody replaces.
EveryInsertReturns == \A t \in Threads : pc[t] # "idle" ~> pc[t] = "idle"

==============================================================================
