-------------------------- MODULE TableGrowthProofs --------------------------
(***************************************************************************)
(* Proofs about the growth of the build table, for every number of         *)
(* threads, every batch of rows and every initial capacity.                *)
(***************************************************************************)
EXTENDS TableGrowth, TLAPS

\* Powers of two are natural numbers, and so is a rounded capacity.
LEMMA RoundCapacityType ==
    \A n \in Nat : RoundCapacity(n) \in Nat
<1> SUFFICES ASSUME NEW n \in Nat PROVE RoundCapacity(n) \in Nat
    OBVIOUS
<1>1. Powers \subseteq Nat
    BY DEF Powers
<1>2. NextPowerOfTwo(n) \in Nat
    <2>1. CASE \E c \in Powers : IsNextPower(c, n)
        <3>1. (CHOOSE c \in Powers : IsNextPower(c, n)) \in Powers
            BY <2>1
        <3> QED BY <2>1, <3>1, <1>1 DEF NextPowerOfTwo
    <2>2. CASE ~ \E c \in Powers : IsNextPower(c, n)
        BY <2>2 DEF NextPowerOfTwo
    <2> QED BY <2>1, <2>2
<1> QED BY <1>2, CapacityAssumption DEF RoundCapacity

\* What insert does to the tables' contents: the other tables are untouched,
\* and a table that was full keeps its hashes, so it stays full.
LEMMA PutContents ==
    ASSUME TypeOK, NEW t \in Threads, NEW p \in 1 .. Len(tables), NEW r \in Rows,
           Put(t, p, r), UNCHANGED tables
    PROVE  /\ entries' \in Seq(Contents)
           /\ Len(entries') = Len(entries)
           /\ writes' \in [Threads -> Nat]
           /\ todo' \in [Threads -> SUBSET Rows]
           /\ displaced' \in SUBSET Rows
           /\ \A q \in 1 .. Len(tables) : Full(q) => Full(q)'
<1> DEFINE h == HashOf[r]
           new == [x \in Held(p) \cup {h} |-> IF x = h THEN r ELSE entries[p][x]]
<1> entries \in Seq(Contents) /\ Len(entries) = Len(tables) /\ p \in 1 .. Len(entries)
    BY DEF TypeOK
<1>1. Held(p) \subseteq Hashes /\ \A x \in Held(p) : entries[p][x] \in Rows
    <2>1. entries[p] \in Contents
        OBVIOUS
    <2>2. PICK H \in SUBSET Hashes : entries[p] \in [H -> Rows]
        BY <2>1 DEF Contents
    <2> QED BY <2>2 DEF Held
<1>2. h \in Hashes
    BY DEF Hashes
<1>3. new \in [Held(p) \cup {h} -> Rows] /\ Held(p) \cup {h} \in SUBSET Hashes
    BY <1>1, <1>2
<1>4. new \in Contents
    BY <1>3 DEF Contents
<1>5. entries' = [entries EXCEPT ![p] = new]
    BY DEF Put
<1>6. /\ entries' \in Seq(Contents)
      /\ Len(entries') = Len(entries)
    BY <1>4, <1>5 DEF TypeOK
<1>7. writes' \in [Threads -> Nat] /\ todo' \in [Threads -> SUBSET Rows]
    <2>1. writes \in [Threads -> Nat] /\ todo \in [Threads -> SUBSET Rows]
        BY DEF TypeOK
    <2>2. writes[t] + 1 \in Nat
        BY <2>1
    <2>3. \/ writes' = writes
          \/ writes' = [writes EXCEPT ![t] = writes[t] + 1]
        BY <2>1 DEF Put
    <2>4. todo' = [todo EXCEPT ![t] = todo[t] \ {r}]
        BY DEF Put
    <2> QED BY <2>1, <2>2, <2>3, <2>4
<1>8. displaced' \in SUBSET Rows
    BY <1>1 DEF Put, TypeOK
<1>9. \A q \in 1 .. Len(tables) : Full(q) => Full(q)'
    <2> SUFFICES ASSUME NEW q \in 1 .. Len(tables), Full(q) PROVE Full(q)'
        OBVIOUS
    <2>1. CASE q = p
        <3>1. h \in Held(p)
            BY <2>1 DEF Put, Accepts
        <3>2. entries'[p] = new
            BY <1>5
        <3>3. DOMAIN (entries'[p]) = DOMAIN new
            BY <3>2
        <3>4. DOMAIN new = Held(p)
            BY <3>1
        <3> QED BY <2>1, <3>3, <3>4 DEF Full, Held
    <2>2. CASE q # p
        BY <1>5, <2>2 DEF Full, Held, TypeOK
    <2> QED BY <2>1, <2>2
<1> QED BY <1>6, <1>7, <1>8, <1>9

\* The initial state satisfies the invariant.
THEOREM GrowthInvInit == Init => GrowthInv
<1> SUFFICES ASSUME Init PROVE GrowthInv
    OBVIOUS
<1> USE DEF Init
<1>1. RoundCapacity(InitialCapacity) \in Nat
    BY RoundCapacityType, CapacityAssumption
<1>2. NewTable(0, InitialCapacity, 0) \in InnerTables
    BY <1>1 DEF NewTable, InnerTables
<1>3. NoEntries \in Contents
    BY DEF NoEntries, Contents
<1>4. TypeOK
    BY <1>2, <1>3, WorkAssumption DEF TypeOK, Labels, MigrationStates
<1>5. Numbered
    BY DEF Numbered, Generation, NewTable
<1>6. MigrationTracksGeneration /\ CarriedIsOlder /\ AskedWhenFull
    BY DEF MigrationTracksGeneration, CarriedIsOlder, AskedWhenFull, Migrating, Carrying
<1>7. OneMigrator /\ OwnedOnce /\ GrowsFromNewest /\ ReplacedOnlyFull
    BY DEF OneMigrator, OwnedOnce, GrowsFromNewest, ReplacedOnlyFull, Migrating, Carrying
<1> QED BY <1>4, <1>5, <1>6, <1>7 DEF GrowthInv

\* A table allocated by migrate_table is well formed.
LEMMA NewTableType ==
    ASSUME TypeOK, NEW p \in 1 .. Len(tables)
    PROVE  /\ ExistingCapacity(p) \in Nat
           /\ NewTable(Generation(p) + 1, 2 * ExistingCapacity(p), ExistingCapacity(p))
                 \in InnerTables
<1> tables \in Seq(InnerTables)
    BY DEF TypeOK
<1>1. tables[p] \in InnerTables
    OBVIOUS
<1>2. ExistingCapacity(p) \in Nat /\ Generation(p) + 1 \in Nat
    BY <1>1 DEF ExistingCapacity, Generation, InnerTables
<1>3. 2 * ExistingCapacity(p) \in Nat
    BY <1>2
<1>4. RoundCapacity(2 * ExistingCapacity(p)) \in Nat
    BY <1>3, RoundCapacityType
<1> QED BY <1>2, <1>4 DEF NewTable, InnerTables

\* The generation of a table is a natural number.
LEMMA GenerationType ==
    ASSUME TypeOK, NEW p \in 1 .. Len(tables)
    PROVE  Generation(p) \in Nat /\ Generation(p) + 1 \in Nat
<1> tables \in Seq(InnerTables)
    BY DEF TypeOK
<1>1. tables[p] \in InnerTables
    OBVIOUS
<1> QED BY <1>1 DEF Generation, InnerTables

\* Every step keeps the types.
LEMMA TypeStep == TypeOK /\ [GrowthNext]_growthVars => TypeOK'
<1> SUFFICES ASSUME TypeOK, [GrowthNext]_growthVars PROVE TypeOK'
    OBVIOUS
<1>1. ASSUME NEW t \in Threads, InsertCached(t) PROVE TypeOK'
    <2>1. PICK r \in todo[t] : pc[t] = "idle" /\ cache[t] # Null /\ Put(t, cache[t], r)
        BY <1>1 DEF InsertCached
    <2>2. r \in Rows /\ cache[t] \in 1 .. Len(tables) /\ UNCHANGED tables
        BY <1>1, <2>1 DEF InsertCached, TypeOK
    <2>3. /\ entries' \in Seq(Contents) /\ Len(entries') = Len(entries)
          /\ writes' \in [Threads -> Nat] /\ todo' \in [Threads -> SUBSET Rows]
          /\ displaced' \in SUBSET Rows
        BY <2>1, <2>2, PutContents
    <2> QED BY <1>1, <2>3 DEF InsertCached, TypeOK
<1>2. ASSUME NEW t \in Threads, MissCache(t) PROVE TypeOK'
    BY <1>2 DEF MissCache, Goto, TypeOK, Labels, sharedVars
<1>3. ASSUME NEW t \in Threads, LoadCurrent(t) PROVE TypeOK'
    <2>1. PICK p \in target[t] .. currentTable : target' = [target EXCEPT ![t] = p]
        BY <1>3 DEF LoadCurrent
    <2>2. p \in 1 .. Len(tables)
        BY DEF TypeOK
    <2>3. target' \in [Threads -> 1 .. Len(tables)]
        BY <2>1, <2>2 DEF TypeOK
    <2> QED BY <1>3, <2>3 DEF LoadCurrent, Goto, TypeOK, Labels, sharedVars
<1>4. ASSUME NEW t \in Threads, InsertTarget(t) PROVE TypeOK'
    <2>1. row[t] \in Rows /\ target[t] \in 1 .. Len(tables) /\ UNCHANGED tables
             /\ Put(t, target[t], row[t])
        BY <1>4 DEF InsertTarget, Goto, TypeOK
    <2>2. /\ entries' \in Seq(Contents) /\ Len(entries') = Len(entries)
          /\ writes' \in [Threads -> Nat] /\ todo' \in [Threads -> SUBSET Rows]
          /\ displaced' \in SUBSET Rows
        BY <2>1, PutContents
    <2> QED BY <1>4, <2>1, <2>2 DEF InsertTarget, Goto, TypeOK, Labels
<1>5. ASSUME NEW t \in Threads, FindFull(t) PROVE TypeOK'
    BY <1>5 DEF FindFull, Goto, TypeOK, Labels, sharedVars
<1>6. ASSUME NEW t \in Threads, ClaimMigration(t) PROVE TypeOK'
    <2>1. migrationState' \in MigrationStates
        BY <1>6 DEF ClaimMigration, TypeOK, MigrationStates
    <2> QED BY <1>6, <2>1 DEF ClaimMigration, Goto, TypeOK, Labels
<1>7. ASSUME NEW t \in Threads, LoseClaim(t) PROVE TypeOK'
    BY <1>7 DEF LoseClaim, Goto, TypeOK, Labels, sharedVars
<1>8. ASSUME NEW t \in Threads, SwapTable(t) PROVE TypeOK'
    <2> DEFINE new == Len(tables) + 1
    <2>1. target[t] \in 1 .. Len(tables) /\ currentTable \in 1 .. Len(tables)
        BY DEF TypeOK
    <2>2. /\ tables' \in Seq(InnerTables)
          /\ Len(tables') = new
        <3>1. PICK e \in InnerTables : tables' = Append(tables, e)
            BY <1>8, <2>1, NewTableType DEF SwapTable
        <3>2. tables \in Seq(InnerTables)
            BY DEF TypeOK
        <3> QED BY <3>1, <3>2
    <2>3. NoEntries \in Contents
        BY DEF NoEntries, Contents
    <2>4. entries' \in Seq(Contents) /\ Len(entries') = new
        <3>1. entries' = Append(entries, NoEntries)
            BY <1>8 DEF SwapTable
        <3>2. entries \in Seq(Contents) /\ Len(entries) = Len(tables)
            BY DEF TypeOK
        <3> QED BY <2>3, <3>1, <3>2
    <2>5. fullTables' \in Seq(1 .. new)
        <3>1. fullTables \in Seq(1 .. Len(tables)) /\ 1 .. Len(tables) \subseteq 1 .. new
            BY DEF TypeOK
        <3> QED BY <1>8, <3>1 DEF SwapTable
    <2>8. 1 .. Len(tables) \subseteq 1 .. new /\ new \in 1 .. new
        BY DEF TypeOK
    <2>6. /\ cache' \in [Threads -> (1 .. new) \cup {Null}]
          /\ target' \in [Threads -> 1 .. new]
          /\ replaced' \in [Threads -> 1 .. new]
          /\ fresh' \in [Threads -> 1 .. new]
        <3>1. /\ cache' = cache /\ target' = target
              /\ replaced' = [replaced EXCEPT ![t] = currentTable]
              /\ fresh' = [fresh EXCEPT ![t] = new]
            BY <1>8 DEF SwapTable
        <3>2. /\ cache \in [Threads -> (1 .. Len(tables)) \cup {Null}]
              /\ target \in [Threads -> 1 .. Len(tables)]
              /\ replaced \in [Threads -> 1 .. Len(tables)]
              /\ fresh \in [Threads -> 1 .. Len(tables)]
            BY DEF TypeOK
        <3> HIDE DEF new
        <3> QED BY <2>1, <2>8, <3>1, <3>2
    <2>7. pc' \in [Threads -> Labels] /\ \A u \in Threads : pc'[u] # "idle" => row'[u] \in Rows
        BY <1>8 DEF SwapTable, Goto, TypeOK, Labels
    <2> QED BY <1>8, <2>2, <2>4, <2>5, <2>6, <2>7 DEF SwapTable, TypeOK
<1>9. ASSUME NEW t \in Threads, CompleteMigration(t) PROVE TypeOK'
    <2>1. Generation(target[t]) + 1 \in Nat
        <3>1. target[t] \in 1 .. Len(tables)
            BY DEF TypeOK
        <3> QED BY <3>1, GenerationType
    <2>2. migrationState' \in MigrationStates
        <3>1. [generation |-> Generation(target[t]) + 1, claimed |-> FALSE] \in MigrationStates
            BY <2>1 DEF MigrationStates
        <3>2. migrationState \in MigrationStates
            BY DEF TypeOK
        <3> QED BY <1>9, <3>1, <3>2 DEF CompleteMigration
    <2> QED BY <1>9, <2>2 DEF CompleteMigration, TypeOK, Labels
<1>10. ASSUME NEW t \in Threads, PushFull(t) PROVE TypeOK'
    <2>1. fullTables' \in Seq(1 .. Len(tables))
        BY <1>10 DEF PushFull, TypeOK
    <2> QED BY <1>10, <2>1 DEF PushFull, Goto, TypeOK, Labels
<1>11. ASSUME NEW t \in Threads, WaitForTable(t) PROVE TypeOK'
    <2>1. PICK p \in target[t] .. currentTable : target' = [target EXCEPT ![t] = p]
        BY <1>11 DEF WaitForTable
    <2>2. p \in 1 .. Len(tables)
        BY DEF TypeOK
    <2>3. target' \in [Threads -> 1 .. Len(tables)]
        BY <2>1, <2>2 DEF TypeOK
    <2> QED BY <1>11, <2>3 DEF WaitForTable, Goto, TypeOK, Labels, sharedVars
<1>12. ASSUME UNCHANGED growthVars PROVE TypeOK'
    BY <1>12 DEF growthVars, TypeOK
<1> QED
    BY <1>1, <1>2, <1>3, <1>4, <1>5, <1>6, <1>7, <1>8, <1>9, <1>10, <1>11, <1>12
       DEF GrowthNext, Step, Finished

\* A step that leaves the shared state of the migration protocol and the threads
\* inside it alone keeps the invariant, provided full tables stay full and a
\* thread that comes to ask for a migration holds a full table.
LEMMA OutsideMigration ==
    ASSUME GrowthInv, TypeOK',
           UNCHANGED <<tables, currentTable, fullTables, migrationState, replaced, fresh>>,
           \A u \in Threads : pc'[u] \in {"publish", "complete", "push", "panicked"}
                                 \/ pc[u] \in {"publish", "complete", "push"}
                              => pc'[u] = pc[u] /\ target'[u] = target[u],
           \A q \in 1 .. Len(tables) : Full(q) => Full(q)',
           \A u \in Threads : pc'[u] \in {"claim", "wait"} => Full(target'[u])
    PROVE  GrowthInv'
<1> USE DEF GrowthInv
<1>1. /\ \A u \in Threads : Migrating(u)' <=> Migrating(u)
      /\ \A u \in Threads : Carrying(u)' <=> Carrying(u)
    BY DEF Migrating, Carrying
<1>2. Numbered'
    BY DEF Numbered, Generation
<1>3. MigrationTracksGeneration'
    BY <1>1 DEF MigrationTracksGeneration, Migrating
<1>4. CarriedIsOlder'
    BY <1>1 DEF CarriedIsOlder
<1>5. AskedWhenFull'
    <2> SUFFICES ASSUME NEW u \in Threads, pc'[u] \in {"claim", "publish", "complete", "wait"}
                 PROVE  Full(target[u])'
        BY DEF AskedWhenFull
    <2>1. PICK p \in 1 .. Len(tables) : p = target'[u]
        BY DEF TypeOK
    <2>2. Full(p)
        BY <2>1 DEF AskedWhenFull
    <2>3. Full(p)'
        BY <2>2
    <2> QED BY <2>1, <2>3 DEF Full, Held
<1>6. OneMigrator'
    BY <1>1 DEF OneMigrator
<1>7. OwnedOnce'
    BY <1>1 DEF OwnedOnce
<1>8. GrowsFromNewest'
    BY DEF GrowsFromNewest, Generation, ExistingCapacity
<1>9. ReplacedOnlyFull'
    BY DEF ReplacedOnlyFull
<1> QED BY <1>2, <1>3, <1>4, <1>5, <1>6, <1>7, <1>8, <1>9

\* What the invariant says about the one thread inside the protocol.
LEMMA InsideMigration ==
    ASSUME GrowthInv, NEW t \in Threads
    PROVE  /\ target[t] \in 1 .. currentTable /\ Generation(target[t]) = target[t] - 1
           /\ Migrating(t) => migrationState = [generation |-> target[t] - 1, claimed |-> TRUE]
           /\ ~migrationState.claimed => \A u \in Threads : ~Migrating(u)
           /\ pc[t] = "publish" => \A u \in Threads : pc[u] # "complete"
           /\ Migrating(t) => \A u \in Threads : u # t => ~Migrating(u)
<1>1. target[t] \in 1 .. currentTable /\ Generation(target[t]) = target[t] - 1
    BY DEF GrowthInv, TypeOK, Numbered
<1>2. Migrating(t) => \A u \in Threads : u # t => ~Migrating(u)
    BY DEF GrowthInv, OneMigrator
<1>3. pc[t] = "publish" => \A u \in Threads : pc[u] # "complete"
    BY <1>2 DEF Migrating
<1>4. Migrating(t) => migrationState = [generation |-> target[t] - 1, claimed |-> TRUE]
    BY DEF GrowthInv, MigrationTracksGeneration
<1>5. ~migrationState.claimed => \A u \in Threads : ~Migrating(u)
    BY DEF GrowthInv, MigrationTracksGeneration
<1> QED BY <1>1, <1>2, <1>3, <1>4, <1>5

\* claim_migration_relaxed lets a thread in only when nobody is, and only for the
\* newest table.
LEMMA ClaimMigrationStep ==
    ASSUME GrowthInv, TypeOK', NEW t \in Threads, ClaimMigration(t)
    PROVE  GrowthInv'
<1> USE DEF GrowthInv
<1>1. pc' = [pc EXCEPT ![t] = "publish"] /\ pc[t] = "claim" /\ pc \in [Threads -> Labels]
    BY DEF ClaimMigration, Goto, TypeOK
<1>2. /\ \A u \in Threads : ~Migrating(u)
      /\ target[t] \in 1 .. currentTable
      /\ migrationState.generation = target[t] - 1
      /\ migrationState' = [generation |-> target[t] - 1, claimed |-> TRUE]
    BY InsideMigration DEF ClaimMigration
<1>3. target[t] = currentTable
    <2>1. migrationState.generation = currentTable - 1
        BY <1>2 DEF MigrationTracksGeneration, Migrating
    <2> QED BY <1>2, <2>1 DEF TypeOK
<1>4. \A u \in Threads : Carrying(u)' <=> Carrying(u)
    BY <1>1 DEF Carrying
<1>5. \A u \in Threads : Migrating(u)' <=> u = t
    BY <1>1, <1>2 DEF Migrating
<1>6. Numbered' /\ GrowsFromNewest' /\ ReplacedOnlyFull'
    BY DEF ClaimMigration, Numbered, GrowsFromNewest, ReplacedOnlyFull, Generation,
           ExistingCapacity, Full, Held
<1>7. MigrationTracksGeneration'
    BY <1>1, <1>2, <1>3, <1>5 DEF ClaimMigration, MigrationTracksGeneration, Migrating
<1>8. CarriedIsOlder' /\ OwnedOnce'
    BY <1>4 DEF ClaimMigration, CarriedIsOlder, OwnedOnce
<1>9. OneMigrator'
    BY <1>1, <1>5 DEF OneMigrator
<1>10. AskedWhenFull'
    BY <1>1 DEF ClaimMigration, AskedWhenFull, Full, Held
<1> QED BY <1>6, <1>7, <1>8, <1>9, <1>10

\* complete_migration finds the state it left and hands the lock to the next generation.
LEMMA CompleteMigrationStep ==
    ASSUME GrowthInv, TypeOK', NEW t \in Threads, CompleteMigration(t)
    PROVE  GrowthInv'
<1> USE DEF GrowthInv
<1>1. /\ Migrating(t) /\ pc[t] = "complete"
      /\ target[t] = currentTable - 1 /\ currentTable \in Nat
      /\ Generation(target[t]) = target[t] - 1
    BY InsideMigration DEF CompleteMigration, Migrating, MigrationTracksGeneration, TypeOK
<1>2. /\ migrationState = [generation |-> Generation(target[t]), claimed |-> TRUE]
      /\ migrationState' = [generation |-> currentTable - 1, claimed |-> FALSE]
      /\ pc' = [pc EXCEPT ![t] = "push"] /\ pc \in [Threads -> Labels]
    BY <1>1, InsideMigration DEF CompleteMigration, TypeOK
<1>3. \A u \in Threads : ~Migrating(u)'
    BY <1>1, <1>2, InsideMigration DEF Migrating
<1>4. \A u \in Threads : Carrying(u)' <=> Carrying(u)
    BY <1>1, <1>2 DEF Carrying
<1>5. Numbered' /\ GrowsFromNewest' /\ ReplacedOnlyFull'
    BY DEF CompleteMigration, Numbered, GrowsFromNewest, ReplacedOnlyFull, Generation,
           ExistingCapacity, Full, Held
<1>6. MigrationTracksGeneration'
    BY <1>2, <1>3 DEF CompleteMigration, MigrationTracksGeneration, Migrating
<1>7. CarriedIsOlder' /\ OwnedOnce'
    BY <1>4 DEF CompleteMigration, CarriedIsOlder, OwnedOnce
<1>8. OneMigrator'
    BY <1>2, <1>3 DEF OneMigrator
<1>9. AskedWhenFull'
    BY <1>2 DEF CompleteMigration, AskedWhenFull, Full, Held
<1> QED BY <1>5, <1>6, <1>7, <1>8, <1>9

\* migrate_table up to the swap: the new table is the newest, the one it replaces
\* is full and in the hands of this thread.
LEMMA SwapTableStep ==
    ASSUME GrowthInv, TypeOK', NEW t \in Threads, SwapTable(t)
    PROVE  GrowthInv'
<1> USE DEF GrowthInv
<1> DEFINE n == Len(tables)
           e == NewTable(Generation(n) + 1, 2 * ExistingCapacity(n), ExistingCapacity(n))
<1>1. /\ pc[t] = "publish" /\ target[t] = n /\ currentTable = n /\ n \in Nat /\ n >= 1
      /\ Generation(n) = n - 1
      /\ migrationState = [generation |-> n - 1, claimed |-> TRUE]
      /\ \A u \in Threads : u # t => ~Migrating(u)
    <2>1. pc[t] = "publish" /\ Migrating(t)
        BY DEF SwapTable, Goto, Migrating
    <2>2. target[t] = n /\ currentTable = n /\ n \in Nat /\ n >= 1
        BY <2>1 DEF MigrationTracksGeneration, Numbered, TypeOK
    <2>3. Generation(n) = n - 1
        BY <2>2 DEF Numbered
    <2>4. migrationState = [generation |-> n - 1, claimed |-> TRUE]
        BY <2>1, <2>2 DEF MigrationTracksGeneration
    <2>5. \A u \in Threads : u # t => ~Migrating(u)
        BY <2>1 DEF OneMigrator
    <2> HIDE DEF n
    <2> QED BY <2>1, <2>2, <2>3, <2>4, <2>5
<1>2. /\ pc' = [pc EXCEPT ![t] = "complete"] /\ pc \in [Threads -> Labels]
      /\ tables' = Append(tables, e) /\ entries' = Append(entries, NoEntries)
      /\ currentTable' = n + 1
      /\ replaced' = [replaced EXCEPT ![t] = n] /\ replaced \in [Threads -> 1 .. n]
      /\ fresh' = [fresh EXCEPT ![t] = n + 1] /\ fresh \in [Threads -> 1 .. n]
      /\ UNCHANGED <<fullTables, migrationState, target>>
    BY <1>1 DEF SwapTable, Goto, TypeOK
<1>3. /\ Len(tables') = n + 1 /\ Len(entries') = n + 1
      /\ \A p \in 1 .. n : tables'[p] = tables[p] /\ entries'[p] = entries[p]
      /\ tables'[n + 1] = e
    <2>1. tables \in Seq(InnerTables) /\ entries \in Seq(Contents) /\ Len(entries) = n
        BY DEF TypeOK
    <2> HIDE DEF e
    <2> QED BY <1>2, <2>1
<1>4. /\ \A p \in 1 .. n : (Full(p) <=> Full(p)') /\ Generation(p)' = Generation(p)
                              /\ ExistingCapacity(p)' = ExistingCapacity(p)
    BY <1>3 DEF Full, Held, Generation, ExistingCapacity
<1>5. e.generation = n /\ e.previous = ExistingCapacity(n)
    BY <1>1 DEF NewTable
<1>6. /\ \A u \in Threads : Carrying(u)' <=> (Carrying(u) \/ u = t)
      /\ ~Carrying(t)
      /\ \A u \in Threads : Migrating(u)' <=> u = t
    BY <1>1, <1>2 DEF Carrying, Migrating
<1> HIDE DEF e
<1>7. Numbered'
    <2>1. ASSUME NEW p \in 1 .. n + 1 PROVE tables'[p].generation = p - 1
        <3>1. CASE p = n + 1
            BY <1>1, <1>3, <1>5, <3>1
        <3>2. CASE p \in 1 .. n
            BY <1>3, <3>2 DEF Numbered, Generation
        <3> QED BY <1>1, <3>1, <3>2
    <2> QED BY <1>2, <1>3, <2>1 DEF Numbered, Generation
<1>8. MigrationTracksGeneration'
    <2>1. pc'[t] = "complete" /\ target'[t] = n /\ fresh'[t] = n + 1 /\ (n + 1) - 1 = n
        BY <1>1, <1>2
    <2>2. \A u \in Threads : Migrating(u)' => u = t
        BY <1>6
    <2>3. \A u \in Threads : pc'[u] \in {"publish", "complete"} => u = t
        BY <2>2 DEF Migrating
    <2>4. Migrating(t)'
        BY <1>6
    <2> QED BY <1>1, <1>2, <2>1, <2>2, <2>3, <2>4 DEF MigrationTracksGeneration
<1>9. CarriedIsOlder'
    <2>1. \A u \in Threads : Carrying(u)' => replaced'[u] < n + 1
        BY <1>1, <1>2, <1>6
    <2>2. \A i \in 1 .. Len(fullTables) : fullTables[i] < n + 1
        <3>1. \A i \in 1 .. Len(fullTables) : fullTables[i] \in 1 .. n
            BY DEF TypeOK
        <3> QED BY <1>1, <3>1
    <2> QED BY <1>2, <2>1, <2>2 DEF CarriedIsOlder
<1>10. AskedWhenFull'
    <2> SUFFICES ASSUME NEW u \in Threads, pc'[u] \in {"claim", "publish", "complete", "wait"}
                 PROVE  Full(target[u])'
        BY DEF AskedWhenFull
    <2>1. pc[u] \in {"claim", "publish", "complete", "wait"} /\ target[u] \in 1 .. n
        BY <1>1, <1>2 DEF TypeOK
    <2>2. PICK p \in 1 .. n : p = target[u]
        BY <2>1
    <2>3. Full(p)'
        BY <2>1, <2>2, <1>4 DEF AskedWhenFull
    <2>4. p = target'[u]
        BY <1>2, <2>2
    <2> QED BY <2>3, <2>4 DEF Full, Held
<1>11. OneMigrator'
    BY <1>2, <1>6 DEF OneMigrator
<1>12. OwnedOnce'
    <2>1. \A u \in Threads : Carrying(u) => u # t /\ replaced'[u] = replaced[u] /\ replaced[u] < n
        BY <1>1, <1>2, <1>6 DEF CarriedIsOlder
    <2>2. \A i \in 1 .. Len(fullTables) : fullTables[i] < n
        BY <1>1 DEF CarriedIsOlder
    <2>3. replaced'[t] = n
        BY <1>2
    <2>4. \A u, v \in Threads : Carrying(u)' /\ Carrying(v)' /\ replaced'[u] = replaced'[v] => u = v
        BY <1>1, <1>6, <2>1, <2>3 DEF OwnedOnce
    <2>5. \A u \in Threads : Carrying(u)' =>
             \A i \in 1 .. Len(fullTables) : fullTables[i] # replaced'[u]
        BY <1>1, <1>6, <2>1, <2>2, <2>3 DEF OwnedOnce
    <2>6. ASSUME NEW p \in 1 .. n + 1, p # n + 1
          PROVE  \/ \E i \in 1 .. Len(fullTables) : fullTables[i] = p
                 \/ \E u \in Threads : Carrying(u)' /\ replaced'[u] = p
        <3>1. CASE p = n
            BY <1>6, <2>3, <3>1
        <3>2. CASE p # n
            BY <1>1, <1>6, <2>1, <2>6, <3>2 DEF OwnedOnce
        <3> QED BY <3>1, <3>2
    <2>7. \A u \in Threads : Carrying(u)' => replaced'[u] # n + 1
        BY <1>1, <1>6, <2>1, <2>3
    <2>8. \A i \in 1 .. Len(fullTables) : fullTables[i] # n + 1
        BY <1>1, <2>2
    <2>9. \A i, j \in 1 .. Len(fullTables) : fullTables[i] = fullTables[j] => i = j
        BY DEF OwnedOnce
    <2>10. fullTables' = fullTables /\ currentTable' = n + 1 /\ Len(tables') = n + 1
        BY <1>2, <1>3
    <2> HIDE DEF n
    <2> QED BY <2>4, <2>5, <2>6, <2>7, <2>8, <2>9, <2>10 DEF OwnedOnce
<1>13. GrowsFromNewest'
    <2>1. ASSUME NEW p \in 1 .. n
          PROVE  /\ tables'[p + 1].previous = ExistingCapacity(p)'
                 /\ tables'[p + 1].generation = Generation(p)' + 1
        <3>1. CASE p = n
            BY <1>1, <1>3, <1>4, <1>5, <3>1
        <3>2. CASE p # n
            <4>1. p + 1 \in 1 .. n /\ p \in 1 .. n - 1
                BY <1>1, <3>2
            <4> QED BY <1>3, <1>4, <4>1 DEF GrowsFromNewest, Generation
        <3> QED BY <3>1, <3>2
    <2> QED BY <1>1, <1>3, <2>1 DEF GrowsFromNewest, Generation
<1>14. ReplacedOnlyFull'
    <2>1. Full(n)
        BY <1>1 DEF AskedWhenFull
    <2>2. \A p \in 1 .. n : Full(p)
        BY <1>1, <2>1 DEF ReplacedOnlyFull
    <2>3. \A p \in 1 .. n : Full(p)'
        BY <1>4, <2>2
    <2> QED BY <1>1, <1>2, <1>3, <2>3 DEF ReplacedOnlyFull
<1> QED BY <1>7, <1>8, <1>9, <1>10, <1>11, <1>12, <1>13, <1>14

\* migrate_table after complete_migration: the table in the thread's hands moves to
\* full_tables, still owned once.
LEMMA PushFullStep ==
    ASSUME GrowthInv, TypeOK', NEW t \in Threads, PushFull(t)
    PROVE  GrowthInv'
<1> USE DEF GrowthInv
<1> DEFINE m == Len(fullTables)
<1>1. /\ pc[t] = "push" /\ Carrying(t) /\ ~Migrating(t)
      /\ pc' = [pc EXCEPT ![t] = "insert"] /\ pc \in [Threads -> Labels]
      /\ fullTables' = Append(fullTables, replaced[t])
      /\ target' = [target EXCEPT ![t] = fresh[t]] /\ target \in [Threads -> 1 .. Len(tables)]
      /\ UNCHANGED <<tables, entries, currentTable, migrationState, replaced, fresh>>
    BY DEF PushFull, Goto, Carrying, Migrating, TypeOK
<1>2. /\ Len(fullTables') = m + 1 /\ m \in Nat
      /\ \A i \in 1 .. m : fullTables'[i] = fullTables[i]
      /\ fullTables'[m + 1] = replaced[t]
    <2>1. fullTables \in Seq(1 .. Len(tables)) /\ replaced[t] \in 1 .. Len(tables)
        BY DEF TypeOK
    <2> QED BY <1>1, <2>1
<1>3. /\ \A u \in Threads : Carrying(u)' <=> (Carrying(u) /\ u # t)
      /\ \A u \in Threads : Migrating(u)' <=> Migrating(u)
    BY <1>1 DEF Carrying, Migrating
<1>4. Numbered' /\ GrowsFromNewest' /\ ReplacedOnlyFull'
    BY <1>1 DEF Numbered, GrowsFromNewest, ReplacedOnlyFull, Generation, ExistingCapacity,
                Full, Held
<1>5. MigrationTracksGeneration'
    BY <1>1, <1>3 DEF MigrationTracksGeneration, Migrating
<1>6. CarriedIsOlder'
    BY <1>1, <1>2, <1>3 DEF CarriedIsOlder
<1>7. AskedWhenFull'
    BY <1>1 DEF AskedWhenFull, Full, Held
<1>8. OneMigrator'
    BY <1>1, <1>3 DEF OneMigrator
<1>9. OwnedOnce'
    <2>1. \A i \in 1 .. m : fullTables[i] # replaced[t]
        BY <1>1 DEF OwnedOnce
    <2>2. \A i, j \in 1 .. m + 1 : fullTables'[i] = fullTables'[j] => i = j
        <3> SUFFICES ASSUME NEW i \in 1 .. m + 1, NEW j \in 1 .. m + 1,
                            fullTables'[i] = fullTables'[j]
                     PROVE  i = j
            OBVIOUS
        <3>1. CASE i \in 1 .. m /\ j \in 1 .. m
            BY <1>2, <3>1 DEF OwnedOnce
        <3>2. CASE i = m + 1 \/ j = m + 1
            BY <1>2, <2>1, <3>2
        <3> QED BY <1>2, <3>1, <3>2
    <2>3. \A u, v \in Threads : Carrying(u)' /\ Carrying(v)' /\ replaced'[u] = replaced'[v] => u = v
        BY <1>1, <1>3 DEF OwnedOnce
    <2>4. \A u \in Threads : Carrying(u)' =>
             \A i \in 1 .. m + 1 : fullTables'[i] # replaced'[u]
        BY <1>1, <1>2, <1>3 DEF OwnedOnce
    <2>5. ASSUME NEW p \in 1 .. Len(tables), p # currentTable
          PROVE  \/ \E i \in 1 .. m + 1 : fullTables'[i] = p
                 \/ \E u \in Threads : Carrying(u)' /\ replaced'[u] = p
        <3>1. CASE \E i \in 1 .. m : fullTables[i] = p
            BY <1>2, <3>1
        <3>2. CASE \E u \in Threads : Carrying(u) /\ replaced[u] = p
            <4>1. PICK u \in Threads : Carrying(u) /\ replaced[u] = p
                BY <3>2
            <4>2. CASE u = t
                BY <1>2, <4>1, <4>2
            <4>3. CASE u # t
                BY <1>1, <1>3, <4>1, <4>3
            <4> QED BY <4>2, <4>3
        <3> QED BY <2>5, <3>1, <3>2 DEF OwnedOnce
    <2>6. \A i \in 1 .. m + 1 : fullTables'[i] # currentTable
        BY <1>1, <1>2 DEF OwnedOnce
    <2>7. \A u \in Threads : Carrying(u)' => replaced'[u] # currentTable
        BY <1>1, <1>3 DEF OwnedOnce
    <2> QED BY <1>1, <1>2, <2>2, <2>3, <2>4, <2>5, <2>6, <2>7 DEF OwnedOnce
<1> QED BY <1>4, <1>5, <1>6, <1>7, <1>8, <1>9

\* Every step keeps the invariant.
LEMMA GrowthInvStep == GrowthInv /\ [GrowthNext]_growthVars => GrowthInv'
<1> SUFFICES ASSUME GrowthInv, [GrowthNext]_growthVars PROVE GrowthInv'
    OBVIOUS
<1> USE DEF GrowthInv
<1>1. TypeOK'
    BY TypeStep
<1>2. ASSUME NEW t \in Threads, InsertCached(t) PROVE GrowthInv'
    <2>1. PICK r \in todo[t] : pc[t] = "idle" /\ cache[t] # Null /\ Put(t, cache[t], r)
        BY <1>2 DEF InsertCached
    <2>2. r \in Rows /\ cache[t] \in 1 .. Len(tables) /\ UNCHANGED tables
        BY <1>2, <2>1 DEF InsertCached, TypeOK
    <2>3. \A q \in 1 .. Len(tables) : Full(q) => Full(q)'
        BY <2>1, <2>2, PutContents
    <2>4. UNCHANGED <<pc, target>>
        BY <1>2 DEF InsertCached
    <2>5. \A u \in Threads : pc'[u] \in {"claim", "wait"} => Full(target'[u])
        BY <2>4 DEF AskedWhenFull
    <2>6. \A u \in Threads : pc'[u] # "panicked"
        BY <2>4 DEF OneMigrator
    <2> QED BY <1>1, <1>2, <2>3, <2>4, <2>5, <2>6, OutsideMigration DEF InsertCached
<1>3. ASSUME NEW t \in Threads, MissCache(t) PROVE GrowthInv'
    <2>1. pc' = [pc EXCEPT ![t] = "load"] /\ pc[t] = "idle" /\ pc \in [Threads -> Labels]
        BY <1>3 DEF MissCache, Goto, TypeOK
    <2> QED BY <1>1, <1>3, <2>1, OutsideMigration
            DEF MissCache, sharedVars, Full, Held, AskedWhenFull, OneMigrator
<1>4. ASSUME NEW t \in Threads, LoadCurrent(t) PROVE GrowthInv'
    <2>1. pc' = [pc EXCEPT ![t] = "insert"] /\ pc[t] = "load" /\ pc \in [Threads -> Labels]
        BY <1>4 DEF LoadCurrent, Goto, TypeOK
    <2>2. \A u \in Threads \ {t} : target'[u] = target[u]
        BY <1>4 DEF LoadCurrent, TypeOK
    <2> QED BY <1>1, <1>4, <2>1, <2>2, OutsideMigration
            DEF LoadCurrent, sharedVars, Full, Held, AskedWhenFull, OneMigrator
<1>5. ASSUME NEW t \in Threads, InsertTarget(t) PROVE GrowthInv'
    <2>1. /\ row[t] \in Rows /\ target[t] \in 1 .. Len(tables) /\ UNCHANGED tables
          /\ Put(t, target[t], row[t])
        BY <1>5 DEF InsertTarget, Goto, TypeOK
    <2>2. \A q \in 1 .. Len(tables) : Full(q) => Full(q)'
        BY <2>1, PutContents
    <2>3. pc' = [pc EXCEPT ![t] = "idle"] /\ pc[t] = "insert" /\ pc \in [Threads -> Labels]
        BY <1>5 DEF InsertTarget, Goto, TypeOK
    <2>4. UNCHANGED <<tables, currentTable, fullTables, migrationState, target, replaced, fresh>>
        BY <1>5 DEF InsertTarget
    <2>5. \A u \in Threads : pc'[u] \in {"claim", "wait"} => Full(target'[u])
        BY <2>3, <2>4 DEF AskedWhenFull
    <2>6. \A u \in Threads : pc'[u] # "panicked"
        BY <2>3 DEF OneMigrator
    <2>7. \A u \in Threads : pc'[u] \in {"publish", "complete", "push", "panicked"}
                                 \/ pc[u] \in {"publish", "complete", "push"}
                              => pc'[u] = pc[u] /\ target'[u] = target[u]
        BY <2>3, <2>4, <2>6
    <2> QED BY <1>1, <2>2, <2>4, <2>5, <2>7, OutsideMigration
<1>6. ASSUME NEW t \in Threads, FindFull(t) PROVE GrowthInv'
    <2>1. pc' = [pc EXCEPT ![t] = "claim"] /\ pc[t] = "insert" /\ pc \in [Threads -> Labels]
        BY <1>6 DEF FindFull, Goto, TypeOK
    <2>2. Full(target[t])
        BY <1>6 DEF FindFull, Accepts
    <2> QED BY <1>1, <1>6, <2>1, <2>2, OutsideMigration
            DEF FindFull, sharedVars, Full, Held, AskedWhenFull, OneMigrator
<1>7. ASSUME NEW t \in Threads, ClaimMigration(t) PROVE GrowthInv'
    BY <1>1, <1>7, ClaimMigrationStep
<1>8. ASSUME NEW t \in Threads, LoseClaim(t) PROVE GrowthInv'
    <2>1. pc' = [pc EXCEPT ![t] = "wait"] /\ pc[t] = "claim" /\ pc \in [Threads -> Labels]
        BY <1>8 DEF LoseClaim, Goto, TypeOK
    <2> QED BY <1>1, <1>8, <2>1, OutsideMigration
            DEF LoseClaim, sharedVars, Full, Held, AskedWhenFull, OneMigrator
<1>9. ASSUME NEW t \in Threads, SwapTable(t) PROVE GrowthInv'
    BY <1>1, <1>9, SwapTableStep
<1>10. ASSUME NEW t \in Threads, CompleteMigration(t) PROVE GrowthInv'
    BY <1>1, <1>10, CompleteMigrationStep
<1>11. ASSUME NEW t \in Threads, PushFull(t) PROVE GrowthInv'
    BY <1>1, <1>11, PushFullStep
<1>12. ASSUME NEW t \in Threads, WaitForTable(t) PROVE GrowthInv'
    <2>1. pc' = [pc EXCEPT ![t] = "insert"] /\ pc[t] = "wait" /\ pc \in [Threads -> Labels]
        BY <1>12 DEF WaitForTable, Goto, TypeOK
    <2>2. \A u \in Threads \ {t} : target'[u] = target[u]
        BY <1>12 DEF WaitForTable, TypeOK
    <2> QED BY <1>1, <1>12, <2>1, <2>2, OutsideMigration
            DEF WaitForTable, sharedVars, Full, Held, AskedWhenFull, OneMigrator
<1>13. ASSUME UNCHANGED growthVars PROVE GrowthInv'
    <2>1. UNCHANGED <<tables, entries, currentTable, fullTables, migrationState, pc, target,
                      replaced, fresh>>
        BY <1>13 DEF growthVars
    <2> QED BY <1>1, <2>1, OutsideMigration DEF Full, Held, AskedWhenFull, OneMigrator
<1> QED
    BY <1>2, <1>3, <1>4, <1>5, <1>6, <1>7, <1>8, <1>9, <1>10, <1>11, <1>12, <1>13
       DEF GrowthNext, Step, Finished

\* The inductive invariant holds in every behaviour of the insert path.
THEOREM GrowthInvariant == GrowthSpec => []GrowthInv
<1>1. Init => GrowthInv
    BY GrowthInvInit
<1>2. GrowthInv /\ [GrowthNext]_growthVars => GrowthInv'
    BY GrowthInvStep
<1> QED BY <1>1, <1>2, PTL DEF GrowthSpec

\* migration_state works as a lock and complete_migration never panics.
THEOREM MigrationIsExclusive == GrowthSpec => []OneMigrator
<1>1. GrowthInv => OneMigrator
    BY DEF GrowthInv
<1> QED BY <1>1, GrowthInvariant, PTL

\* Every table taken out of current_table reaches full_tables exactly once.
THEOREM TablesOwnedOnce == GrowthSpec => []OwnedOnce
<1>1. GrowthInv => OwnedOnce
    BY DEF GrowthInv
<1> QED BY <1>1, GrowthInvariant, PTL

\* Each table is sized from its direct predecessor, with no generation skipped.
THEOREM GrowthFromNewest == GrowthSpec => []GrowsFromNewest
<1>1. GrowthInv => GrowsFromNewest
    BY DEF GrowthInv
<1> QED BY <1>1, GrowthInvariant, PTL

\* Only full tables are ever replaced.
THEOREM OnlyFullReplaced == GrowthSpec => []ReplacedOnlyFull
<1>1. GrowthInv => ReplacedOnlyFull
    BY DEF GrowthInv
<1> QED BY <1>1, GrowthInvariant, PTL
==============================================================================
