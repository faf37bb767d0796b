----------------------- MODULE SharedTableBuilderProofs -----------------------
(***************************************************************************)
(* Proofs about SharedTableBuilder: the growth protocol keeps its          *)
(* invariant inside the whole build, the last handle finds every table,    *)
(* nobody inserts once it has taken the builder apart, the writes that the *)
(* threads count are the cells written, the destination has room for every *)
(* pair, and the published table has every hash.                           *)
(***************************************************************************)
EXTENDS SharedTableBuilder, TableGrowthProofs, NumberLemmas

\* WriteOnlyTable::new establishes the invariant: no compaction yet, every handle held.
THEOREM BuilderInvInit == BuilderInit => BuilderInv
<1> SUFFICES ASSUME BuilderInit PROVE BuilderInv
    OBVIOUS
<1>1. GrowthInv
    BY GrowthInvInit DEF BuilderInit
<1>2. BuilderTypeOK
    <2>1. compactor \in [capacity : Nat, sources : Seq(1 .. Len(tables)), reuses : BOOLEAN]
        <3>1. <<>> \in Seq(1 .. Len(tables)) /\ 0 \in Nat /\ FALSE \in BOOLEAN
            OBVIOUS
        <3> QED BY <3>1 DEF BuilderInit, NoCompactor
    <2>2. \A h \in DOMAIN destination : destination[h] \in Rows \cup {DefaultRow}
        BY DEF BuilderInit, NoEntries
    <2>3. pending \in [Threads -> SUBSET ((Hashes \cup {ZeroHash}) \X (Rows \cup {DefaultRow}))]
        BY DEF BuilderInit
    <2>4. phase \in [Threads -> Phases]
        BY DEF BuilderInit, Phases
    <2>5. /\ writers \subseteq Threads \cup Spares /\ cellReaders \subseteq Threads
          /\ holders \subseteq Threads /\ totalSize \in Nat /\ nextSource \in Nat \ {0}
        BY DEF BuilderInit
    <2>6. completed \in BOOLEAN
        BY Zenon DEF BuilderInit
    <2> QED BY <2>1, <2>2, <2>3, <2>4, <2>5, <2>6 DEF BuilderTypeOK
<1>3. HoldersInsert
    BY DEF BuilderInit, HoldersInsert, Init
<1>4. NoTableLeftBehind
    BY DEF BuilderInit, NoTableLeftBehind
<1> QED BY <1>1, <1>2, <1>3, <1>4 DEF BuilderInv

\* A step of the insert path moves its own thread only and frees no table.
LEMMA StepIsLocal ==
    ASSUME TypeOK, NEW t \in Threads, Step(t)
    PROVE  /\ \A u \in Threads \ {t} : pc'[u] = pc[u]
           /\ Len(tables') >= Len(tables)
<1> USE DEF TypeOK
<1>1. CASE InsertCached(t) BY <1>1 DEF InsertCached
<1>2. CASE MissCache(t) BY <1>2 DEF MissCache, Goto, sharedVars
<1>3. CASE LoadCurrent(t) BY <1>3 DEF LoadCurrent, Goto, sharedVars
<1>4. CASE InsertTarget(t) BY <1>4 DEF InsertTarget, Goto
<1>5. CASE FindFull(t) BY <1>5 DEF FindFull, Goto, sharedVars
<1>6. CASE ClaimMigration(t) BY <1>6 DEF ClaimMigration, Goto
<1>7. CASE LoseClaim(t) BY <1>7 DEF LoseClaim, Goto, sharedVars
<1>8. CASE SwapTable(t)
    <2>1. NewTable(Generation(target[t]) + 1, 2 * ExistingCapacity(target[t]),
                   ExistingCapacity(target[t])) \in InnerTables
        BY NewTableType, GenerationType, RoundCapacityType DEF NewTable, InnerTables
    <2>2. Len(tables') = Len(tables) + 1
        BY <1>8, <2>1 DEF SwapTable
    <2> QED BY <1>8, <2>2 DEF SwapTable, Goto
<1>9. CASE CompleteMigration(t) BY <1>9 DEF CompleteMigration
<1>10. CASE PushFull(t) BY <1>10 DEF PushFull, Goto
<1>11. CASE WaitForTable(t) BY <1>11 DEF WaitForTable, Goto, sharedVars
<1> QED BY <1>1, <1>2, <1>3, <1>4, <1>5, <1>6, <1>7, <1>8, <1>9, <1>10, <1>11 DEF Step

\* Every step of the build is a step of the growth protocol, or leaves it alone.
LEMMA BuilderStepIsGrowthStep ==
    [BuilderNext]_builderVars => [GrowthNext]_growthVars
<1> SUFFICES ASSUME [BuilderNext]_builderVars PROVE [GrowthNext]_growthVars
    OBVIOUS
<1>1. ASSUME NEW t \in Threads, Insert(t) PROVE GrowthNext
    BY <1>1 DEF Insert, GrowthNext
<1>2. ASSUME NEW t \in Threads, ThreadStep(t), ~Insert(t) PROVE UNCHANGED growthVars
    BY <1>2 DEF ThreadStep, AddSize, ReleaseHandle, SetUp, ReadCompactor, DropReader, TakeSource,
               CopyPair, SourceCopied, Finish, ReadResult
<1>3. ASSUME NEW s \in Spares, DropHandle(s) PROVE UNCHANGED growthVars
    BY <1>3 DEF DropHandle
<1>4. ASSUME AllReturned \/ UNCHANGED builderVars PROVE UNCHANGED growthVars
    BY <1>4 DEF AllReturned, builderVars, growthVars
<1> QED BY <1>1, <1>2, <1>3, <1>4 DEF BuilderNext

\* What a source table yields is made of hashes and rows, or the default pair.
LEMMA YieldsType ==
    ASSUME TypeOK, NEW p \in 1 .. Len(tables), NEW pairs \in Yields(p)
    PROVE  pairs \subseteq (Hashes \cup {ZeroHash}) \X (Rows \cup {DefaultRow})
<1>1. entries[p] \in Contents
    BY DEF TypeOK
<1>2. PICK H \in SUBSET Hashes : entries[p] \in [H -> Rows]
    BY <1>1 DEF Contents
<1>3. Pairs(p) \subseteq (Hashes \cup {ZeroHash}) \X (Rows \cup {DefaultRow})
    BY <1>2 DEF Pairs, Held
<1> QED BY <1>3 DEF Yields

\* Every step keeps the types of what compact works on.
LEMMA BuilderTypeStep ==
    BuilderInv /\ GrowthInv' /\ [BuilderNext]_builderVars => BuilderTypeOK'
<1> SUFFICES ASSUME BuilderInv, GrowthInv', [BuilderNext]_builderVars PROVE BuilderTypeOK'
    OBVIOUS
<1>1. TypeOK /\ BuilderTypeOK /\ TypeOK'
    BY DEF BuilderInv, GrowthInv
<1> USE DEF BuilderTypeOK
<1>2. ASSUME NEW t \in Threads, Insert(t) PROVE BuilderTypeOK'
    <2>1. Len(tables) \in Nat /\ Len(tables') \in Nat /\ Len(tables') >= Len(tables)
        <3>1. Step(t)
            BY <1>2 DEF Insert
        <3>2. Len(tables') >= Len(tables)
            BY <1>1, <3>1, StepIsLocal
        <3>3. tables \in Seq(InnerTables) /\ tables' \in Seq(InnerTables)
            BY <1>1 DEF TypeOK
        <3> QED BY <3>2, <3>3
    <2>2. Seq(1 .. Len(tables)) \subseteq Seq(1 .. Len(tables'))
        BY <2>1
    <2>3. UNCHANGED <<phase, compactVars>>
        BY <1>2 DEF Insert
    <2> QED BY <1>1, <2>2, <2>3 DEF compactVars
<1>3. ASSUME NEW t \in Threads, AddSize(t) PROVE BuilderTypeOK'
    BY <1>1, <1>3 DEF AddSize, Enter, growthVars, Phases, TypeOK
<1>4. ASSUME NEW t \in Threads, ReleaseHandle(t) PROVE BuilderTypeOK'
    BY <1>1, <1>4 DEF ReleaseHandle, growthVars, Phases
<1>5. ASSUME NEW t \in Threads, SetUp(t) PROVE BuilderTypeOK'
    <2> DEFINE cur == currentTable
    <2>1. /\ tables \in Seq(InnerTables) /\ fullTables \in Seq(1 .. Len(tables))
          /\ cur \in 1 .. Len(tables) /\ entries \in Seq(Contents) /\ Len(entries) = Len(tables)
        BY <1>1 DEF TypeOK
    <2>2. tables[cur].capacity \in Nat /\ RoundCapacity(totalSize) \in Nat
        <3>1. totalSize \in Nat /\ tables[cur] \in InnerTables
            BY <1>1, <2>1
        <3>2. RoundCapacity(totalSize) \in Nat
            BY <3>1, RoundCapacityType
        <3> QED BY <3>1, <3>2 DEF InnerTables
    <2>3. Append(fullTables, cur) \in Seq(1 .. Len(tables))
        BY <2>1
    <2>4. compactor' \in [capacity : Nat, sources : Seq(1 .. Len(tables)), reuses : BOOLEAN]
        <3>1. \/ compactor' = [capacity |-> RoundCapacity(totalSize), reuses |-> FALSE,
                               sources |-> Append(fullTables, cur)]
              \/ compactor' = [capacity |-> tables[cur].capacity, reuses |-> TRUE,
                               sources |-> fullTables]
            BY <1>5 DEF SetUp
        <3>2. UNCHANGED tables
            BY <1>5 DEF SetUp, growthVars
        <3>3. TRUE \in BOOLEAN /\ FALSE \in BOOLEAN
            OBVIOUS
        <3>4. CASE compactor' = [capacity |-> RoundCapacity(totalSize), reuses |-> FALSE,
                                 sources |-> Append(fullTables, cur)]
            BY <2>2, <2>3, <3>2, <3>3, <3>4, Zenon
        <3>5. CASE compactor' = [capacity |-> tables[cur].capacity, reuses |-> TRUE,
                                 sources |-> fullTables]
            BY <2>1, <2>2, <3>2, <3>3, <3>5, Zenon
        <3> QED BY <3>1, <3>4, <3>5
    <2>5. \A h \in DOMAIN destination' : destination'[h] \in Rows \cup {DefaultRow}
        <3>1. entries[cur] \in Contents
            BY <2>1
        <3>2. \A h \in DOMAIN entries[cur] : entries[cur][h] \in Rows
            BY <3>1 DEF Contents
        <3> QED BY <1>5, <3>2 DEF SetUp, NoEntries
    <2>6. UNCHANGED <<tables, writers, totalSize, cellReaders, nextSource, pending, completed>>
        BY <1>5 DEF SetUp, growthVars
    <2>7. holders' \subseteq Threads /\ phase' \in [Threads -> Phases]
        BY <1>1, <1>5 DEF SetUp, Enter, Phases
    <2> QED BY <1>1, <2>4, <2>5, <2>6, <2>7
<1>6. ASSUME NEW t \in Threads, ReadCompactor(t) PROVE BuilderTypeOK'
    BY <1>1, <1>6 DEF ReadCompactor, Enter, growthVars, Phases
<1>7. ASSUME NEW t \in Threads, DropReader(t) PROVE BuilderTypeOK'
    BY <1>1, <1>7 DEF DropReader, Enter, growthVars, Phases
<1>8. ASSUME NEW t \in Threads, TakeSource(t) PROVE BuilderTypeOK'
    <2>1. PICK pairs \in Yields(compactor.sources[nextSource]) :
             pending' = [pending EXCEPT ![t] = pairs]
        BY <1>8 DEF TakeSource
    <2>2. nextSource \in 1 .. Len(compactor.sources)
        BY <1>1, <1>8 DEF TakeSource
    <2>3. compactor.sources[nextSource] \in 1 .. Len(tables)
        BY <1>1, <2>2
    <2>4. pairs \subseteq (Hashes \cup {ZeroHash}) \X (Rows \cup {DefaultRow})
        BY <1>1, <2>3, YieldsType
    <2>5. pending' \in [Threads -> SUBSET ((Hashes \cup {ZeroHash}) \X (Rows \cup {DefaultRow}))]
        BY <1>1, <2>1, <2>4
    <2>6. /\ UNCHANGED <<tables, writers, totalSize, cellReaders, compactor, holders, destination,
                         completed>>
          /\ nextSource' \in Nat \ {0} /\ phase' \in [Threads -> Phases]
        BY <1>1, <1>8 DEF TakeSource, Enter, growthVars, Phases
    <2> QED BY <1>1, <2>5, <2>6
<1>9. ASSUME NEW t \in Threads, CopyPair(t) PROVE BuilderTypeOK'
    <2>1. PICK pair \in pending[t] :
             \/ /\ destination' = [h \in DOMAIN destination \cup {pair[1]} |->
                                     IF h = pair[1] THEN pair[2] ELSE destination[h]]
                /\ pending' = [pending EXCEPT ![t] = @ \ {pair}]
                /\ UNCHANGED <<phase, holders>>
             \/ /\ phase' = [phase EXCEPT ![t] = "panicked"]
                /\ holders' = holders \ {t}
                /\ UNCHANGED <<destination, pending>>
        BY <1>9 DEF CopyPair
    <2>2. pair[2] \in Rows \cup {DefaultRow}
        BY <1>1
    <2>3. /\ \A h \in DOMAIN destination' : destination'[h] \in Rows \cup {DefaultRow}
          /\ pending' \in [Threads -> SUBSET ((Hashes \cup {ZeroHash}) \X (Rows \cup {DefaultRow}))]
        BY <1>1, <2>1, <2>2
    <2>4. phase' \in [Threads -> Phases] /\ holders' \subseteq Threads
        BY <1>1, <2>1 DEF Phases
    <2>5. UNCHANGED <<tables, writers, totalSize, cellReaders, compactor, nextSource, completed>>
        BY <1>9 DEF CopyPair, growthVars
    <2> QED BY <1>1, <2>3, <2>4, <2>5
<1>10. ASSUME NEW t \in Threads, SourceCopied(t) PROVE BuilderTypeOK'
    BY <1>1, <1>10 DEF SourceCopied, Enter, growthVars, compactVars, Phases
<1>11. ASSUME NEW t \in Threads, Finish(t) PROVE BuilderTypeOK'
    <2>1. /\ UNCHANGED <<tables, writers, totalSize, cellReaders, compactor, destination, pending>>
          /\ nextSource' \in Nat \ {0} /\ holders' \subseteq Threads
        BY <1>1, <1>11 DEF Finish, growthVars
    <2>2. phase' \in [Threads -> Phases]
        BY <1>1, <1>11 DEF Finish, Phases
    <2>3. completed' \in BOOLEAN
        <3>1. completed \in BOOLEAN
            BY <1>1
        <3>2. completed' = TRUE \/ completed' = completed
            BY <1>11, Zenon DEF Finish
        <3> QED BY <3>1, <3>2, Zenon
    <2> QED BY <1>1, <2>1, <2>2, <2>3
<1>12. ASSUME NEW t \in Threads, ReadResult(t) PROVE BuilderTypeOK'
    BY <1>1, <1>12 DEF ReadResult, Enter, growthVars, compactVars, Phases
<1>13. ASSUME NEW s \in Spares, DropHandle(s) PROVE BuilderTypeOK'
    BY <1>1, <1>13 DEF DropHandle, growthVars
<1>14. ASSUME UNCHANGED builderVars PROVE BuilderTypeOK'
    BY <1>1, <1>14 DEF builderVars
<1> QED BY <1>2, <1>3, <1>4, <1>5, <1>6, <1>7, <1>8, <1>9, <1>10, <1>11, <1>12, <1>13, <1>14
        DEF BuilderNext, ThreadStep, AllReturned

\* Whoever may still insert holds the builder, whatever handles are dropped or released.
LEMMA HoldersInsertStep ==
    BuilderInv /\ [BuilderNext]_builderVars => HoldersInsert'
<1> SUFFICES ASSUME BuilderInv, [BuilderNext]_builderVars PROVE HoldersInsert'
    OBVIOUS
<1>1. TypeOK /\ BuilderTypeOK /\ HoldersInsert
    BY DEF BuilderInv, GrowthInv
<1> USE DEF HoldersInsert
<1>2. ASSUME NEW t \in Threads, Insert(t) PROVE HoldersInsert'
    <2>1. \A u \in Threads \ {t} : pc'[u] = pc[u]
        BY <1>1, <1>2, StepIsLocal DEF Insert
    <2> QED BY <1>1, <1>2, <2>1 DEF Insert, compactVars
<1>3. ASSUME NEW t \in Threads, AddSize(t) PROVE HoldersInsert'
    BY <1>1, <1>3 DEF AddSize, Enter, growthVars, BuilderTypeOK
<1>4. ASSUME NEW t \in Threads, ReleaseHandle(t) PROVE HoldersInsert'
    BY <1>1, <1>4 DEF ReleaseHandle, growthVars, BuilderTypeOK
<1>5. ASSUME NEW t \in Threads, SetUp(t) PROVE HoldersInsert'
    BY <1>1, <1>5 DEF SetUp, Enter, growthVars, BuilderTypeOK
<1>6. ASSUME NEW t \in Threads, ThreadStep(t), ~Insert(t), ~AddSize(t), ~ReleaseHandle(t), ~SetUp(t)
      PROVE  HoldersInsert'
    <2>1. UNCHANGED <<growthVars, writers, compactor>>
        BY <1>6 DEF ThreadStep, ReadCompactor, DropReader, TakeSource, CopyPair, SourceCopied,
                    Finish, ReadResult, compactVars
    <2>2. /\ phase[t] \in {"read", "dropReader", "take", "copy", "await"}
          /\ \/ phase' = phase
             \/ \E to \in {"dropReader", "take", "copy", "panicked", "done", "await"} :
                    phase' = [phase EXCEPT ![t] = to]
        BY <1>6 DEF ThreadStep, ReadCompactor, DropReader, TakeSource, CopyPair, SourceCopied,
                    Finish, ReadResult, Enter
    <2> QED BY <1>1, <2>1, <2>2 DEF growthVars, BuilderTypeOK
<1>7. ASSUME NEW s \in Spares, DropHandle(s) PROVE HoldersInsert'
    BY <1>1, <1>7, SparesAssumption DEF DropHandle, growthVars
<1>8. ASSUME AllReturned \/ UNCHANGED builderVars PROVE HoldersInsert'
    BY <1>1, <1>8 DEF AllReturned, builderVars
<1> QED BY <1>2, <1>3, <1>4, <1>5, <1>6, <1>7, <1>8 DEF BuilderNext

\* With every thread out of insert, full_tables lists each table but the current
\* one, once.
LEMMA QuietTablesListed ==
    ASSUME GrowthInv, \A t \in Threads : pc[t] = "idle"
    PROVE  /\ {fullTables[i] : i \in 1 .. Len(fullTables)} = 1 .. Len(tables) \ {currentTable}
           /\ Len(fullTables) = Len(tables) - 1
<1> DEFINE n == Len(fullTables)
           m == Len(tables)
           f == [i \in 1 .. n |-> fullTables[i]]
           older == 1 .. m \ {currentTable}
<1>1. /\ fullTables \in Seq(1 .. m) /\ currentTable \in 1 .. m /\ n \in Nat /\ m \in Nat
      /\ \A i \in 1 .. n : fullTables[i] \in 1 .. m
    <2>1. tables \in Seq(InnerTables) /\ fullTables \in Seq(1 .. m) /\ currentTable \in 1 .. m
        BY DEF GrowthInv, TypeOK
    <2> QED BY <2>1
<1>2. /\ \A i, j \in 1 .. n : fullTables[i] = fullTables[j] => i = j
      /\ \A p \in 1 .. m : p = currentTable \/ \E i \in 1 .. n : fullTables[i] = p
      /\ \A i \in 1 .. n : fullTables[i] # currentTable
    BY DEF GrowthInv, OwnedOnce, Carrying
<1>3. {fullTables[i] : i \in 1 .. n} = older
    <2>1. \A p \in {fullTables[i] : i \in 1 .. n} : p \in older
        BY <1>1, <1>2
    <2>2. \A p \in older : p \in {fullTables[i] : i \in 1 .. n}
        BY <1>2
    <2> QED BY <2>1, <2>2
<1>4. f \in Bijection(1 .. n, older)
    BY <1>1, <1>2 DEF Bijection, Injection, Surjection, IsInjective
<1>5. IsFiniteSet(1 .. n) /\ Cardinality(1 .. n) = n
    <2> HIDE DEF n
    <2>1. n \in Nat /\ n \in Int /\ 1 \in Int
        BY <1>1
    <2>2. IsFiniteSet(1 .. n) /\ Cardinality(1 .. n) = IF 1 > n THEN 0 ELSE n - 1 + 1
        BY <2>1, FS_Interval
    <2> QED BY <2>1, <2>2
<1>6. Cardinality(older) = n
    BY <1>4, <1>5, FS_Bijection DEF ExistsBijection
<1>7. IsFiniteSet(1 .. m) /\ Cardinality(1 .. m) = m
    <2> HIDE DEF m
    <2>1. m \in Nat /\ m \in Int /\ 1 \in Int
        BY <1>1
    <2>2. IsFiniteSet(1 .. m) /\ Cardinality(1 .. m) = IF 1 > m THEN 0 ELSE m - 1 + 1
        BY <2>1, FS_Interval
    <2> QED BY <2>1, <2>2
<1>8. Cardinality(older) = m - 1
    BY <1>1, <1>7, FS_RemoveElement
<1> QED BY <1>3, <1>6, <1>8

\* SetUp finds every table in full_tables or in current_table; no later step of
\* compact changes the sources or allocates a table.
LEMMA NoTableLeftBehindStep ==
    BuilderInv /\ [BuilderNext]_builderVars => NoTableLeftBehind'
<1> SUFFICES ASSUME BuilderInv, [BuilderNext]_builderVars PROVE NoTableLeftBehind'
    OBVIOUS
<1>1. /\ GrowthInv /\ TypeOK /\ BuilderTypeOK /\ HoldersInsert /\ NoTableLeftBehind
    BY DEF BuilderInv, GrowthInv
<1>2. ASSUME NEW t \in Threads, Insert(t) PROVE NoTableLeftBehind'
    <2>1. compactor = NoCompactor /\ compactor' = compactor
        BY <1>1, <1>2 DEF Insert, HoldersInsert, compactVars
    <2> QED BY <2>1 DEF NoTableLeftBehind, NoCompactor
<1>3. ASSUME NEW t \in Threads, SetUp(t) PROVE NoTableLeftBehind'
    <2>1. \A u \in Threads : pc[u] = "idle"
        <3>1. phase[t] = "setup"
            BY <1>3 DEF SetUp, Enter
        <3>2. \A u \in Threads : phase[u] # "insert"
            BY <1>1, <3>1 DEF HoldersInsert
        <3> QED BY <1>1, <3>2 DEF HoldersInsert
    <2>2. /\ {fullTables[i] : i \in 1 .. Len(fullTables)} = 1 .. Len(tables) \ {currentTable}
          /\ Len(fullTables) = Len(tables) - 1
        BY <1>1, <2>1, QuietTablesListed
    <2>3. UNCHANGED <<tables, currentTable>>
        BY <1>3 DEF SetUp, growthVars
    <2>4. /\ tables \in Seq(InnerTables) /\ fullTables \in Seq(1 .. Len(tables))
          /\ currentTable \in 1 .. Len(tables)
        BY <1>1 DEF TypeOK
    <2>5. CASE compactor'.reuses /\ compactor'.sources = fullTables
        BY <2>2, <2>3, <2>5 DEF NoTableLeftBehind
    <2>6. CASE ~compactor'.reuses /\ compactor'.sources = Append(fullTables, currentTable)
        <3> DEFINE all == Append(fullTables, currentTable)
        <3>1. Len(all) = Len(tables) /\ Len(all) = Len(fullTables) + 1
            BY <2>2, <2>4
        <3>2. /\ \A i \in 1 .. Len(fullTables) : all[i] = fullTables[i]
              /\ all[Len(fullTables) + 1] = currentTable
            BY <2>4
        <3>3. {all[i] : i \in 1 .. Len(all)} = 1 .. Len(tables)
            BY <2>2, <2>4, <3>1, <3>2
        <3> QED BY <2>3, <2>6, <3>1, <3>3 DEF NoTableLeftBehind
    <2> QED BY <1>3, <2>5, <2>6 DEF SetUp
<1>4. ASSUME NEW t \in Threads, ThreadStep(t), ~Insert(t), ~SetUp(t) PROVE NoTableLeftBehind'
    <2>1. UNCHANGED <<growthVars, compactor>>
        BY <1>4 DEF ThreadStep, AddSize, ReleaseHandle, ReadCompactor, DropReader, TakeSource,
                    CopyPair, SourceCopied, Finish, ReadResult, compactVars
    <2> QED BY <1>1, <2>1 DEF NoTableLeftBehind, growthVars, NoCompactor
<1>5. ASSUME \/ \E s \in Spares : DropHandle(s)
             \/ AllReturned
             \/ UNCHANGED builderVars
      PROVE  NoTableLeftBehind'
    <2>1. UNCHANGED <<growthVars, compactor>>
        BY <1>5 DEF DropHandle, AllReturned, builderVars, growthVars
    <2> QED BY <1>1, <2>1 DEF NoTableLeftBehind, growthVars, NoCompactor
<1> QED BY <1>2, <1>3, <1>4, <1>5 DEF BuilderNext

\* The invariant of the build: the growth protocol's, the types, and that those
\* who may still insert hold the builder.
THEOREM BuilderInvariant == BuilderSpec => []BuilderInv
<1>1. BuilderInit => BuilderInv
    BY BuilderInvInit
<1>2. BuilderInv /\ [BuilderNext]_builderVars => BuilderInv'
    <2> SUFFICES ASSUME BuilderInv, [BuilderNext]_builderVars PROVE BuilderInv'
        OBVIOUS
    <2>1. GrowthInv'
        BY BuilderStepIsGrowthStep, GrowthInvStep DEF BuilderInv
    <2> QED BY <2>1, BuilderTypeStep, HoldersInsertStep, NoTableLeftBehindStep DEF BuilderInv
<1> QED BY <1>1, <1>2, PTL DEF BuilderSpec

\* Whatever the interleaving, the last handle finds every table ever allocated,
\* each once, when it prepares the compaction.
THEOREM CompactionFindsEveryTable == BuilderSpec => []NoTableLeftBehind
<1>1. BuilderInv => NoTableLeftBehind
    BY DEF BuilderInv
<1> QED BY <1>1, BuilderInvariant, PTL

\* Once the compaction is prepared no insert into a build table happens.
THEOREM TablesFrozenAfterSetUp == BuilderSpec => NoInsertAfterSetUp
<1>1. BuilderInv /\ [BuilderNext]_builderVars
        => [compactor # NoCompactor => UNCHANGED entries]_builderVars
    <2> SUFFICES ASSUME BuilderInv, [BuilderNext]_builderVars, compactor # NoCompactor
                 PROVE  UNCHANGED entries
        OBVIOUS
    <2>1. ASSUME NEW t \in Threads, Insert(t) PROVE FALSE
        BY <2>1 DEF Insert, BuilderInv, HoldersInsert
    <2>2. ASSUME NEW t \in Threads, ThreadStep(t), ~Insert(t) PROVE UNCHANGED entries
        BY <2>2 DEF ThreadStep, AddSize, ReleaseHandle, SetUp, ReadCompactor, DropReader,
                    TakeSource, CopyPair, SourceCopied, Finish, ReadResult, growthVars
    <2>3. ASSUME NEW s \in Spares, DropHandle(s) PROVE UNCHANGED entries
        BY <2>3 DEF DropHandle, growthVars
    <2> QED BY <2>1, <2>2, <2>3 DEF BuilderNext, AllReturned, builderVars
<1> QED BY <1>1, BuilderInvariant, PTL DEF BuilderSpec, NoInsertAfterSetUp

\* What elects one thread to publish: whoever may still copy holds the Compactor or
\* keeps the cell alive that does, and there is one setup at most, before all that.
PublishInv ==
    /\ \A t \in Threads : phase[t] \in {"dropReader", "take", "copy"}
                            => t \in holders /\ compactor # NoCompactor
    /\ \A t \in Threads : phase[t] \in {"release", "read", "dropReader"} => t \in cellReaders
    /\ \A t \in Threads : phase[t] = "setup"
                            => compactor = NoCompactor /\ \A u \in Threads : phase[u] = "setup" => u = t
    /\ completed => \A t \in Threads : phase[t] \in {"await", "done", "panicked"}

\* A prepared compaction is never taken for none.
LEMMA SetUpPrepares ==
    ASSUME BuilderInv, NEW t \in Threads, SetUp(t)
    PROVE  compactor' # NoCompactor
<1>1. fullTables \in Seq(1 .. Len(tables)) /\ currentTable \in 1 .. Len(tables)
    BY DEF BuilderInv, GrowthInv, TypeOK
<1>2. Append(fullTables, currentTable) # <<>>
    BY <1>1
<1>3. \/ compactor'.sources = Append(fullTables, currentTable)
      \/ compactor'.reuses = TRUE
    BY DEF SetUp
<1> QED BY <1>2, <1>3 DEF NoCompactor

\* Every step of the builder keeps the election of the publisher.
LEMMA PublishInvStep ==
    BuilderInv /\ PublishInv /\ [BuilderNext]_builderVars => PublishInv'
<1> SUFFICES ASSUME BuilderInv, PublishInv, [BuilderNext]_builderVars PROVE PublishInv'
    OBVIOUS
<1>1. BuilderTypeOK /\ HoldersInsert
    BY DEF BuilderInv
<1> USE DEF PublishInv
<1>2. ASSUME NEW t \in Threads, Insert(t) PROVE PublishInv'
    BY <1>2 DEF Insert, compactVars
<1>3. ASSUME NEW t \in Threads, AddSize(t) PROVE PublishInv'
    BY <1>1, <1>3 DEF AddSize, Enter, BuilderTypeOK
<1>4. ASSUME NEW t \in Threads, ReleaseHandle(t) PROVE PublishInv'
    <2>1. compactor = NoCompactor /\ \A u \in Threads : phase[u] # "setup"
        BY <1>1, <1>4 DEF ReleaseHandle, HoldersInsert
    <2> QED BY <1>1, <1>4, <2>1 DEF ReleaseHandle, BuilderTypeOK
<1>5. ASSUME NEW t \in Threads, SetUp(t) PROVE PublishInv'
    <2>1. compactor' # NoCompactor
        BY <1>5, SetUpPrepares
    <2>2. /\ phase[t] = "setup" /\ phase' = [phase EXCEPT ![t] = "take"] /\ holders' = {t}
          /\ UNCHANGED <<cellReaders, completed>>
        BY <1>5 DEF SetUp, Enter
    <2>3. \A u \in Threads \ {t} : phase[u] \notin {"setup", "dropReader", "take", "copy"}
        BY <2>2
    <2> QED BY <1>1, <2>1, <2>2, <2>3 DEF BuilderTypeOK
<1>6. ASSUME NEW t \in Threads, ReadCompactor(t) PROVE PublishInv'
    BY <1>1, <1>6 DEF ReadCompactor, Enter, BuilderTypeOK
<1>7. ASSUME NEW t \in Threads, DropReader(t) PROVE PublishInv'
    BY <1>1, <1>7 DEF DropReader, Enter, BuilderTypeOK
<1>8. ASSUME NEW t \in Threads, TakeSource(t) PROVE PublishInv'
    BY <1>1, <1>8 DEF TakeSource, Enter, BuilderTypeOK
<1>9. ASSUME NEW t \in Threads, CopyPair(t) PROVE PublishInv'
    BY <1>1, <1>9 DEF CopyPair, BuilderTypeOK
<1>10. ASSUME NEW t \in Threads, SourceCopied(t) PROVE PublishInv'
    BY <1>1, <1>10 DEF SourceCopied, Enter, BuilderTypeOK, compactVars
<1>11. ASSUME NEW t \in Threads, Finish(t) PROVE PublishInv'
    <2>1. /\ phase[t] = "take" /\ compactor # NoCompactor /\ holders' = holders \ {t}
          /\ UNCHANGED <<compactor, cellReaders>>
        BY <1>11 DEF Finish
    <2>2. CASE holders = {t} /\ cellReaders = {} /\ completed' = TRUE
               /\ phase' = [phase EXCEPT ![t] = "done"]
        <3>1. \A u \in Threads \ {t} : phase[u] \in {"await", "done", "panicked"}
            <4>1. \A u \in Threads \ {t} : phase[u] \notin {"dropReader", "take", "copy", "release", "read"}
                BY <2>2
            <4>2. \A u \in Threads : phase[u] # "setup"
                BY <2>1
            <4>3. \A u \in Threads : phase[u] # "insert"
                BY <1>1, <2>1 DEF HoldersInsert
            <4> QED BY <1>1, <4>1, <4>2, <4>3 DEF BuilderTypeOK, Phases
        <3> QED BY <1>1, <2>1, <2>2, <3>1 DEF BuilderTypeOK
    <2>3. CASE phase' = [phase EXCEPT ![t] = "await"] /\ UNCHANGED completed
        BY <1>1, <2>1, <2>3 DEF BuilderTypeOK
    <2> QED BY <1>11, <2>2, <2>3 DEF Finish
<1>12. ASSUME NEW t \in Threads, ReadResult(t) PROVE PublishInv'
    BY <1>1, <1>12 DEF ReadResult, Enter, BuilderTypeOK, compactVars
<1>13. ASSUME (\E s \in Spares : DropHandle(s)) \/ AllReturned \/ UNCHANGED builderVars
       PROVE  PublishInv'
    BY <1>13 DEF DropHandle, AllReturned, builderVars
<1> QED BY <1>2, <1>3, <1>4, <1>5, <1>6, <1>7, <1>8, <1>9, <1>10, <1>11, <1>12, <1>13
        DEF BuilderNext, ThreadStep

\* One thread publishes, when no other can touch the destination any more: nobody
\* inserts into the table that was published as read-only.
THEOREM NobodyWritesThePublished == BuilderSpec => PublishedIsReadOnly
<1>1. BuilderInit => PublishInv
    BY DEF BuilderInit, PublishInv
<1>2. BuilderInv /\ PublishInv /\ [BuilderNext]_builderVars
        => [completed => UNCHANGED destination]_builderVars
    <2> SUFFICES ASSUME PublishInv, [BuilderNext]_builderVars, completed
                 PROVE  UNCHANGED destination
        OBVIOUS
    <2>1. \A t \in Threads : phase[t] \notin {"setup", "copy"}
        BY DEF PublishInv
    <2>2. ASSUME NEW t \in Threads, ThreadStep(t) PROVE UNCHANGED destination
        BY <2>1, <2>2 DEF ThreadStep, Insert, AddSize, ReleaseHandle, SetUp, Enter, ReadCompactor,
                          DropReader, TakeSource, CopyPair, SourceCopied, Finish, ReadResult, compactVars
    <2> QED BY <2>2 DEF BuilderNext, DropHandle, AllReturned, builderVars
<1> QED BY <1>1, <1>2, PublishInvStep, BuilderInvariant, PTL DEF BuilderSpec, PublishedIsReadOnly

------------------------------------------------------------------------------
(* Cells and writes *)

\* Which pairs are cells, and which are counted writes.
LEMMA CellsAre ==
    \A p, h : <<p, h>> \in Cells <=> p \in 1 .. Len(tables) /\ h \in Held(p)
BY DEF Cells

\* The same of the writes that a thread still counts itself.
LEMMA CountedAre ==
    \A t, n : <<t, n>> \in Counted <=> t \in Threads /\ phase[t] = "insert" /\ n \in 1 .. writes[t]
BY DEF Counted

\* A step of insert puts one of the thread's rows into a table, appends an empty
\* table, or leaves tables, rows and counts alone.
LEMMA StepPuts ==
    ASSUME TypeOK, NEW t \in Threads, Step(t)
    PROVE  \/ \E p \in 1 .. Len(tables), r \in Rows :
                 /\ Put(t, p, r) /\ UNCHANGED tables
                 /\ r \in todo[t] \/ (pc[t] = "insert" /\ r = row[t])
           \/ /\ Len(tables') = Len(tables) + 1 /\ Len(entries') = Len(entries) + 1
              /\ \A p \in 1 .. Len(tables) : entries'[p] = entries[p]
              /\ entries'[Len(tables) + 1] = NoEntries
              /\ UNCHANGED <<writes, todo>>
           \/ UNCHANGED <<tables, entries, writes, todo>>
<1>1. CASE InsertCached(t)
    <2>1. PICK r \in todo[t] : cache[t] # Null /\ Put(t, cache[t], r) /\ UNCHANGED tables
        BY <1>1 DEF InsertCached
    <2>2. r \in Rows /\ cache[t] \in 1 .. Len(tables)
        BY <2>1 DEF TypeOK
    <2> QED BY <2>1, <2>2
<1>2. CASE InsertTarget(t)
    <2>1. Put(t, target[t], row[t]) /\ UNCHANGED tables /\ pc[t] = "insert"
        BY <1>2 DEF InsertTarget, Goto
    <2>2. row[t] \in Rows /\ target[t] \in 1 .. Len(tables)
        BY <2>1 DEF TypeOK
    <2> QED BY <2>1, <2>2
<1>3. CASE SwapTable(t)
    <2> DEFINE e == NewTable(Generation(target[t]) + 1, 2 * ExistingCapacity(target[t]),
                             ExistingCapacity(target[t]))
    <2>1. /\ tables' = Append(tables, e) /\ entries' = Append(entries, NoEntries)
          /\ UNCHANGED <<writes, todo>>
        BY <1>3 DEF SwapTable
    <2>2. tables \in Seq(InnerTables) /\ entries \in Seq(Contents) /\ Len(entries) = Len(tables)
        BY DEF TypeOK
    <2> HIDE DEF e
    <2> QED BY <2>1, <2>2
<1>4. CASE /\ Step(t) /\ ~InsertCached(t) /\ ~InsertTarget(t) /\ ~SwapTable(t)
    BY <1>4 DEF Step, MissCache, LoadCurrent, FindFull, ClaimMigration, LoseClaim,
                CompleteMigration, PushFull, WaitForTable, sharedVars
<1> QED BY <1>1, <1>2, <1>3, <1>4

\* A put writes a cell and counts it, or finds the hash and does neither.
LEMMA PutWrites ==
    ASSUME TypeOK, NEW t \in Threads, NEW p \in 1 .. Len(tables), NEW r \in Rows,
           Put(t, p, r), UNCHANGED tables
    PROVE  /\ Cells' = Cells \cup {<<p, HashOf[r]>>}
           /\ IF <<p, HashOf[r]>> \in Cells
              THEN writes' = writes
              ELSE writes' = [writes EXCEPT ![t] = @ + 1]
           /\ todo' = [todo EXCEPT ![t] = @ \ {r}]
<1> DEFINE h == HashOf[r]
<1>1. /\ entries \in Seq(Contents) /\ Len(entries) = Len(tables)
      /\ Len(entries') = Len(entries) /\ writes \in [Threads -> Nat]
    BY PutContents DEF TypeOK
<1>2. /\ entries' = [entries EXCEPT ![p] =
                        [x \in Held(p) \cup {h} |-> IF x = h THEN r ELSE entries[p][x]]]
      /\ writes' = [writes EXCEPT ![t] = IF h \in Held(p) THEN @ ELSE @ + 1]
      /\ todo' = [todo EXCEPT ![t] = @ \ {r}]
    BY DEF Put
<1>3. \A q \in 1 .. Len(tables) :
          Held(q)' = IF q = p THEN Held(p) \cup {h} ELSE Held(q)
    BY <1>1, <1>2 DEF Held
<1>4. Cells' = Cells \cup {<<p, h>>}
    BY <1>3 DEF Cells
<1>5. <<p, h>> \in Cells <=> h \in Held(p)
    BY CellsAre
<1> QED BY <1>1, <1>2, <1>4, <1>5

\* A new table has no cell that is written.
LEMMA EmptyTableCells ==
    ASSUME Len(tables) \in Nat, Len(tables') = Len(tables) + 1,
           \A p \in 1 .. Len(tables) : entries'[p] = entries[p],
           entries'[Len(tables) + 1] = NoEntries
    PROVE  Cells' = Cells
<1>1. 1 .. Len(tables') = (1 .. Len(tables)) \cup {Len(tables) + 1}
    OBVIOUS
<1>2. \A p \in 1 .. Len(tables) : DOMAIN entries'[p] = DOMAIN entries[p]
    OBVIOUS
<1>3. DOMAIN entries'[Len(tables) + 1] = {}
    BY DEF NoEntries
<1> QED BY <1>1, <1>2, <1>3 DEF Cells, Held

\* What the counting rests on, besides the types.
CountInv == WritesCounted /\ IsFiniteSet(Cells) /\ IsFiniteSet(Counted)

\* The count of a thread passes to total_size_during_compaction as a whole.
LEMMA AddSizeCounts ==
    ASSUME TypeOK, BuilderTypeOK, CountInv, NEW t \in Threads, AddSize(t)
    PROVE  CountInv'
<1> DEFINE own == {<<t, n>> : n \in 1 .. writes[t]}
<1>1. /\ phase[t] = "insert" /\ phase' = [phase EXCEPT ![t] = "release"]
      /\ totalSize' = totalSize + writes[t] /\ UNCHANGED <<tables, entries, writes>>
      /\ writes[t] \in Nat /\ totalSize \in Nat
    BY DEF AddSize, Enter, growthVars, TypeOK, BuilderTypeOK
<1>2. Counted' = Counted \ own
    BY <1>1 DEF Counted, BuilderTypeOK
<1>3. Counted \cap own = own
    BY <1>1 DEF Counted
<1>4. Cardinality(own) = writes[t]
    <2> DEFINE f == [n \in 1 .. writes[t] |-> <<t, n>>]
    <2>1. f \in Bijection(1 .. writes[t], own)
        BY DEF Bijection, Injection, Surjection, IsInjective
    <2>2. IsFiniteSet(1 .. writes[t]) /\ Cardinality(1 .. writes[t]) = writes[t]
        BY <1>1, IntervalSize
    <2> QED BY <2>1, <2>2, FS_Bijection DEF ExistsBijection
<1>5. IsFiniteSet(Counted') /\ Cardinality(Counted') = Cardinality(Counted) - writes[t]
    <2> HIDE DEF own
    <2> QED BY <1>2, <1>3, <1>4, FS_Difference DEF CountInv
<1>6. Cells' = Cells
    BY <1>1 DEF Cells, Held
<1>7. Cardinality(Counted) \in Nat
    BY FS_CardinalityType DEF CountInv
<1> QED BY <1>1, <1>5, <1>6, <1>7 DEF CountInv, WritesCounted

\* An insert keeps the count: a new cell is counted once, by the thread that wrote it.
LEMMA InsertCounts ==
    ASSUME TypeOK, BuilderTypeOK, CountInv, NEW t \in Threads, Insert(t)
    PROVE  CountInv'
<1>1. Step(t) /\ phase[t] = "insert" /\ UNCHANGED <<phase, totalSize>> /\ totalSize \in Nat
      /\ writes \in [Threads -> Nat]
    BY DEF Insert, compactVars, TypeOK, BuilderTypeOK
<1>2. Cardinality(Cells) \in Nat /\ Cardinality(Counted) \in Nat
    BY FS_CardinalityType DEF CountInv
<1>3. CASE \E p \in 1 .. Len(tables), r \in Rows : Put(t, p, r) /\ UNCHANGED tables
    <2>1. PICK p \in 1 .. Len(tables), r \in Rows : Put(t, p, r) /\ UNCHANGED tables
        BY <1>3
    <2> DEFINE new == <<p, HashOf[r]>>
    <2>2. /\ Cells' = Cells \cup {new}
          /\ IF new \in Cells THEN writes' = writes ELSE writes' = [writes EXCEPT ![t] = @ + 1]
        BY <2>1, PutWrites
    <2>3. CASE new \in Cells
        <3>1. Cells' = Cells /\ Counted' = Counted
            BY <1>1, <2>2, <2>3 DEF Counted
        <3> QED BY <1>1, <3>1 DEF CountInv, WritesCounted
    <2>4. CASE new \notin Cells
        <3>1. writes' = [writes EXCEPT ![t] = @ + 1]
            BY <2>2, <2>4
        <3>2. Counted' = Counted \cup {<<t, writes[t] + 1>>} /\ <<t, writes[t] + 1>> \notin Counted
            BY <1>1, <3>1 DEF Counted
        <3>3. IsFiniteSet(Counted') /\ Cardinality(Counted') = Cardinality(Counted) + 1
            BY <3>2, FS_AddElement DEF CountInv
        <3>4. IsFiniteSet(Cells') /\ Cardinality(Cells') = Cardinality(Cells) + 1
            <4> HIDE DEF new
            <4> QED BY <2>2, <2>4, FS_AddElement DEF CountInv
        <3> QED BY <1>1, <1>2, <3>3, <3>4 DEF CountInv, WritesCounted
    <2> QED BY <2>3, <2>4
<1>4. CASE /\ Len(tables') = Len(tables) + 1 /\ Len(entries') = Len(entries) + 1
           /\ \A p \in 1 .. Len(tables) : entries'[p] = entries[p]
           /\ entries'[Len(tables) + 1] = NoEntries
           /\ UNCHANGED writes
    <2>5. Cells' = Cells
        BY <1>4, EmptyTableCells DEF TypeOK
    <2>6. Counted' = Counted
        BY <1>1, <1>4 DEF Counted
    <2> QED BY <1>1, <2>5, <2>6 DEF CountInv, WritesCounted
<1>5. CASE UNCHANGED <<tables, entries, writes>>
    <2>1. Cells' = Cells /\ Counted' = Counted
        BY <1>1, <1>5 DEF Cells, Held, Counted
    <2> QED BY <1>1, <2>1 DEF CountInv, WritesCounted
<1> QED BY <1>1, <1>3, <1>4, <1>5, StepPuts

\* No other step writes a cell or counts a write.
LEMMA CountStep ==
    TypeOK /\ BuilderTypeOK /\ CountInv /\ [BuilderNext]_builderVars => CountInv'
<1> SUFFICES ASSUME TypeOK, BuilderTypeOK, CountInv, [BuilderNext]_builderVars PROVE CountInv'
    OBVIOUS
<1>1. ASSUME UNCHANGED <<tables, entries, writes, totalSize>>,
             \A t \in Threads : phase'[t] = "insert" <=> phase[t] = "insert"
      PROVE  CountInv'
    <2>1. Cells' = Cells /\ Counted' = Counted
        BY <1>1 DEF Cells, Held, Counted
    <2> QED BY <1>1, <2>1 DEF CountInv, WritesCounted
<1>2. ASSUME NEW t \in Threads, ThreadStep(t), ~Insert(t), ~AddSize(t) PROVE CountInv'
    <2>1. UNCHANGED <<growthVars, totalSize>>
        BY <1>2 DEF ThreadStep, ReleaseHandle, SetUp, ReadCompactor, DropReader, TakeSource,
                    CopyPair, SourceCopied, Finish, ReadResult, compactVars
    <2>2. /\ phase[t] # "insert"
          /\ phase' = phase \/ \E to \in Phases \ {"insert"} : phase' = [phase EXCEPT ![t] = to]
        BY <1>2 DEF ThreadStep, ReleaseHandle, SetUp, ReadCompactor, DropReader, TakeSource,
                    CopyPair, SourceCopied, Finish, ReadResult, Enter, Phases
    <2>3. \A u \in Threads : phase'[u] = "insert" <=> phase[u] = "insert"
        BY <2>2 DEF BuilderTypeOK
    <2> QED BY <1>1, <2>1, <2>3 DEF growthVars
<1>3. ASSUME \/ \E s \in Spares : DropHandle(s)
             \/ AllReturned
             \/ UNCHANGED builderVars
      PROVE  CountInv'
    BY <1>1, <1>3 DEF DropHandle, AllReturned, builderVars, growthVars
<1> QED BY <1>2, <1>3, AddSizeCounts, InsertCounts DEF BuilderNext, ThreadStep

\* The counts of the invariant, in every state.
LEMMA CountInvariant == BuilderSpec => []CountInv
<1>1. BuilderInit => CountInv
    <2> SUFFICES ASSUME BuilderInit PROVE CountInv
        OBVIOUS
    <2>1. Cells = {}
        BY DEF BuilderInit, Init, Cells, Held, NoEntries
    <2>2. Counted = {}
        BY DEF BuilderInit, Init, Counted
    <2> QED BY <2>1, <2>2, FS_EmptySet DEF CountInv, WritesCounted, BuilderInit
<1>2. BuilderInv => TypeOK /\ BuilderTypeOK
    BY DEF BuilderInv, GrowthInv
<1> QED BY <1>1, <1>2, CountStep, BuilderInvariant, PTL DEF BuilderSpec

\* total_size_during_compaction and the counts of the threads that have not called
\* compact yet are the cells written in all tables, however the inserts raced.
THEOREM WritesAreCounted == BuilderSpec => []WritesCounted
<1>1. CountInv => WritesCounted
    BY DEF CountInv
<1> QED BY <1>1, CountInvariant, PTL

------------------------------------------------------------------------------
(* Cells and rows *)

\* The rows that the threads are given, and those that they have not inserted yet.
Given == UNION {{<<t, r>> : r \in Work[t]} : t \in Threads}
Waiting == UNION {{<<t, r>> : r \in todo[t]} : t \in Threads}

\* A row waits until it is inserted, that of the insert under way too.
RowsWait == \A t \in Threads : todo[t] \subseteq Work[t] /\ (pc[t] # "idle" => row[t] \in todo[t])

\* Every cell took a row that had waited.
FewCells == Cardinality(Cells) + Cardinality(Waiting) <= Cardinality(Given)

\* Every step of insert keeps the rows waiting that it does not put.
LEMMA RowsWaitStep ==
    ASSUME TypeOK, RowsWait, NEW t \in Threads, Step(t)
    PROVE  RowsWait'
<1> USE DEF RowsWait, TypeOK
<1>1. CASE InsertCached(t) BY <1>1 DEF InsertCached, Put
<1>2. CASE MissCache(t) BY <1>2 DEF MissCache, Goto
<1>3. CASE LoadCurrent(t) BY <1>3 DEF LoadCurrent, Goto
<1>4. CASE InsertTarget(t) BY <1>4 DEF InsertTarget, Goto, Put
<1>5. CASE FindFull(t) BY <1>5 DEF FindFull, Goto
<1>6. CASE ClaimMigration(t) BY <1>6 DEF ClaimMigration, Goto
<1>7. CASE LoseClaim(t) BY <1>7 DEF LoseClaim, Goto
<1>8. CASE SwapTable(t) BY <1>8 DEF SwapTable, Goto
<1>9. CASE CompleteMigration(t) BY <1>9 DEF CompleteMigration
<1>10. CASE PushFull(t) BY <1>10 DEF PushFull, Goto
<1>11. CASE WaitForTable(t) BY <1>11 DEF WaitForTable, Goto
<1> QED BY <1>1, <1>2, <1>3, <1>4, <1>5, <1>6, <1>7, <1>8, <1>9, <1>10, <1>11 DEF Step

\* What waits is part of what was given.
LEMMA WaitingIsFinite ==
    ASSUME IsFiniteSet(Given), RowsWait
    PROVE  IsFiniteSet(Waiting)
<1>1. Waiting \subseteq Given
    BY DEF Waiting, Given, RowsWait
<1> QED BY <1>1, FS_Subset

\* A step of insert writes a cell at most for a row that it takes from those waiting.
LEMMA FewCellsStep ==
    ASSUME IsFiniteSet(Given), TypeOK, RowsWait, CountInv, FewCells, NEW t \in Threads, Step(t)
    PROVE  FewCells'
<1>1. IsFiniteSet(Waiting) /\ IsFiniteSet(Cells)
    BY WaitingIsFinite DEF CountInv
<1>2. Cardinality(Waiting) \in Nat /\ Cardinality(Cells) \in Nat /\ Cardinality(Given) \in Nat
    BY <1>1, FS_CardinalityType
<1>3. CASE \E p \in 1 .. Len(tables), r \in Rows :
              /\ Put(t, p, r) /\ UNCHANGED tables
              /\ r \in todo[t] \/ (pc[t] = "insert" /\ r = row[t])
    <2>1. PICK p \in 1 .. Len(tables), r \in Rows :
             /\ Put(t, p, r) /\ UNCHANGED tables
             /\ r \in todo[t] \/ (pc[t] = "insert" /\ r = row[t])
        BY <1>3
    <2>2. r \in todo[t]
        BY <2>1 DEF RowsWait
    <2>3. Cells' = Cells \cup {<<p, HashOf[r]>>} /\ todo' = [todo EXCEPT ![t] = @ \ {r}]
        BY <2>1, PutWrites
    <2>4. Waiting' = Waiting \ {<<t, r>>} /\ <<t, r>> \in Waiting
        BY <2>2, <2>3 DEF Waiting, TypeOK
    <2>5. Cardinality(Waiting') = Cardinality(Waiting) - 1
        BY <1>1, <2>4, FS_RemoveElement
    <2>6. Cardinality(Cells') \in Nat /\ Cardinality(Cells') <= Cardinality(Cells) + 1
        <3> DEFINE new == <<p, HashOf[r]>>
        <3> HIDE DEF new
        <3>1. Cardinality(Cells \cup {new})
                = IF new \in Cells THEN Cardinality(Cells) ELSE Cardinality(Cells) + 1
            BY <1>1, FS_AddElement
        <3> QED BY <1>2, <2>3, <3>1 DEF new
    <2> QED BY <1>2, <2>5, <2>6 DEF FewCells, Given
<1>4. CASE /\ Len(tables') = Len(tables) + 1 /\ Len(entries') = Len(entries) + 1
           /\ \A p \in 1 .. Len(tables) : entries'[p] = entries[p]
           /\ entries'[Len(tables) + 1] = NoEntries
           /\ UNCHANGED <<writes, todo>>
    <2>1. Cells' = Cells
        BY <1>4, EmptyTableCells DEF TypeOK
    <2>2. Waiting' = Waiting
        BY <1>4 DEF Waiting
    <2> QED BY <2>1, <2>2 DEF FewCells, Given
<1>5. CASE UNCHANGED <<tables, entries, writes, todo>>
    <2>1. Cells' = Cells /\ Waiting' = Waiting
        BY <1>5 DEF Cells, Held, Waiting
    <2> QED BY <2>1 DEF FewCells, Given
<1> QED BY <1>3, <1>4, <1>5, StepPuts

\* No step but an insert takes a row or writes a cell.
LEMMA FewCellsInvStep ==
    ASSUME IsFiniteSet(Given), TypeOK, RowsWait, CountInv, FewCells, [BuilderNext]_builderVars
    PROVE  RowsWait' /\ FewCells'
<1>1. CASE UNCHANGED growthVars
    <2>1. Cells' = Cells /\ Waiting' = Waiting
        BY <1>1 DEF growthVars, Cells, Held, Waiting
    <2> QED BY <1>1, <2>1 DEF growthVars, RowsWait, FewCells, Given
<1>2. CASE \E t \in Threads : Step(t)
    BY <1>2, RowsWaitStep, FewCellsStep
<1>3. [GrowthNext]_growthVars
    BY BuilderStepIsGrowthStep
<1> QED BY <1>1, <1>2, <1>3 DEF GrowthNext, Finished

------------------------------------------------------------------------------
(* The copy *)

\* There are finitely many rows to insert, and a table could be allocated for them:
\* next_power_of_two of their number fits into a usize.
FewRows == IsFiniteSet(Given) /\ Cardinality(Given) <= 2 ^ (CapacityBits - 1)

\* The capacity of a new table is no less than what was asked for.
LEMMA RoundCapacityFits ==
    ASSUME NEW n \in Nat, n <= 2 ^ (CapacityBits - 1)
    PROVE  RoundCapacity(n) >= n
<1> DEFINE T == {k \in 0 .. CapacityBits - 1 : 2 ^ k >= n}
<1>1. CapacityBits - 1 \in Nat /\ CapacityBits - 1 \in T
    BY CapacityAssumption
<1>2. PICK k \in T : \A y \in T : k <= y
    <2>1. T \subseteq Nat /\ T # {}
        BY <1>1
    <2> HIDE DEF T
    <2> QED BY <2>1, LeastElement
<1>3. k \in Nat /\ k <= CapacityBits - 1 /\ 2 ^ k \in Nat \ {0} /\ 2 ^ k >= n
    BY <1>1, PowerType
<1>4. 2 ^ k <= 2 ^ (CapacityBits - 1) /\ 2 ^ (CapacityBits - 1) \in Nat
    BY <1>1, <1>3, PowerMonotone, PowerType
<1>5. 2 ^ k \in Powers
    BY <1>3, <1>4 DEF Powers
<1>6. 2 ^ k = 1 \/ 2 ^ k \div 2 < n
    <2>1. CASE k = 0
        <3>1. 2 ^ 0 = 1
            OBVIOUS
        <3> QED BY <2>1, <3>1
    <2>2. CASE k # 0
        <3>1. k - 1 \in Nat /\ (k - 1) + 1 = k /\ k - 1 <= CapacityBits - 1
            BY <1>1, <1>3, <2>2
        <3>2. 2 ^ k = 2 * 2 ^ (k - 1) /\ 2 ^ (k - 1) \in Nat
            BY <3>1, PowerStep, PowerType
        <3>3. 2 ^ k \div 2 = 2 ^ (k - 1)
            <4>1. \A x \in Nat : (2 * x) \div 2 = x
                OBVIOUS
            <4> QED BY <3>2, <4>1
        <3>4. ~(k <= k - 1)
            BY <1>3
        <3>5. k - 1 \notin T
            BY <1>2, <3>4
        <3>6. ~(2 ^ (k - 1) >= n)
            BY <1>1, <3>1, <3>5
        <3> QED BY <3>2, <3>3, <3>6
    <2> QED BY <2>1, <2>2
<1>7. IsNextPower(2 ^ k, n)
    BY <1>3, <1>6 DEF IsNextPower
<1>8. NextPowerOfTwo(n) \in Powers /\ IsNextPower(NextPowerOfTwo(n), n)
    BY <1>5, <1>7 DEF NextPowerOfTwo
<1>9. NextPowerOfTwo(n) \in Nat /\ NextPowerOfTwo(n) >= n
    BY <1>8 DEF IsNextPower, Powers
<1> QED BY <1>9, CapacityAssumption DEF RoundCapacity

\* A row that some build table holds with its hash; a hash that is in the destination
\* or among the pairs that a thread is copying into it.
Stored(h, r) == \E p \in 1 .. Len(tables) : h \in Held(p) /\ entries[p][h] = r
Arriving(h) ==
    \/ h \in DOMAIN destination
    \/ \E t \in Threads : phase[t] = "copy" /\ \E pair \in pending[t] : pair[1] = h

\* While sources are copied: there is room for every cell, only stored pairs are
\* copied, and the hashes of every table that was taken, or reused, arrive.
Copying ==
    /\ compactor.capacity >= Cardinality(Cells)
    /\ \A h \in DOMAIN destination : Stored(h, destination[h])
    /\ \A t \in Threads : phase[t] = "copy" => \A pair \in pending[t] : Stored(pair[1], pair[2])
    /\ \A i \in 1 .. Len(compactor.sources) :
          i < nextSource => \A h \in Held(compactor.sources[i]) : Arriving(h)
    /\ compactor.reuses => \A h \in Held(currentTable) : Arriving(h)
    /\ \A t \in Threads : phase[t] # "panicked"

\* From before the compaction is prepared until its result is published.
CopyInv ==
    /\ compactor = NoCompactor => nextSource = 1 /\ \A t \in Threads : phase[t] # "panicked"
    /\ compactor # NoCompactor /\ WholeSources => Copying
    /\ completed => compactor # NoCompactor /\ nextSource > Len(compactor.sources)

\* There are no more hashes than cells.
LEMMA HashesFit ==
    ASSUME IsFiniteSet(Cells), NEW H, \A h \in H : \E p \in 1 .. Len(tables) : h \in Held(p)
    PROVE  IsFiniteSet(H) /\ Cardinality(H) <= Cardinality(Cells)
<1> DEFINE all == {cell[2] : cell \in Cells}
           f == [cell \in Cells |-> cell[2]]
<1>1. f \in Surjection(Cells, all)
    BY DEF Surjection
<1>2. IsFiniteSet(all) /\ Cardinality(all) <= Cardinality(Cells)
    <2> HIDE DEF f, all
    <2> QED BY <1>1, FS_Surjection
<1>3. H \subseteq all
    <2> SUFFICES ASSUME NEW h \in H PROVE h \in all
        OBVIOUS
    <2>1. PICK p \in 1 .. Len(tables) : h \in Held(p)
        OBVIOUS
    <2>2. <<p, h>> \in Cells /\ <<p, h>>[2] = h
        BY <2>1, CellsAre
    <2> QED BY <2>2
<1>4. IsFiniteSet(H) /\ Cardinality(H) <= Cardinality(all)
    <2> HIDE DEF all
    <2> QED BY <1>2, <1>3, FS_Subset
<1>5. Cardinality(H) \in Nat /\ Cardinality(all) \in Nat /\ Cardinality(Cells) \in Nat
    BY <1>2, <1>4, FS_CardinalityType
<1> QED BY <1>2, <1>4, <1>5


\* A table that is not partial yields its pairs, every one of them stored.
LEMMA WholeYields ==
    ASSUME NEW p \in 1 .. Len(tables), ~Partial(p), NEW pairs \in Yields(p)
    PROVE  /\ \A pair \in pairs : Stored(pair[1], pair[2])
           /\ \A h \in Held(p) : \E pair \in pairs : pair[1] = h
<1>1. pairs = Pairs(p)
    BY DEF Yields
<1>2. ASSUME NEW pair \in pairs PROVE Stored(pair[1], pair[2])
    <2>1. PICK h \in Held(p) : pair = <<h, entries[p][h]>>
        BY <1>1 DEF Pairs
    <2> QED BY <2>1 DEF Stored
<1>3. ASSUME NEW h \in Held(p) PROVE \E pair \in pairs : pair[1] = h
    <2>1. <<h, entries[p][h]>> \in pairs /\ <<h, entries[p][h]>>[1] = h
        BY <1>1 DEF Pairs
    <2> QED BY <2>1
<1> QED BY <1>2, <1>3

\* What the setup leaves: room for every cell, and the rows of the current table
\* where it is reused.
LEMMA SetUpCopies ==
    ASSUME FewRows, BuilderInv, PublishInv, CountInv, RowsWait, FewCells, CopyInv,
           NEW t \in Threads, SetUp(t)
    PROVE  CopyInv'
<1>1. /\ phase[t] = "setup" /\ phase' = [phase EXCEPT ![t] = "take"]
      /\ UNCHANGED <<tables, entries, currentTable, nextSource, pending, completed>>
      /\ TypeOK /\ BuilderTypeOK /\ HoldersInsert
    BY DEF SetUp, Enter, growthVars, BuilderInv, GrowthInv
<1>2. /\ compactor = NoCompactor /\ nextSource = 1 /\ ~completed
      /\ \A u \in Threads : phase[u] \notin {"copy", "insert", "panicked"}
    BY <1>1 DEF PublishInv, CopyInv, HoldersInsert
<1>3. totalSize = Cardinality(Cells)
    <2>1. Counted = {}
        BY <1>2 DEF Counted
    <2>2. Cardinality(Counted) = 0
        BY <2>1, FS_EmptySet
    <2> QED BY <1>1, <2>2 DEF CountInv, WritesCounted, BuilderTypeOK
<1>4. totalSize <= 2 ^ (CapacityBits - 1)
    <2>1. /\ Cardinality(Waiting) \in Nat /\ Cardinality(Given) \in Nat
          /\ Cardinality(Cells) \in Nat
        BY WaitingIsFinite, FS_CardinalityType DEF FewRows, CountInv
    <2>2. CapacityBits - 1 \in Nat /\ 2 ^ (CapacityBits - 1) \in Nat
        BY CapacityAssumption, PowerType
    <2> QED BY <1>3, <2>1, <2>2 DEF FewRows, FewCells
<1>5. /\ RoundCapacity(totalSize) >= totalSize
      /\ tables[currentTable].capacity \in Nat /\ totalSize \in Nat
    <2>1. tables[currentTable] \in InnerTables
        BY <1>1 DEF TypeOK
    <2> QED BY <1>1, <1>4, <2>1, RoundCapacityFits DEF BuilderTypeOK, InnerTables
<1>6. Cells' = Cells /\ (\A p : Held(p)' = Held(p)) /\ (\A h, r : Stored(h, r)' <=> Stored(h, r))
    BY <1>1 DEF Cells, Held, Stored
<1>7. /\ compactor'.capacity >= Cardinality(Cells)
      /\ destination' = NoEntries \/ destination' = entries[currentTable]
      /\ compactor'.reuses => destination' = entries[currentTable]
    BY <1>3, <1>5 DEF SetUp
<1>8. \A h \in DOMAIN destination' : Stored(h, destination'[h])
    <2>1. currentTable \in 1 .. Len(tables)
        BY <1>1 DEF TypeOK
    <2> QED BY <1>7, <2>1 DEF Stored, Held, NoEntries
<1>9. compactor'.reuses => \A h \in Held(currentTable) : h \in DOMAIN destination'
    BY <1>7 DEF Held
<1>10. \A u \in Threads : phase'[u] \notin {"copy", "panicked"}
    BY <1>1, <1>2 DEF BuilderTypeOK
<1>11. Copying'
    <2>1. \A i \in 1 .. Len(compactor'.sources) : ~(i < nextSource')
        BY <1>1, <1>2
    <2> QED BY <1>1, <1>6, <1>7, <1>8, <1>9, <1>10, <2>1 DEF Copying, Arriving
<1> QED BY <1>1, <1>2, <1>11, SetUpPrepares DEF CopyInv

\* Once it is prepared, the build tables, the sources and the capacity stay.
LEMMA PreparedStays ==
    ASSUME BuilderInv, PublishInv, compactor # NoCompactor, [BuilderNext]_builderVars
    PROVE  UNCHANGED <<tables, entries, currentTable, compactor>>
<1>1. \A t \in Threads : phase[t] \notin {"insert", "setup"}
    BY DEF BuilderInv, HoldersInsert, PublishInv
<1>2. ASSUME NEW t \in Threads, ThreadStep(t)
      PROVE  UNCHANGED <<tables, entries, currentTable, compactor>>
    BY <1>1, <1>2 DEF ThreadStep, Insert, AddSize, ReleaseHandle, SetUp, Enter, ReadCompactor,
           DropReader, TakeSource, CopyPair, SourceCopied, Finish, ReadResult, growthVars, compactVars
<1> QED BY <1>2 DEF BuilderNext, DropHandle, AllReturned, builderVars, growthVars

\* A step that takes no hash away from those that arrive keeps the copy going.
LEMMA CopyingStays ==
    ASSUME Copying, UNCHANGED <<tables, entries, currentTable, compactor>>,
           \A h : Arriving(h) => Arriving(h)',
           \A h \in DOMAIN destination' : Stored(h, destination'[h]),
           \A t \in Threads : phase'[t] = "copy" => \A pair \in pending'[t] : Stored(pair[1], pair[2]),
           \A i \in 1 .. Len(compactor.sources) :
              i < nextSource' => i < nextSource \/ \A h \in Held(compactor.sources[i]) : Arriving(h)',
           \A t \in Threads : phase'[t] # "panicked"
    PROVE  Copying'
<1>1. Cells' = Cells /\ (\A p : Held(p)' = Held(p)) /\ (\A h, r : Stored(h, r)' <=> Stored(h, r))
    BY DEF Cells, Held, Stored
<1>2. \A i \in 1 .. Len(compactor.sources) :
          i < nextSource' => \A h \in Held(compactor.sources[i]) : Arriving(h)'
    BY DEF Copying
<1>3. compactor.reuses => \A h \in Held(currentTable) : Arriving(h)'
    BY DEF Copying
<1> QED BY <1>1, <1>2, <1>3 DEF Copying


\* Copying a pair fits, and brings its hash to the destination.
LEMMA CopyPairCopies ==
    ASSUME BuilderInv, CountInv, Copying, compactor # NoCompactor, NEW t \in Threads, CopyPair(t)
    PROVE  Copying'
<1>1. /\ phase[t] = "copy" /\ UNCHANGED <<tables, entries, currentTable, compactor, nextSource>>
      /\ BuilderTypeOK
    BY DEF CopyPair, growthVars, BuilderInv
<1>2. PICK pair \in pending[t] :
          IF pair[1] \in DOMAIN destination
                \/ Cardinality(DOMAIN destination) < compactor.capacity
          THEN /\ destination' = [h \in DOMAIN destination \cup {pair[1]} |->
                                     IF h = pair[1] THEN pair[2] ELSE destination[h]]
               /\ pending' = [pending EXCEPT ![t] = @ \ {pair}]
               /\ UNCHANGED phase
          ELSE phase' = [phase EXCEPT ![t] = "panicked"]
    BY DEF CopyPair
<1>3. Stored(pair[1], pair[2]) /\ \A h \in DOMAIN destination : Stored(h, destination[h])
    BY <1>1, <1>2 DEF Copying
<1>4. pair[1] \in DOMAIN destination \/ Cardinality(DOMAIN destination) < compactor.capacity
    <2> SUFFICES ASSUME pair[1] \notin DOMAIN destination
                 PROVE  Cardinality(DOMAIN destination) < compactor.capacity
        OBVIOUS
    <2> DEFINE old == DOMAIN destination
               H == old \cup {pair[1]}
    <2>1. \A h \in H : \E p \in 1 .. Len(tables) : h \in Held(p)
        BY <1>3 DEF Stored
    <2>2. IsFiniteSet(H) /\ Cardinality(H) <= Cardinality(Cells)
        <3> HIDE DEF H
        <3> QED BY <2>1, HashesFit DEF CountInv
    <2>3. IsFiniteSet(old)
        BY <2>2, FS_Subset
    <2>4. Cardinality(H) = Cardinality(old) + 1
        BY <2>3, FS_AddElement
    <2>5. Cardinality(old) \in Nat /\ Cardinality(Cells) \in Nat /\ compactor.capacity \in Nat
        BY <1>1, <2>3, FS_CardinalityType DEF CountInv, BuilderTypeOK
    <2>6. compactor.capacity >= Cardinality(Cells)
        BY DEF Copying
    <2> HIDE DEF old, H
    <2>7. Cardinality(old) < compactor.capacity
        BY <2>2, <2>4, <2>5, <2>6
    <2> QED BY <2>7 DEF old
<1>5. /\ DOMAIN destination' = DOMAIN destination \cup {pair[1]}
      /\ \A h \in DOMAIN destination' :
            destination'[h] = IF h = pair[1] THEN pair[2] ELSE destination[h]
      /\ pending' = [pending EXCEPT ![t] = @ \ {pair}] /\ phase' = phase
    BY <1>2, <1>4
<1>6. \A h \in DOMAIN destination' : Stored(h, destination'[h])
    BY <1>3, <1>5
<1>7. ASSUME NEW h, Arriving(h) PROVE Arriving(h)'
    <2>1. CASE h \in DOMAIN destination \cup {pair[1]}
        BY <1>5, <2>1 DEF Arriving
    <2>2. CASE h \notin DOMAIN destination \cup {pair[1]}
        <3>1. PICK u \in Threads : phase[u] = "copy" /\ \E other \in pending[u] : other[1] = h
            BY <1>7, <2>2 DEF Arriving
        <3>2. PICK other \in pending[u] : other[1] = h
            BY <3>1
        <3>3. other \in pending'[u]
            BY <1>1, <1>5, <2>2, <3>2 DEF BuilderTypeOK
        <3> QED BY <1>5, <3>1, <3>2, <3>3 DEF Arriving
    <2> QED BY <2>1, <2>2
<1>8. \A u \in Threads : phase'[u] = "copy" => \A other \in pending'[u] : Stored(other[1], other[2])
    <2>1. \A u \in Threads : pending'[u] \subseteq pending[u]
        BY <1>1, <1>5 DEF BuilderTypeOK
    <2> QED BY <1>5, <2>1 DEF Copying
<1>9. \A u \in Threads : phase'[u] # "panicked"
    BY <1>5 DEF Copying
<1> QED BY <1>1, <1>6, <1>7, <1>8, <1>9, CopyingStays

\* Taking a source makes its hashes those of a thread that copies.
LEMMA TakeSourceCopies ==
    ASSUME BuilderInv, Copying, WholeSources, NEW t \in Threads, TakeSource(t)
    PROVE  Copying'
<1>1. /\ phase[t] = "take" /\ phase' = [phase EXCEPT ![t] = "copy"]
      /\ UNCHANGED <<tables, entries, currentTable, compactor, destination>>
      /\ nextSource \in 1 .. Len(compactor.sources) /\ nextSource' = nextSource + 1
      /\ BuilderTypeOK
    BY DEF TakeSource, Enter, growthVars, BuilderInv, BuilderTypeOK
<1> DEFINE p == compactor.sources[nextSource]
<1>2. p \in 1 .. Len(tables) /\ ~Partial(p)
    BY <1>1 DEF WholeSources, BuilderTypeOK
<1>3. PICK pairs \in Yields(p) : pending' = [pending EXCEPT ![t] = pairs]
    BY DEF TakeSource
<1>4. /\ \A pair \in pairs : Stored(pair[1], pair[2])
      /\ \A h \in Held(p) : \E pair \in pairs : pair[1] = h
    <2> HIDE DEF p
    <2> QED BY <1>2, WholeYields
<1>5. phase'[t] = "copy" /\ pending'[t] = pairs
    BY <1>1, <1>3 DEF BuilderTypeOK
<1>6. \A u \in Threads \ {t} : phase'[u] = phase[u] /\ pending'[u] = pending[u]
    BY <1>1, <1>3 DEF BuilderTypeOK
<1>7. \A h : Arriving(h) => Arriving(h)'
    BY <1>1, <1>6 DEF Arriving
<1>8. \A h \in Held(p) : Arriving(h)'
    BY <1>4, <1>5 DEF Arriving
<1>9. \A i \in 1 .. Len(compactor.sources) :
          i < nextSource' => i < nextSource \/ \A h \in Held(compactor.sources[i]) : Arriving(h)'
    <2>1. \A i \in 1 .. Len(compactor.sources) :
              i < nextSource' => i < nextSource \/ i = nextSource
        BY <1>1
    <2> QED BY <1>8, <2>1
<1>10. \A u \in Threads : phase'[u] = "copy" => \A pair \in pending'[u] : Stored(pair[1], pair[2])
    BY <1>4, <1>5, <1>6 DEF Copying
<1>11. \A u \in Threads : phase'[u] # "panicked"
    BY <1>1, <1>6 DEF Copying
<1>12. \A h \in DOMAIN destination' : Stored(h, destination'[h])
    BY <1>1 DEF Copying
<1> QED BY <1>1, <1>7, <1>9, <1>10, <1>11, <1>12, CopyingStays

\* The steps that neither take a source nor copy a pair take no hash away.
LEMMA OthersCopy ==
    ASSUME BuilderInv, PublishInv, Copying, compactor # NoCompactor, NEW t \in Threads,
           ReadCompactor(t) \/ DropReader(t) \/ SourceCopied(t) \/ Finish(t) \/ ReadResult(t)
    PROVE  Copying'
<1>1. /\ UNCHANGED <<tables, entries, currentTable, compactor, destination, pending>>
      /\ BuilderTypeOK
      /\ phase[t] # "copy" \/ pending[t] = {}
      /\ \E to \in Phases \ {"copy", "panicked"} : phase' = [phase EXCEPT ![t] = to]
      /\ nextSource' = nextSource \/ nextSource > Len(compactor.sources)
    BY DEF ReadCompactor, DropReader, SourceCopied, Finish, ReadResult, Enter, growthVars,
           compactVars, BuilderInv, Phases
<1>2. \A u \in Threads : phase'[u] = phase[u] \/ (u = t /\ phase'[u] \notin {"copy", "panicked"})
    BY <1>1 DEF BuilderTypeOK
<1>3. \A h : Arriving(h) => Arriving(h)'
    BY <1>1, <1>2 DEF Arriving
<1>4. \A i \in 1 .. Len(compactor.sources) : i < nextSource' => i < nextSource
    BY <1>1 DEF BuilderTypeOK
<1>5. /\ \A u \in Threads : phase'[u] = "copy" => \A pair \in pending'[u] : Stored(pair[1], pair[2])
      /\ \A u \in Threads : phase'[u] # "panicked"
      /\ \A h \in DOMAIN destination' : Stored(h, destination'[h])
    BY <1>1, <1>2 DEF Copying
<1> QED BY <1>1, <1>3, <1>4, <1>5, CopyingStays


\* Before the setup nothing is taken, copied or published.
LEMMA NothingCopiedBefore ==
    ASSUME BuilderInv, PublishInv, CopyInv, compactor = NoCompactor, [BuilderNext]_builderVars,
           \A t \in Threads : ~SetUp(t)
    PROVE  CopyInv'
<1>1. \A t \in Threads : phase[t] \notin {"dropReader", "take", "copy", "panicked"}
    BY DEF PublishInv, CopyInv
<1>2. nextSource = 1 /\ ~completed /\ BuilderTypeOK
    BY DEF CopyInv, BuilderInv
<1>3. ASSUME NEW t \in Threads, ThreadStep(t)
      PROVE  /\ UNCHANGED <<compactor, nextSource, completed>>
             /\ \A u \in Threads : phase'[u] # "panicked"
    <2>1. UNCHANGED <<compactor, nextSource, completed>>
        BY <1>1, <1>3 DEF ThreadStep, Insert, AddSize, ReleaseHandle, Enter, ReadCompactor,
               DropReader, TakeSource, CopyPair, SourceCopied, Finish, ReadResult, compactVars
    <2>2. phase' = phase \/ \E to \in Phases \ {"panicked"} : phase' = [phase EXCEPT ![t] = to]
        BY <1>1, <1>3 DEF ThreadStep, Insert, AddSize, ReleaseHandle, Enter, ReadCompactor,
               DropReader, TakeSource, CopyPair, SourceCopied, Finish, ReadResult, Phases
    <2> QED BY <1>1, <1>2, <2>1, <2>2 DEF BuilderTypeOK
<1>4. ASSUME (\E s \in Spares : DropHandle(s)) \/ AllReturned \/ UNCHANGED builderVars
      PROVE  UNCHANGED <<compactor, nextSource, completed, phase>>
    BY <1>4 DEF DropHandle, AllReturned, builderVars
<1> QED BY <1>1, <1>2, <1>3, <1>4 DEF BuilderNext, CopyInv

\* Every step of the builder keeps what the copy relies on.
LEMMA CopyInvStep ==
    ASSUME FewRows, BuilderInv, PublishInv, CountInv, RowsWait, FewCells, CopyInv,
           [BuilderNext]_builderVars
    PROVE  CopyInv'
<1>1. CASE \E t \in Threads : SetUp(t)
    BY <1>1, SetUpCopies
<1>2. CASE compactor = NoCompactor /\ \A t \in Threads : ~SetUp(t)
    BY <1>2, NothingCopiedBefore
<1>3. CASE compactor # NoCompactor /\ \A t \in Threads : ~SetUp(t)
    <2>1. UNCHANGED <<tables, entries, currentTable, compactor>>
        BY <1>3, PreparedStays
    <2>2. WholeSources' <=> WholeSources
        BY <2>1 DEF WholeSources, Partial, Full, Held
    <2>3. ASSUME WholeSources PROVE Copying'
        <3>1. Copying
            BY <1>3, <2>3 DEF CopyInv
        <3>2. ASSUME NEW t \in Threads, CopyPair(t) PROVE Copying'
            BY <1>3, <3>1, <3>2, CopyPairCopies
        <3>3. ASSUME NEW t \in Threads, TakeSource(t) PROVE Copying'
            BY <2>3, <3>1, <3>3, TakeSourceCopies
        <3>4. ASSUME NEW t \in Threads,
                     ReadCompactor(t) \/ DropReader(t) \/ SourceCopied(t) \/ Finish(t) \/ ReadResult(t)
              PROVE  Copying'
            BY <1>3, <3>1, <3>4, OthersCopy
        <3>5. ASSUME NEW t \in Threads, Insert(t) \/ AddSize(t) \/ ReleaseHandle(t) PROVE FALSE
            BY <1>3, <3>5 DEF Insert, AddSize, ReleaseHandle, Enter, BuilderInv, HoldersInsert
        <3>6. ASSUME (\E s \in Spares : DropHandle(s)) \/ AllReturned \/ UNCHANGED builderVars
              PROVE  Copying'
            <4>1. UNCHANGED <<phase, destination, nextSource, pending>>
                BY <3>6 DEF DropHandle, AllReturned, builderVars
            <4>2. /\ \A h : Arriving(h) => Arriving(h)'
                  /\ \A h \in DOMAIN destination' : Stored(h, destination'[h])
                  /\ \A t \in Threads : phase'[t] = "copy"
                        => \A pair \in pending'[t] : Stored(pair[1], pair[2])
                  /\ \A t \in Threads : phase'[t] # "panicked"
                BY <3>1, <4>1 DEF Arriving, Copying
            <4> QED BY <2>1, <3>1, <4>1, <4>2, CopyingStays
        <3> QED BY <1>3, <3>2, <3>3, <3>4, <3>5, <3>6 DEF BuilderNext, ThreadStep
    <2>4. completed' => nextSource' > Len(compactor.sources)
        <3>1. ASSUME NEW t \in Threads, ThreadStep(t)
              PROVE  /\ nextSource' = nextSource \/ nextSource' = nextSource + 1
                     /\ completed' = completed \/ nextSource > Len(compactor.sources)
            BY <1>3, <3>1 DEF ThreadStep, Insert, AddSize, ReleaseHandle, Enter, ReadCompactor,
                   DropReader, TakeSource, CopyPair, SourceCopied, Finish, ReadResult, compactVars
        <3>2. ASSUME (\E s \in Spares : DropHandle(s)) \/ AllReturned \/ UNCHANGED builderVars
              PROVE  nextSource' = nextSource /\ completed' = completed
            BY <3>2 DEF DropHandle, AllReturned, builderVars
        <3>3. nextSource \in Nat /\ Len(compactor.sources) \in Nat
            BY DEF BuilderInv, BuilderTypeOK
        <3>4. completed => nextSource > Len(compactor.sources)
            BY DEF CopyInv
        <3>5. completed' => nextSource > Len(compactor.sources)
            BY <3>1, <3>2, <3>4, Zenon DEF BuilderNext
        <3>6. nextSource' = nextSource \/ nextSource' = nextSource + 1
            BY <3>1, <3>2, Zenon DEF BuilderNext
        <3> QED BY <3>3, <3>5, <3>6
    <2> QED BY <1>3, <2>1, <2>2, <2>3, <2>4 DEF CopyInv
<1> QED BY <1>1, <1>2, <1>3

\* Everything the copy relies on, in every state, when the rows are finitely many.
LEMMA CopyInvariant ==
    ASSUME FewRows
    PROVE  BuilderSpec => [](BuilderInv /\ PublishInv /\ CopyInv)
<1> DEFINE I == PublishInv /\ RowsWait /\ FewCells /\ CopyInv
<1>1. BuilderInit => I
    <2> SUFFICES ASSUME BuilderInit PROVE I
        OBVIOUS
    <2>1. PublishInv /\ CopyInv
        BY DEF BuilderInit, PublishInv, CopyInv
    <2>2. RowsWait
        BY DEF BuilderInit, Init, RowsWait
    <2>3. FewCells
        <3>1. Cells = {} /\ Waiting = Given
            BY DEF BuilderInit, Init, Cells, Held, NoEntries, Waiting, Given
        <3>2. Cardinality(Cells) = 0 /\ Cardinality(Given) \in Nat
            BY <3>1, FS_EmptySet, FS_CardinalityType DEF FewRows
        <3> QED BY <3>1, <3>2 DEF FewCells
    <2> QED BY <2>1, <2>2, <2>3
<1>2. BuilderInv /\ CountInv /\ I /\ [BuilderNext]_builderVars => I'
    <2> SUFFICES ASSUME BuilderInv, CountInv, I, [BuilderNext]_builderVars PROVE I'
        OBVIOUS
    <2>1. PublishInv'
        BY PublishInvStep
    <2>2. RowsWait' /\ FewCells'
        BY FewCellsInvStep DEF FewRows, BuilderInv, GrowthInv
    <2>3. CopyInv'
        BY CopyInvStep
    <2> QED BY <2>1, <2>2, <2>3
<1>3. I => PublishInv /\ CopyInv
    OBVIOUS
<1> HIDE DEF I
<1> QED BY <1>1, <1>2, <1>3, BuilderInvariant, CountInvariant, PTL DEF BuilderSpec

\* The unwrap of the copying insert never fails, whoever copies which source in
\* whatever order: the last handle sized the destination for all cells written.
THEOREM DestinationFits == ASSUME FewRows PROVE BuilderSpec => []UnwrapHolds
<1>1. BuilderInv /\ PublishInv /\ CopyInv => UnwrapHolds
    BY DEF UnwrapHolds, CopyInv, Copying
<1> QED BY <1>1, CopyInvariant, PTL

\* When the result is published, every hash of every build table is in it, with a
\* row that a build table held with that hash.
THEOREM EveryHashIsPublished == ASSUME FewRows PROVE BuilderSpec => []PublishedIsComplete
<1>1. BuilderInv /\ PublishInv /\ CopyInv => PublishedIsComplete
    <2> SUFFICES ASSUME BuilderInv, PublishInv, CopyInv, completed, WholeSources,
                        NEW p \in 1 .. Len(tables), NEW h \in Held(p)
                 PROVE  h \in DOMAIN destination /\ Stored(h, destination[h])
        BY DEF PublishedIsComplete, Stored
    <2>1. /\ compactor # NoCompactor /\ nextSource > Len(compactor.sources) /\ Copying
          /\ \A t \in Threads : phase[t] # "copy"
        BY DEF CopyInv, PublishInv
    <2>2. Arriving(h)
        <3>1. CASE compactor.reuses /\ p = currentTable
            BY <2>1, <3>1 DEF Copying
        <3>2. CASE ~(compactor.reuses /\ p = currentTable)
            <4>1. PICK i \in 1 .. Len(compactor.sources) : compactor.sources[i] = p
                BY <2>1, <3>2 DEF BuilderInv, NoTableLeftBehind
            <4>2. i < nextSource
                BY <2>1 DEF BuilderInv, BuilderTypeOK
            <4> QED BY <2>1, <4>1, <4>2 DEF Copying
        <3> QED BY <3>1, <3>2
    <2> QED BY <2>1, <2>2 DEF Arriving, Copying
<1> QED BY <1>1, CopyInvariant, PTL

===============================================================================
