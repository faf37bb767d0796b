-------------------------- MODULE SharedTableBuilder --------------------------
(***************************************************************************)
(* The whole life of the build table of hashjoin, new_map_3: threads       *)
(* insert their batches through cloned WriteOnlyTable handles (module      *)
(* TableGrowth) and then call compact, which elects the last handle to     *)
(* prepare a Compactor, copies the source tables together and elects the   *)
(* last holder of the Compactor to publish the read-only table.            *)
(*                                                                         *)
(* An Arc is the set of those that hold it: Arc::into_inner succeeds for   *)
(* the one that holds it alone.  A WriteNotifyCell keeps its value, and    *)
(* the Arc<Compactor> in it, as long as one reader of it is alive.         *)
(***************************************************************************)
EXTENDS TableGrowth

CONSTANTS
    Spares,       \* clones of the handle that are dropped, never compacted
    ZeroHash,     \* the hash 0 of an empty cell
    DefaultRow    \* V::default()

ASSUME SparesAssumption == Spares \cap Threads = {}
ASSUME DefaultAssumption == DefaultRow \notin Rows /\ DefaultRow # Null

VARIABLES
    phase,        \* where each thread is inside compact
    writers,      \* holders of write_state: Arc<SharedTableBuilder>
    totalSize,    \* total_size_during_compaction
    cellReaders,  \* live ReadNotifyCells of compaction_elements
    compactor,    \* Compactor: capacity of the destination, source_tables
    holders,      \* holders of Arc<Compactor>, the cell left aside
    destination,  \* the rows of destination_table
    nextSource,   \* next_table_counter
    pending,      \* pairs a thread has still to copy from its source table
    completed     \* completed_table_write_cell has been written

compactVars == <<writers, totalSize, cellReaders, compactor, holders, destination,
                 nextSource, pending, completed>>
builderVars == <<tables, entries, currentTable, fullTables, migrationState,
                 pc, row, cache, target, replaced, fresh, writes, todo, displaced,
                 phase, writers, totalSize, cellReaders, compactor, holders, destination,
                 nextSource, pending, completed>>

Phases == {"insert", "release", "setup", "read", "dropReader", "take", "copy",
           "await", "done", "panicked"}
NoCompactor == [capacity |-> 0, sources |-> <<>>, reuses |-> FALSE]

BuilderTypeOK ==
    /\ phase \in [Threads -> Phases]
    /\ writers \subseteq Threads \cup Spares
    /\ totalSize \in Nat
    /\ cellReaders \subseteq Threads
    /\ compactor \in [capacity : Nat, sources : Seq(1 .. Len(tables)), reuses : BOOLEAN]
    /\ holders \subseteq Threads
    /\ \A h \in DOMAIN destination : destination[h] \in Rows \cup {DefaultRow}
    /\ nextSource \in Nat \ {0}
    /\ pending \in [Threads -> SUBSET ((Hashes \cup {ZeroHash}) \X (Rows \cup {DefaultRow}))]
    /\ completed \in BOOLEAN

BuilderInit ==
    /\ Init
    /\ phase = [t \in Threads |-> "insert"]
    /\ writers = Threads \cup Spares
    /\ totalSize = 0
    /\ cellReaders = {}
    /\ compactor = NoCompactor
    /\ holders = {}
    /\ destination = NoEntries
    /\ nextSource = 1
    /\ pending = [t \in Threads |-> {}]
    /\ completed = FALSE

------------------------------------------------------------------------------

Enter(t, from, to) ==
    /\ phase[t] = from
    /\ phase' = [phase EXCEPT ![t] = to]

\* A thread still inserting its batch.
Insert(t) ==
    /\ phase[t] = "insert"
    /\ Step(t)
    /\ UNCHANGED <<phase, compactVars>>

\* compact: the handle is consumed, its count of writes added to the total and a
\* reader of the compaction cell taken before the builder is given up.
AddSize(t) ==
    /\ Enter(t, "insert", "release")
    /\ pc[t] = "idle" /\ todo[t] = {}
    /\ totalSize' = totalSize + writes[t]
    /\ cellReaders' = cellReaders \cup {t}
    /\ UNCHANGED <<growthVars, writers, compactor, holders, destination, nextSource,
                   pending, completed>>

\* Mutant of ReleaseHandle: the election counts one holder too few.
ReleaseHandleEarly(t) ==
    /\ phase[t] = "release"
    /\ writers' = writers \ {t}
    /\ IF Cardinality(writers) <= 2
       THEN /\ phase' = [phase EXCEPT ![t] = "setup"]
            /\ cellReaders' = cellReaders \ {t}
       ELSE /\ phase' = [phase EXCEPT ![t] = "read"]
            /\ UNCHANGED cellReaders
    /\ UNCHANGED <<growthVars, totalSize, compactor, holders, destination, nextSource,
                   pending, completed>>

\* compact: Arc::into_inner(self.write_state).
ReleaseHandle(t) ==
    /\ phase[t] = "release"
    /\ writers' = writers \ {t}
    /\ IF writers = {t}
       THEN /\ phase' = [phase EXCEPT ![t] = "setup"]
            /\ cellReaders' = cellReaders \ {t}
       ELSE /\ phase' = [phase EXCEPT ![t] = "read"]
            /\ UNCHANGED cellReaders
    /\ UNCHANGED <<growthVars, totalSize, compactor, holders, destination, nextSource,
                   pending, completed>>

\* A clone that goes out of scope: the builder loses a holder, nobody compacts.
DropHandle(s) ==
    /\ s \in writers
    /\ writers' = writers \ {s}
    /\ UNCHANGED <<growthVars, phase, totalSize, cellReaders, compactor, holders, destination,
                   nextSource, pending, completed>>

\* Mutants of SetUp: the current table is forgotten among the sources, or is
\* reused when all tables together could hold everything.
SetUpWithoutCurrent(t) ==
    /\ Enter(t, "setup", "take")
    /\ IF totalSize > tables[currentTable].capacity
       THEN /\ compactor' = [capacity |-> RoundCapacity(totalSize), reuses |-> FALSE,
                             sources |-> fullTables]
            /\ destination' = NoEntries
       ELSE /\ compactor' = [capacity |-> tables[currentTable].capacity, reuses |-> TRUE,
                             sources |-> fullTables]
            /\ destination' = entries[currentTable]
    /\ holders' = {t}
    /\ UNCHANGED <<growthVars, writers, totalSize, cellReaders, nextSource, pending, completed>>

SetUpByTotalCapacity(t) ==
    /\ Enter(t, "setup", "take")
    /\ IF totalSize > ExistingCapacity(currentTable)
       THEN /\ compactor' = [capacity |-> RoundCapacity(totalSize), reuses |-> FALSE,
                             sources |-> Append(fullTables, currentTable)]
            /\ destination' = NoEntries
       ELSE /\ compactor' = [capacity |-> tables[currentTable].capacity, reuses |-> TRUE,
                             sources |-> fullTables]
            /\ destination' = entries[currentTable]
    /\ holders' = {t}
    /\ UNCHANGED <<growthVars, writers, totalSize, cellReaders, nextSource, pending, completed>>

\* compact, step 1: the last writer reuses the current table when everything
\* fits, else it allocates a table and the current one becomes a source too.
SetUp(t) ==
    /\ Enter(t, "setup", "take")
    /\ IF totalSize > tables[currentTable].capacity
       THEN /\ compactor' = [capacity |-> RoundCapacity(totalSize), reuses |-> FALSE,
                             sources |-> Append(fullTables, currentTable)]
            /\ destination' = NoEntries
       ELSE /\ compactor' = [capacity |-> tables[currentTable].capacity, reuses |-> TRUE,
                             sources |-> fullTables]
            /\ destination' = entries[currentTable]
    /\ holders' = {t}
    /\ UNCHANGED <<growthVars, writers, totalSize, cellReaders, nextSource, pending, completed>>

\* compact: the other threads wait for the cell and clone the Arc in it.
ReadCompactor(t) ==
    /\ Enter(t, "read", "dropReader")
    /\ compactor # NoCompactor
    /\ holders' = holders \cup {t}
    /\ UNCHANGED <<growthVars, writers, totalSize, cellReaders, compactor, destination,
                   nextSource, pending, completed>>

\* Mutant of DropReader: the reader is kept while the thread copies.
KeepReader(t) ==
    /\ Enter(t, "dropReader", "take")
    /\ UNCHANGED <<growthVars, compactVars>>

\* compact: the reader of the cell goes before the copying starts, so that the
\* cell gives up its own Arc<Compactor> once every reader has.
DropReader(t) ==
    /\ Enter(t, "dropReader", "take")
    /\ cellReaders' = cellReaders \ {t}
    /\ UNCHANGED <<growthVars, writers, totalSize, compactor, holders, destination,
                   nextSource, pending, completed>>

\* WritableFixedTable::entries yields every pair of a full table and of a table
\* of one group.  In any other table its group iterator reads the tags of group
\* 0 again for each group: pairs are passed over, and an empty cell can come out
\* as hash 0 with the default value.
Partial(p) == tables[p].capacity > GroupSize /\ ~Full(p)
Pairs(p) == {<<h, entries[p][h]>> : h \in Held(p)}
Yields(p) ==
    IF Partial(p)
    THEN {s \in SUBSET (Pairs(p) \cup {<<ZeroHash, DefaultRow>>}) :
             Cardinality(Pairs(p) \ s) <= tables[p].capacity - GroupSize}
    ELSE {Pairs(p)}

\* compact, step 2: take the next source table, if there is one.
TakeSource(t) ==
    /\ Enter(t, "take", "copy")
    /\ nextSource <= Len(compactor.sources)
    /\ nextSource' = nextSource + 1
    /\ \E pairs \in Yields(compactor.sources[nextSource]) :
          pending' = [pending EXCEPT ![t] = pairs]
    /\ UNCHANGED <<growthVars, writers, totalSize, cellReaders, compactor, holders,
                   destination, completed>>

\* compact, step 2: destination_table.insert(..).unwrap() of one pair.  A previous
\* value of the same hash is dropped; a full destination panics and the unwinding
\* thread lets its Arc go.
CopyPair(t) ==
    /\ phase[t] = "copy"
    /\ \E pair \in pending[t] :
          IF pair[1] \in DOMAIN destination
                \/ Cardinality(DOMAIN destination) < compactor.capacity
          THEN /\ destination' = [h \in DOMAIN destination \cup {pair[1]} |->
                                     IF h = pair[1] THEN pair[2] ELSE destination[h]]
               /\ pending' = [pending EXCEPT ![t] = @ \ {pair}]
               /\ UNCHANGED <<phase, holders>>
          ELSE /\ phase' = [phase EXCEPT ![t] = "panicked"]
               /\ holders' = holders \ {t}
               /\ UNCHANGED <<destination, pending>>
    /\ UNCHANGED <<growthVars, writers, totalSize, cellReaders, compactor, nextSource, completed>>

SourceCopied(t) ==
    /\ Enter(t, "copy", "take")
    /\ pending[t] = {}
    /\ UNCHANGED <<growthVars, compactVars>>

\* Mutant of Finish: whoever finds no source left publishes the destination.
FinishFirst(t) ==
    /\ phase[t] = "take"
    /\ nextSource > Len(compactor.sources)
    /\ nextSource' = nextSource + 1
    /\ holders' = holders \ {t}
    /\ completed' = TRUE
    /\ phase' = [phase EXCEPT ![t] = "done"]
    /\ UNCHANGED <<growthVars, writers, totalSize, cellReaders, compactor, destination, pending>>

\* compact, step 3: no source is left; Arc::into_inner(compaction_elements).  The
\* one that succeeds publishes the destination table, the others wait for it.
Finish(t) ==
    /\ phase[t] = "take"
    /\ nextSource > Len(compactor.sources)
    /\ nextSource' = nextSource + 1
    /\ holders' = holders \ {t}
    /\ IF holders = {t} /\ cellReaders = {}
       THEN /\ completed' = TRUE
            /\ phase' = [phase EXCEPT ![t] = "done"]
       ELSE /\ phase' = [phase EXCEPT ![t] = "await"]
            /\ UNCHANGED completed
    /\ UNCHANGED <<growthVars, writers, totalSize, cellReaders, compactor, destination, pending>>

ReadResult(t) ==
    /\ Enter(t, "await", "done")
    /\ completed
    /\ UNCHANGED <<growthVars, compactVars>>

ThreadStep(t) ==
    \/ Insert(t)
    \/ AddSize(t)
    \/ ReleaseHandle(t)
    \/ SetUp(t)
    \/ ReadCompactor(t)
    \/ DropReader(t)
    \/ TakeSource(t)
    \/ CopyPair(t)
    \/ SourceCopied(t)
    \/ Finish(t)
    \/ ReadResult(t)

\* Every compact has returned or panicked: the only state to stop in.
AllReturned ==
    /\ \A t \in Threads : phase[t] \in {"done", "panicked"}
    /\ writers = {}
    /\ UNCHANGED builderVars

BuilderNext ==
    \/ \E t \in Threads : ThreadStep(t)
    \/ \E s \in Spares : DropHandle(s)
    \/ AllReturned

BuilderSpec ==
    /\ BuilderInit
    /\ [][BuilderNext]_builderVars
    /\ \A t \in Threads : WF_builderVars(ThreadStep(t))
    /\ \A s \in Spares : WF_builderVars(DropHandle(s))

------------------------------------------------------------------------------
(* Safety *)

\* The cells that have a hash, in all tables; one pair for each write that a thread
\* still counts on its own.
Cells == UNION {{<<p, h>> : h \in Held(p)} : p \in 1 .. Len(tables)}
Counted ==
    UNION {{<<t, n>> : n \in 1 .. writes[t]} : t \in {t \in Threads : phase[t] = "insert"}}

\* The size that decides whether the current table can hold everything is the
\* number of cells written: the sum of the threads' total_writes, counted on
\* their side of a race only, agrees with what the tables hold.
WritesCounted == totalSize + Cardinality(Counted) = Cardinality(Cells)

\* When the last handle takes the builder apart, every table ever allocated is
\* either the destination or one of the sources, each of them once: no thread is
\* still between the swap of current_table and the push to full_tables.
NoTableLeftBehind ==
    compactor # NoCompactor =>
        /\ {compactor.sources[i] : i \in 1 .. Len(compactor.sources)}
              = IF compactor.reuses THEN 1 .. Len(tables) \ {currentTable} ELSE 1 .. Len(tables)
        /\ Len(compactor.sources) = IF compactor.reuses THEN Len(tables) - 1 ELSE Len(tables)

\* What keeps the handles and the growth apart: whoever may still insert holds
\* the builder, nobody holds it once it is taken apart, and a thread that has
\* given up its handle is not inside an insert.
HoldersInsert ==
    /\ \A t \in Threads : phase[t] \in {"insert", "release"} => t \in writers
    /\ (compactor # NoCompactor \/ \E t \in Threads : phase[t] = "setup") => writers = {}
    /\ \A t \in Threads : phase[t] # "insert" => pc[t] = "idle"

BuilderInv ==
    /\ GrowthInv
    /\ BuilderTypeOK
    /\ HoldersInsert
    /\ NoTableLeftBehind

\* No source table is of the kind that entries() walks wrongly.
WholeSources == \A i \in 1 .. Len(compactor.sources) : ~Partial(compactor.sources[i])

\* The unwrap of the copying insert never fails when the sources come out whole:
\* the destination was sized for all of them, whoever copies them in any order.
UnwrapHolds == WholeSources => \A t \in Threads : phase[t] # "panicked"

\* The published table answers for every hash the build tables held, with a row
\* that was inserted with that hash.
PublishedIsComplete ==
    completed /\ WholeSources =>
        \A p \in 1 .. Len(tables) : \A h \in Held(p) :
            /\ h \in DOMAIN destination
            /\ \E q \in 1 .. Len(tables) : h \in Held(q) /\ destination[h] = entries[q][h]

\* What the test build_table_multi_threaded asserts of the returned table
\* ("Expected to find value {} with hash {} in the table"), for rows of
\* different hashes.
RowsReadable ==
    completed => \A r \in Rows :
        HashOf[r] \in DOMAIN destination /\ destination[HashOf[r]] = r

(* What a step may never do *)

\* Nobody writes to a build table once the last handle has taken the builder
\* apart: its pointers in current_table_cache dangle from there on.
NoInsertAfterSetUp == [][compactor # NoCompactor => UNCHANGED entries]_builderVars

\* Nobody inserts into the destination once it was published as read-only.
PublishedIsReadOnly == [][completed => UNCHANGED destination]_builderVars

(* Liveness *)

\* The last holder of the builder was a clone that was dropped: nobody holds
\* write_state any more and nobody is going to write the compaction cell.
LastHandleDropped ==
    /\ writers = {}
    /\ compactor = NoCompactor
    /\ \A t \in Threads : phase[t] # "setup"

\* Unless the last handle to go is dropped, every call of compact returns: one
\* thread is elected to set up, one to publish, and no reader waits for a cell
\* that nobody will write.
CompactReturns == \A t \in Threads : <>(phase[t] = "done" \/ LastHandleDropped)

\* What the test build_table_multi_threaded relies on when it awaits the task of
\* every batch while its own handle, the one iter::repeat clones, is dropped at
\* any time: every call of compact returns.
EveryCompactReturns == \A t \in Threads : <>(phase[t] = "done")

==============================================================================
