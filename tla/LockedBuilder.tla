---------------------------- MODULE LockedBuilder ----------------------------
(***************************************************************************)
(* The builders that share one map: MutexMapBuilder, which holds a lock on *)
(* map and overflow buffer for every row, and DashMapBuilder and           *)
(* LeapfrogBuilder, whose map is concurrent and whose overflow buffer is   *)
(* written a batch at a time (hashjoin/src/mutex_map_builder.rs,           *)
(* dash_map_builder.rs, leapfrog_builder.rs).  The threads share an Arc;   *)
(* the one that drops it last publishes the lookup to the others.          *)
(***************************************************************************)
EXTENDS JoinBuilder

VARIABLES
  heads,        \* the map: the row inserted last, per hash
  batch,        \* the batch a thread is inserting: [offset, hashes, next, buffer]
  holders,      \* who holds the Arc of the shared state
  published     \* the final state has been sent

lockedVars == <<heads, batch, holders, published>>
lockedBuilderVars == <<builderVars, lockedVars>>
-----------------------------------------------------------------------------
NoBatch == [offset |-> 0, hashes |-> <<>>, next |-> 1, buffer |-> <<>>]

LockedInit ==
  /\ BuilderInit("take")
  /\ overflow = ZeroBuffer(1)
  /\ heads = <<>>
  /\ batch = [t \in Threads |-> NoBatch]
  /\ holders = Threads
  /\ published = FALSE

\* Under the write lock: the length of the overflow buffer is the offset of the
\* batch, and the buffer grows by it.
TakeBatch(t) ==
  /\ pc[t] = "take" /\ waiting[t] # <<>>
  /\ LET hashes == Head(waiting[t])
     IN /\ batch' = [batch EXCEPT ![t] = [offset |-> Offset, hashes |-> hashes, next |-> 1,
                                          buffer |-> [k \in 1..Len(hashes) |-> 0]]]
        /\ rows' = rows \o hashes
        /\ overflow' = [i \in 0..Offset + Len(hashes) |-> IF i <= Offset THEN overflow[i] ELSE 0]
  /\ waiting' = [waiting EXCEPT ![t] = Tail(@)]
  /\ GoTo(t, "insert")
  /\ UNCHANGED <<design, heads, holders, published>>

\* Mutant of Exchanged: the row found is not handed back.
ExchangedLosingOld(hash) == 0

\* What an insert finds under its hash: 0 if nothing.
Exchanged(hash) == IF hash \in DOMAIN heads THEN heads[hash] ELSE 0

\* One row; the map exchanges what it holds for the row's index.  The mutex
\* covers the overflow buffer too, the concurrent maps use a buffer of the batch.
InsertRow(t) ==
  LET b == batch[t]
      hash == b.hashes[b.next]
      at == b.offset + b.next
      previous == Exchanged(hash)
  IN /\ pc[t] = "insert" /\ b.next <= Len(b.hashes)
     /\ heads' = [h \in DOMAIN heads \cup {hash} |-> IF h = hash THEN at ELSE heads[h]]
     /\ \/ /\ design = "mutex"
           /\ overflow' = IF previous = 0 THEN overflow ELSE [overflow EXCEPT ![at] = previous]
           /\ batch' = [batch EXCEPT ![t].next = @ + 1]
        \/ /\ design = "sharded"
           /\ batch' = [batch EXCEPT ![t].next = @ + 1, ![t].buffer[b.next] = previous]
           /\ UNCHANGED overflow
     /\ UNCHANGED <<design, pc, waiting, rows, holders, published>>

\* The end of a batch; the concurrent maps' overflow entries are copied now.
FinishBatch(t) ==
  LET b == batch[t]
  IN /\ pc[t] = "insert" /\ b.next > Len(b.hashes)
     /\ overflow' = IF design = "mutex" THEN overflow
                    ELSE [i \in DOMAIN overflow |->
                            IF i - b.offset \in DOMAIN b.buffer THEN b.buffer[i - b.offset]
                                                                ELSE overflow[i]]
     /\ batch' = [batch EXCEPT ![t] = NoBatch]
     /\ GoTo(t, "take")
     /\ UNCHANGED <<design, waiting, rows, heads, holders, published>>

\* Mutant of LastHolder: it looks for other holders while it is one itself.
NobodyHolds(t) == holders = {}

\* Arc::into_inner gives the state to the last that holds it.
LastHolder(t) == holders = {t}

DropState(t) ==
  /\ pc[t] = "take" /\ waiting[t] = <<>>
  /\ holders' = holders \ {t}
  /\ \/ LastHolder(t) /\ published' = TRUE /\ GoTo(t, "done")
     \/ ~LastHolder(t) /\ GoTo(t, "receive") /\ UNCHANGED published
  /\ UNCHANGED <<design, waiting, rows, overflow, heads, batch>>

ReceiveLookup(t) ==
  /\ pc[t] = "receive" /\ published
  /\ GoTo(t, "done")
  /\ UNCHANGED <<design, waiting, rows, overflow, lockedVars>>

LockedStep(t) == \/ TakeBatch(t) \/ InsertRow(t) \/ FinishBatch(t)
                 \/ DropState(t) \/ ReceiveLookup(t)
LockedNext == \E t \in Threads : LockedStep(t)
LockedSpec == LockedInit /\ [][LockedNext]_lockedBuilderVars
-----------------------------------------------------------------------------
\* Lookup::get of the three.
LockedLookedUp(hash) == IF hash \in DOMAIN heads THEN ChainOf(heads[hash]) ELSE {}
=============================================================================
