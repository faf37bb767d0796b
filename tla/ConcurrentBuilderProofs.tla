----------------------- MODULE ConcurrentBuilderProofs -----------------------
(***************************************************************************)
(* Proofs about ConcurrentBuilder, for any number of threads and any       *)
(* batches: its phases do not overlap, local overflow buffers are copied   *)
(* to parts of the overflow buffer that are disjoint, every partition has  *)
(* exactly one owner, the counters that the destination is sized by count  *)
(* every hash once, and each hash's rows are one chain once the threads    *)
(* have copied their buffers and linked their entries.                     *)
(***************************************************************************)
EXTENDS ConcurrentBuilder, NumberLemmas

\* The places of run, in order.
Accumulating == {"refused", "accumulate", "allocate"}
Shared == {"overflow", "copy", "counts", "copied"}
AfterMerge == PastMerge \cup {"panicked"}
AfterAllocation == {"plan", "write", "spinning", "done", "panicked"}
Steps == Accumulating \cup {"collect"} \cup Shared \cup {"merge"} \cup AfterMerge

\* What the control state ranges over.
ControlTypeOK ==
  /\ pc \in [Threads -> Steps]
  /\ waiting \in [Threads -> Seq(Seq(Hashes))]
  /\ rows \in Seq(Hashes)
  /\ DOMAIN regions = Threads
  /\ \A t \in Threads : \A r \in regions[t] : r.offset \in Nat /\ Len(r.buffer) \in Nat
  /\ shared \in Seq(Threads)
  /\ DOMAIN arrived = {1, 2}
  /\ arrived[1] \subseteq Threads /\ arrived[2] \subseteq Threads

\* The tracker is held while a batch is being placed, and at no other time.
TrackerInv ==
  /\ tracker = None \/ (tracker \in Threads /\ pc[tracker] = "allocate")
  /\ \A t \in Threads : pc[t] = "allocate" => tracker = t /\ waiting[t] # <<>>

\* How far a thread has come tells what it has sent and where it has arrived, and
\* what all of them have.
PhaseInv ==
  /\ \A t \in Threads : t \in ToSet(shared) <=> pc[t] \notin Accumulating
  /\ \A t \in Threads : pc[t] \notin Accumulating \cup {"collect"} => ToSet(shared) = Threads
  /\ overflow # Unallocated => ToSet(shared) = Threads
  /\ \A t \in Threads : t \in arrived[1] <=> pc[t] \in {"merge"} \cup AfterMerge
  /\ \A t \in Threads : pc[t] \in AfterMerge => arrived[1] = Threads
  /\ \A t \in Threads : t \in arrived[2] <=> pc[t] \in {"destination"} \cup AfterAllocation
  /\ \A t \in Threads : pc[t] \in AfterAllocation => arrived[2] = Threads
  /\ table # Unallocated => arrived[2] = Threads

ControlInv == ControlTypeOK /\ TrackerInv /\ PhaseInv
-----------------------------------------------------------------------------
\* When a barrier lets threads go, all have come to it.
LEMMA PassedMeansAll ==
  ASSUME ControlTypeOK, NEW b \in {1, 2}, Passed(b)
  PROVE  arrived[b] = Threads
<1>1. IsFiniteSet(Threads) /\ Cardinality(Threads) = Parallelism
  <2>1. Parallelism - 1 \in Int /\ 0 \in Int /\ 0 <= Parallelism - 1
    BY BuilderAssumption
  <2>2. IsFiniteSet(0..Parallelism - 1) /\ Cardinality(0..Parallelism - 1) = Parallelism - 1 - 0 + 1
    BY <2>1, FS_Interval
  <2> QED BY <2>2, BuilderAssumption DEF Threads
<1>2. arrived[b] \in SUBSET Threads
  BY DEF ControlTypeOK
<1>3. Cardinality(arrived[b]) = Cardinality(Threads)
  BY <1>1 DEF Passed
<1> QED BY <1>1, <1>2, <1>3, FS_Subset

\* Appending to a sequence adds one element to its set.
LEMMA AppendToSet ==
  ASSUME NEW S, NEW seq \in Seq(S), NEW e PROVE ToSet(Append(seq, e)) = ToSet(seq) \cup {e}
<1>1. /\ DOMAIN seq = 1..Len(seq) /\ Len(seq) \in Nat
      /\ DOMAIN Append(seq, e) = 1..Len(seq) + 1
      /\ \A i \in 1..Len(seq) : Append(seq, e)[i] = seq[i]
      /\ Append(seq, e)[Len(seq) + 1] = e
  <2>1. seq \in Seq(S \cup {e}) /\ e \in S \cup {e}
    OBVIOUS
  <2> QED BY <2>1
<1> QED BY <1>1 DEF ToSet

\* The local overflow buffer of a batch is as long as the batch.
LEMMA AccumulatedLength ==
  ASSUME NEW batch \in Seq(Hashes), NEW entries, NEW offset
  PROVE  Len(AccumulatedOverflow(entries, offset, batch)) = Len(batch)
<1> DEFINE buffer == AccumulatedOverflow(entries, offset, batch)
           values == {buffer[n] : n \in 1..Len(batch)}
<1>1. buffer \in [1..Len(batch) -> values]
  BY DEF AccumulatedOverflow
<1>2. buffer \in Seq(values)
  BY <1>1
<1> QED BY <1>1, <1>2

\* A call begins with its first batch, unless it panics before.
LEMMA FirstSteps == FirstStep \in {"accumulate", "refused"}
BY DEF FirstStep

\* Every thread starts having sent nothing.
LEMMA ControlInit == ConcurrentInit => ControlInv
<1> SUFFICES ASSUME ConcurrentInit PROVE ControlInv
  OBVIOUS
<1>0. FirstStep \in {"accumulate", "refused"}
  BY FirstSteps
<1>1. ControlTypeOK
  BY <1>0, BuilderAssumption DEF ConcurrentInit, BuilderInit, ControlTypeOK, Steps, Accumulating
<1>2. TrackerInv
  BY <1>0, <1>1 DEF ConcurrentInit, BuilderInit, TrackerInv
<1>3. PhaseInv
  BY <1>0, <1>1 DEF ConcurrentInit, BuilderInit, PhaseInv, Accumulating, Shared, AfterMerge, PastMerge,
              AfterAllocation, ToSet
<1> QED BY <1>1, <1>2, <1>3 DEF ControlInv

\* Each action moves its thread on only together with what the phases promise of it.
LEMMA ControlStep ==
  ASSUME ControlInv, [ConcurrentNext]_concurrentVars
  PROVE  ControlInv'
<1> USE DEF ControlInv, ControlTypeOK, TrackerInv, PhaseInv, Steps, Accumulating, Shared, AfterMerge,
            PastMerge, AfterAllocation, GoTo, partitionedVars
<1>1. CASE UNCHANGED concurrentVars
  BY <1>1 DEF concurrentVars, builderVars
<1>2. ASSUME NEW t \in Threads, LockTracker(t) PROVE ControlInv'
  <2>1. tracker' = t /\ pc' = [pc EXCEPT ![t] = "allocate"] /\ tracker = None
        /\ waiting' = waiting /\ waiting[t] # <<>>
    BY <1>2 DEF LockTracker
  <2>2. TrackerInv'
    BY <2>1, GroupAssumption
  <2>3. ControlTypeOK' /\ PhaseInv'
    BY <1>2, <2>1 DEF LockTracker
  <2> QED BY <2>2, <2>3
<1>3. ASSUME NEW t \in Threads, AllocateBatch(t) PROVE ControlInv'
  <2> DEFINE batch == Head(waiting[t])
             buffer == AccumulatedOverflow(local[t], Offset, batch)
  <2>1. /\ batch \in Seq(Hashes)
        /\ waiting' = [waiting EXCEPT ![t] = Tail(@)] /\ Tail(waiting[t]) \in Seq(Seq(Hashes))
        /\ rows' = rows \o batch
        /\ regions' = [regions EXCEPT ![t] = @ \cup {[offset |-> Offset, buffer |-> buffer]}]
        /\ UNCHANGED <<shared, arrived, table, overflow>>
        /\ tracker' = None /\ pc' = [pc EXCEPT ![t] = "accumulate"]
    <3>1. waiting[t] \in Seq(Seq(Hashes)) /\ waiting[t] # <<>>
      BY <1>3 DEF AllocateBatch
    <3>2. batch \in Seq(Hashes) /\ Tail(waiting[t]) \in Seq(Seq(Hashes))
      BY <3>1
    <3>3. /\ waiting' = [waiting EXCEPT ![t] = Tail(@)]
          /\ rows' = rows \o batch
          /\ regions' = [regions EXCEPT ![t] = @ \cup {[offset |-> Offset, buffer |-> buffer]}]
          /\ UNCHANGED <<shared, arrived, table, overflow>>
          /\ tracker' = None /\ pc' = [pc EXCEPT ![t] = "accumulate"]
      BY <1>3 DEF AllocateBatch
    <3> QED BY <3>2, <3>3
  <2>2. Len(buffer) \in Nat /\ Offset \in Nat
    BY <2>1, AccumulatedLength DEF Offset
  <2> HIDE DEF buffer, batch
  <2>3. ControlTypeOK'
    BY <2>1, <2>2
  <2>4. TrackerInv' /\ PhaseInv'
    BY <1>3 DEF AllocateBatch
  <2> QED BY <2>3, <2>4
<1>4. ASSUME NEW t \in Threads, SendTables(t) PROVE ControlInv'
  <2>1. ControlTypeOK' /\ TrackerInv'
    BY <1>4 DEF SendTables
  <2>2. ToSet(shared') = ToSet(shared) \cup {t}
    BY <1>4, AppendToSet DEF SendTables
  <2>3. PhaseInv'
    BY <1>4, <2>1, <2>2 DEF SendTables
  <2> QED BY <2>1, <2>3
<1>5. ASSUME NEW t \in Threads, CollectTables(t) PROVE ControlInv'
  BY <1>5 DEF CollectTables
<1>6. ASSUME NEW t \in Threads, AllocateOverflow(t) PROVE ControlInv'
  <2>1. tracker = None
    BY <1>6 DEF AllocateOverflow
  <2>2. ControlTypeOK' /\ TrackerInv'
    BY <1>6, <2>1 DEF AllocateOverflow
  <2>3. PhaseInv'
    BY <1>6, <2>1 DEF AllocateOverflow
  <2> QED BY <2>2, <2>3
<1>7. ASSUME NEW t \in Threads, ReceiveOverflow(t) PROVE ControlInv'
  BY <1>7 DEF ReceiveOverflow
<1>8. ASSUME NEW t \in Threads, CopyOverflow(t) PROVE ControlInv'
  BY <1>8 DEF CopyOverflow
<1>9. ASSUME NEW t \in Threads, AllocateCounts(t) PROVE ControlInv'
  BY <1>9 DEF AllocateCounts
<1>10. ASSUME NEW t \in Threads, ReceiveCounts(t) PROVE ControlInv'
  BY <1>10 DEF ReceiveCounts
<1>11. ASSUME NEW t \in Threads, ArriveCopied(t) PROVE ControlInv'
  <2>1. /\ pc[t] = "copied" /\ pc' = [pc EXCEPT ![t] = "merge"]
        /\ arrived' = [arrived EXCEPT ![1] = @ \cup {t}]
    BY <1>11 DEF ArriveCopied, Arrive
  <2>2. ControlTypeOK' /\ TrackerInv'
    BY <1>11, <2>1 DEF ArriveCopied, Arrive
  <2>3. PhaseInv'
    BY <1>11, <2>1, <2>2 DEF ArriveCopied, Arrive
  <2> QED BY <2>2, <2>3
<1>12. ASSUME NEW t \in Threads, Merge(t) PROVE ControlInv'
  <2>1. arrived[1] = Threads
    BY <1>12, PassedMeansAll DEF Merge
  <2>2. pc[t] = "merge" /\ pc' = [pc EXCEPT ![t] = "claim"]
    BY <1>12 DEF Merge
  <2>3. UNCHANGED <<waiting, rows, regions, shared, arrived, tracker, table>>
    BY <1>12 DEF Merge
  <2>4. overflow' # Unallocated => overflow # Unallocated \/ ToSet(shared) = Threads
    BY <2>2
  <2>5. ControlTypeOK' /\ TrackerInv'
    BY <2>2, <2>3
  <2>6. PhaseInv'
    BY <2>1, <2>2, <2>3, <2>4
  <2> QED BY <2>5, <2>6
<1>13. ASSUME NEW t \in Threads, LockSenders(t) \/ MissSenders(t) \/ TakeSenders(t) PROVE ControlInv'
  <2>1. /\ pc[t] \in {"claim", "claiming"}
        /\ pc' = [pc EXCEPT ![t] = "claiming"] \/ pc' = [pc EXCEPT ![t] = "merged"]
    BY <1>13 DEF LockSenders, MissSenders, TakeSenders
  <2>2. UNCHANGED <<waiting, rows, overflow, regions, shared, arrived, tracker, table>>
    BY <1>13 DEF LockSenders, MissSenders, TakeSenders
  <2>3. ControlTypeOK' /\ TrackerInv'
    BY <2>1, <2>2
  <2>4. \A u \in Threads : pc'[u] = pc[u] \/ (pc[u] \in {"claim", "claiming"} /\ pc'[u] \in {"claiming", "merged"})
    BY <2>1
  <2>5. PhaseInv'
    BY <2>2, <2>3, <2>4
  <2> QED BY <2>3, <2>5
<1>14. ASSUME NEW t \in Threads, ArriveMerged(t) PROVE ControlInv'
  <2>1. /\ pc[t] = "merged" /\ pc' = [pc EXCEPT ![t] = "destination"]
        /\ arrived' = [arrived EXCEPT ![2] = @ \cup {t}]
    BY <1>14 DEF ArriveMerged, Arrive
  <2>2. ControlTypeOK' /\ TrackerInv'
    BY <1>14, <2>1 DEF ArriveMerged, Arrive
  <2>3. PhaseInv'
    BY <1>14, <2>1, <2>2 DEF ArriveMerged, Arrive
  <2> QED BY <2>2, <2>3
<1>15. ASSUME NEW t \in Threads, AllocateDestination(t) PROVE ControlInv'
  <2>1. arrived[2] = Threads
    BY <1>15, PassedMeansAll DEF AllocateDestination
  <2>2. /\ pc[t] = "destination"
        /\ pc' = [pc EXCEPT ![t] = "plan"] \/ pc' = [pc EXCEPT ![t] = "panicked"]
        /\ UNCHANGED <<waiting, rows, overflow, regions, shared, arrived, tracker>>
    BY <1>15 DEF AllocateDestination
  <2>3. ControlTypeOK' /\ TrackerInv'
    BY <2>2
  <2>4. PhaseInv'
    BY <2>1, <2>2, <2>3
  <2> QED BY <2>3, <2>4
<1>16. ASSUME NEW t \in Threads, ReceiveDestination(t) PROVE ControlInv'
  <2>1. arrived[2] = Threads
    BY <1>16, PassedMeansAll DEF ReceiveDestination
  <2>2. /\ pc[t] = "destination"
        /\ pc' = [pc EXCEPT ![t] = "plan"] \/ pc' = [pc EXCEPT ![t] = "panicked"]
        /\ UNCHANGED <<waiting, rows, overflow, regions, shared, arrived, tracker, table>>
    BY <1>16 DEF ReceiveDestination
  <2>3. ControlTypeOK' /\ TrackerInv'
    BY <2>2
  <2>4. PhaseInv'
    BY <2>1, <2>2, <2>3
  <2> QED BY <2>3, <2>4
<1>17. ASSUME NEW t \in Threads, PlanWrites(t) PROVE ControlInv'
  BY <1>17 DEF PlanWrites
<1>18. ASSUME NEW t \in Threads, PanicFewCounters(t) PROVE ControlInv'
  BY <1>18 DEF PanicFewCounters
<1>19. ASSUME NEW t \in Threads, WriteCell(t) PROVE ControlInv'
  BY <1>19 DEF WriteCell
<1>20. ASSUME NEW t \in Threads, Return(t) PROVE ControlInv'
  BY <1>20 DEF Return
<1> QED BY <1>1, <1>2, <1>3, <1>4, <1>5, <1>6, <1>7, <1>8, <1>9, <1>10, <1>11, <1>12, <1>13, <1>14, <1>15, <1>16, <1>17, <1>18, <1>19, <1>20 DEF ConcurrentNext, ConcurrentStep

\* How far each thread has come agrees with what it has sent, whom it has met and
\* what has been allocated.
THEOREM ControlInvariant == ConcurrentSpec => []ControlInv
<1>1. ConcurrentInit => ControlInv
  BY ControlInit
<1>2. ControlInv /\ [ConcurrentNext]_concurrentVars => ControlInv'
  BY ControlStep
<1> QED BY <1>1, <1>2, PTL DEF ConcurrentSpec

\* AllocateOverflow's expectation holds: nobody holds the tracker when a thread
\* comes to allocate the overflow buffer.
TrackerIsFree == \A t \in Threads : pc[t] = "overflow" => tracker = None

\* So the try_lock of the thread that allocates the overflow buffer never fails.
THEOREM TrackerFreeForOverflow == ConcurrentSpec => []TrackerIsFree
<1>1. ControlInv => TrackerIsFree
  BY DEF ControlInv, ControlTypeOK, TrackerInv, PhaseInv, TrackerIsFree, Accumulating
<1> QED BY <1>1, ControlInvariant, PTL
-----------------------------------------------------------------------------
\* Nothing has been allocated initially, so nothing overlaps.
LEMMA BuffersInit == ConcurrentInit => BuffersAreDisjoint
  BY DEF ConcurrentInit, BuilderInit, BuffersAreDisjoint

\* A batch gets the indices after the last one allocated.
LEMMA BuffersStep ==
  ASSUME ControlInv, BuffersAreDisjoint, [ConcurrentNext]_concurrentVars
  PROVE  BuffersAreDisjoint'
<1> USE DEF ControlInv, ControlTypeOK, BuffersAreDisjoint, Offset
<1>1. CASE UNCHANGED <<regions, rows, overflow>>
  BY <1>1
<1>2. ASSUME NEW t \in Threads, AllocateBatch(t) PROVE BuffersAreDisjoint'
  <2> DEFINE batch == Head(waiting[t])
             new == [offset |-> Offset, buffer |-> AccumulatedOverflow(local[t], Offset, batch)]
  <2>1. batch \in Seq(Hashes)
    <3>1. waiting[t] \in Seq(Seq(Hashes)) /\ waiting[t] # <<>>
      BY <1>2 DEF AllocateBatch, TrackerInv
    <3> QED BY <3>1
  <2>2. new.offset = Len(rows) /\ Len(new.buffer) = Len(batch) /\ Len(batch) \in Nat
    BY <2>1, AccumulatedLength
  <2>3. /\ rows' = rows \o batch
        /\ regions' = [regions EXCEPT ![t] = @ \cup {new}]
    BY <1>2 DEF AllocateBatch
  <2>4. Len(rows') = Len(rows) + Len(batch) /\ Len(rows) \in Nat
    BY <2>1, <2>3
  <2>5. overflow = Unallocated /\ overflow' = overflow
    BY <1>2 DEF AllocateBatch, PhaseInv, Accumulating
  <2> HIDE DEF new, batch
  <2>6. \A u \in Threads : \A r \in regions'[u] :
          (r \in regions[u] /\ r.offset + Len(r.buffer) <= Len(rows)) \/ (u = t /\ r = new)
    BY <2>3
  <2>7. \A u \in Threads : \A r \in regions[u] : r.offset \in Nat /\ Len(r.buffer) \in Nat
    OBVIOUS
  <2>8. \A u, v \in Threads : \A r \in regions'[u], s \in regions'[v] :
          <<u, r>> = <<v, s>> \/ r.offset + Len(r.buffer) <= s.offset
                              \/ s.offset + Len(s.buffer) <= r.offset
    <3> SUFFICES ASSUME NEW u \in Threads, NEW v \in Threads,
                        NEW r \in regions'[u], NEW s \in regions'[v]
                 PROVE  <<u, r>> = <<v, s>> \/ r.offset + Len(r.buffer) <= s.offset
                                            \/ s.offset + Len(s.buffer) <= r.offset
      OBVIOUS
    <3>1. CASE r \in regions[u] /\ s \in regions[v]
      BY <3>1
    <3>2. CASE r \in regions[u] /\ r.offset + Len(r.buffer) <= Len(rows) /\ v = t /\ s = new
      BY <3>2, <2>2
    <3>3. CASE u = t /\ r = new /\ s \in regions[v] /\ s.offset + Len(s.buffer) <= Len(rows)
      BY <3>3, <2>2
    <3>4. CASE u = t /\ r = new /\ v = t /\ s = new
      BY <3>4
    <3> QED BY <2>6, <3>1, <3>2, <3>3, <3>4
  <2>9. \A u \in Threads : \A r \in regions'[u] : r.offset + Len(r.buffer) <= Len(rows')
    BY <2>2, <2>4, <2>6, <2>7
  <2>10. DOMAIN regions' = Threads
    BY <2>3
  <2> QED BY <2>5, <2>8, <2>9, <2>10
<1>3. ASSUME NEW t \in Threads, AllocateOverflow(t) PROVE BuffersAreDisjoint'
  <2>1. UNCHANGED <<regions, rows>>
    BY <1>3 DEF AllocateOverflow, partitionedVars
  <2>2. overflow' = overflow \/ overflow' = ZeroBuffer(Offset + 1)
    BY <1>3 DEF AllocateOverflow
  <2>3. DOMAIN ZeroBuffer(Offset + 1) = 0..Offset
    BY DEF ZeroBuffer
  <2> QED BY <2>1, <2>2, <2>3
<1>4. ASSUME NEW t \in Threads, CopyOverflow(t) PROVE BuffersAreDisjoint'
  <2>1. UNCHANGED <<regions, rows>> /\ DOMAIN overflow' = DOMAIN overflow
    BY <1>4 DEF CopyOverflow, partitionedVars
  <2>2. overflow' # Unallocated => overflow # Unallocated
    BY <1>4 DEF CopyOverflow, Unallocated
  <2> QED BY <2>1, <2>2
<1>5. ASSUME NEW t \in Threads, Merge(t) PROVE BuffersAreDisjoint'
  <2>1. UNCHANGED <<regions, rows>> /\ DOMAIN overflow' = DOMAIN overflow
    BY <1>5 DEF Merge
  <2>2. overflow' # Unallocated => overflow # Unallocated
    BY <1>5 DEF Merge, Unallocated
  <2> QED BY <2>1, <2>2
<1>6. CASE UNCHANGED concurrentVars
  BY <1>1, <1>6 DEF concurrentVars, builderVars, partitionedVars
<1>7. ASSUME NEW t \in Threads, ConcurrentStep(t),
             ~AllocateBatch(t), ~AllocateOverflow(t), ~CopyOverflow(t), ~Merge(t)
      PROVE  BuffersAreDisjoint'
  <2>1. UNCHANGED <<regions, rows, overflow>>
    BY <1>7 DEF ConcurrentStep, partitionedVars, LockTracker, SendTables, CollectTables, ReceiveOverflow,
      AllocateCounts, ReceiveCounts, ArriveCopied, LockSenders, MissSenders, TakeSenders, ArriveMerged, Arrive,
      AllocateDestination, ReceiveDestination, PlanWrites, PanicFewCounters, WriteCell, Return
  <2> QED BY <1>1, <2>1
<1> QED BY <1>2, <1>3, <1>4, <1>5, <1>6, <1>7 DEF ConcurrentNext

\* Local overflow buffers are copied to parts of the overflow buffer that overlap
\* with no other thread's and lie within it.
THEOREM BuffersDisjoint == ConcurrentSpec => []BuffersAreDisjoint
<1>1. ConcurrentInit => BuffersAreDisjoint
  BY BuffersInit
<1>2. ControlInv /\ BuffersAreDisjoint /\ [ConcurrentNext]_concurrentVars => BuffersAreDisjoint'
  BY BuffersStep
<1> QED BY <1>1, <1>2, ControlInvariant, PTL DEF ConcurrentSpec

\* No local buffer is copied once a thread has merged, and counters and chains are
\* not written any more once the destination is allocated: the two barriers keep
\* the phases apart.
THEOREM SeparatePhases == ConcurrentSpec => PhasesAreSeparated
<1> DEFINE Separated ==
      /\ \A t, u \in Threads : pc[t] = "copy" /\ pc'[t] # "copy" => pc[u] \notin PastMerge
      /\ table # Unallocated => UNCHANGED <<counts, overflow>>
<1>1. ASSUME ControlInv, [ConcurrentNext]_concurrentVars PROVE [Separated]_concurrentVars
  <2>1. ASSUME NEW t \in Threads, NEW u \in Threads, pc[t] = "copy" PROVE pc[u] \notin PastMerge
    <3>1. t \notin arrived[1]
      BY <1>1, <2>1 DEF ControlInv, PhaseInv, AfterMerge, PastMerge
    <3> QED BY <1>1, <3>1 DEF ControlInv, PhaseInv, AfterMerge
  <2>2. ASSUME NEW t \in Threads, ConcurrentStep(t), table # Unallocated
        PROVE  UNCHANGED <<counts, overflow>>
    <3>1. pc[t] \in {"destination"} \cup AfterAllocation
      BY <1>1, <2>2 DEF ControlInv, PhaseInv
    <3>2. \/ AllocateDestination(t) \/ ReceiveDestination(t) \/ PlanWrites(t)
          \/ PanicFewCounters(t) \/ WriteCell(t) \/ Return(t)
      BY <2>2, <3>1 DEF AfterAllocation, ConcurrentStep, LockTracker, AllocateBatch, SendTables,
        CollectTables, AllocateOverflow, ReceiveOverflow, CopyOverflow, AllocateCounts, ReceiveCounts,
        ArriveCopied, Merge, LockSenders, MissSenders, TakeSenders, ArriveMerged
    <3> QED BY <3>2 DEF AllocateDestination, ReceiveDestination, PlanWrites, PanicFewCounters,
        WriteCell, Return, partitionedVars
  <2> QED BY <1>1, <2>1, <2>2 DEF ConcurrentNext
<1>2. ConcurrentSpec => [][Separated]_concurrentVars
  BY <1>1, ControlInvariant, PTL DEF ConcurrentSpec
<1> QED BY <1>2 DEF PhasesAreSeparated
-----------------------------------------------------------------------------
\* The smaller of two numbers.
LEMMA MinOfTwo ==
  ASSUME NEW a \in Int, NEW b \in Int PROVE Min({a, b}) = IF a <= b THEN a ELSE b
<1>1. \E x \in {a, b} : \A y \in {a, b} : x <= y
  OBVIOUS
<1>2. Min({a, b}) \in {a, b} /\ \A y \in {a, b} : Min({a, b}) <= y
  BY <1>1 DEF Min
<1> QED BY <1>2

\* What a division leaves.
LEMMA Division ==
  ASSUME NEW a \in Nat, NEW b \in Nat \ {0}
  PROVE  /\ a \div b \in Nat /\ a % b \in 0..b - 1
         /\ a = (a \div b) * b + (a % b)
  OBVIOUS

\* Every number is a multiple of a divisor and a smaller remainder.
LEMMA DivisionWithRest ==
  ASSUME NEW a \in Nat, NEW b \in Nat \ {0}
  PROVE  \E q \in Nat, m \in 0..b - 1 : a = q * b + m
<1>1. a \div b \in Nat /\ a % b \in 0..b - 1 /\ a = (a \div b) * b + (a % b)
  BY Division
<1> QED BY <1>1, Zenon

\* What every thread gets of the partitions, and what remains.
LEMMA Shares ==
  ASSUME NEW total \in Nat
  PROVE  /\ total \div Parallelism \in Nat /\ total % Parallelism \in 0..Parallelism - 1
         /\ total = (total \div Parallelism) * Parallelism + (total % Parallelism)
BY Division, BuilderAssumption

\* The bounds of a thread's range, and that the next thread's begins at its end.
LEMMA RangeBounds ==
  ASSUME NEW total \in Nat, NEW a \in Threads
  PROVE  LET floor == total \div Parallelism
             remainder == total % Parallelism
             range == OwnedRange(total, a)
         IN /\ range.low = a * floor + (IF a <= remainder THEN a ELSE remainder)
            /\ range.high = a * floor + floor + (IF a < remainder THEN a + 1 ELSE remainder)
<1> DEFINE floor == total \div Parallelism
           remainder == total % Parallelism
<1>1. a \in Nat /\ floor \in Nat /\ remainder \in Nat
  BY Shares, BuilderAssumption DEF Threads
<1>2. Min({a, remainder}) = IF a <= remainder THEN a ELSE remainder
  BY <1>1, MinOfTwo
<1>3. /\ OwnedRange(total, a).low = a * floor + Min({a, remainder})
      /\ OwnedRange(total, a).high = a * floor + Min({a, remainder}) + floor
                                    + (IF a < remainder THEN 1 ELSE 0)
  BY DEF OwnedRange
<1>4. a * floor \in Nat
  BY <1>1
<1>5. OwnedRange(total, a).low = a * floor + (IF a <= remainder THEN a ELSE remainder)
  BY <1>2, <1>3
<1>6. CASE a < remainder
  <2>1. OwnedRange(total, a).high = a * floor + a + floor + 1
    BY <1>1, <1>2, <1>3, <1>6
  <2> QED BY <1>1, <1>4, <1>5, <1>6, <2>1
<1>7. CASE ~(a < remainder)
  <2>1. OwnedRange(total, a).high = a * floor + remainder + floor + 0
    BY <1>1, <1>2, <1>3, <1>7
  <2> QED BY <1>1, <1>4, <1>5, <1>7, <2>1
<1> QED BY <1>6, <1>7

\* Ranges of different threads have nothing in common.
LEMMA RangesDisjoint ==
  ASSUME NEW total \in Nat, NEW a \in Threads, NEW b \in Threads, a < b
  PROVE  OwnedRange(total, a).high <= OwnedRange(total, b).low
<1> DEFINE floor == total \div Parallelism
           remainder == total % Parallelism
<1>1. a \in Nat /\ b \in Nat /\ floor \in Nat /\ remainder \in Nat
  BY Shares, BuilderAssumption DEF Threads
<1>2. /\ OwnedRange(total, a).high = a * floor + floor + (IF a < remainder THEN a + 1 ELSE remainder)
      /\ OwnedRange(total, b).low = b * floor + (IF b <= remainder THEN b ELSE remainder)
  BY RangeBounds
<1> HIDE DEF floor, remainder
<1>3. a * floor + floor <= b * floor
  <2>1. b * floor = a * floor + floor + (b - a - 1) * floor
    BY <1>1
  <2>2. (b - a - 1) * floor >= 0
    <3>1. b - a - 1 \in Nat
      BY <1>1
    <3> QED BY <1>1, <3>1
  <2>3. a * floor \in Nat /\ (b - a - 1) * floor \in Int
    BY <1>1
  <2> QED BY <1>1, <2>1, <2>2, <2>3
<1>4. a * floor \in Nat /\ b * floor \in Nat
  BY <1>1
<1> QED BY <1>1, <1>2, <1>3, <1>4

\* Every partition has exactly one owner, whatever the number of partitions and of
\* threads: none is merged twice and none is left out.
THEOREM EveryPartitionHasOneOwner ==
  ASSUME NEW total \in Nat, NEW p \in 0..total - 1
  PROVE  \E a \in Threads :
           /\ p \in OwnedRange(total, a).low..OwnedRange(total, a).high - 1
           /\ \A b \in Threads :
                p \in OwnedRange(total, b).low..OwnedRange(total, b).high - 1 => b = a
<1> DEFINE floor == total \div Parallelism
           remainder == total % Parallelism
           edge == remainder * (floor + 1)
           mine(a) == p \in OwnedRange(total, a).low..OwnedRange(total, a).high - 1
<1>1. /\ floor \in Nat /\ remainder \in 0..Parallelism - 1 /\ Parallelism \in Nat
      /\ total = floor * Parallelism + remainder
  BY Shares, BuilderAssumption
<1>2. \A a \in Threads :
        /\ OwnedRange(total, a).low = a * floor + (IF a <= remainder THEN a ELSE remainder)
        /\ OwnedRange(total, a).high = a * floor + floor + (IF a < remainder THEN a + 1 ELSE remainder)
  BY RangeBounds
<1> HIDE DEF floor, remainder
<1>3. edge \in Nat /\ edge = remainder * floor + remainder
  BY <1>1
<1>4. \E a \in Threads : mine(a)
  <2>1. CASE p < edge
    <3>1. PICK d \in Nat \ {0} : d = floor + 1
      BY <1>1
    <3>2a. PICK q \in Nat, m \in 0..d - 1 : p = q * d + m
      <4>1. p \in Nat
        OBVIOUS
      <4> QED BY <4>1, DivisionWithRest
    <3>2b. p = q * (floor + 1) + m
      BY <3>1, <3>2a
    <3>2c. m \in 0..floor
      BY <1>1, <3>1
    <3>2. q < remainder
      <4> SUFFICES ASSUME q >= remainder PROVE FALSE
        BY <1>1, <3>2b, <3>2c
      <4>1. q * (floor + 1) = (floor + 1) * remainder + (floor + 1) * (q - remainder)
        BY <1>1, <3>2b, <3>2c
      <4>2. (floor + 1) * (q - remainder) >= 0 /\ (floor + 1) * remainder = edge
        BY <1>1, <3>2b, <3>2c
      <4>3. (floor + 1) * (q - remainder) \in Int /\ q * (floor + 1) \in Int
        BY <1>1, <3>2b, <3>2c
      <4> QED BY <1>3, <2>1, <3>2b, <3>2c, <4>1, <4>2, <4>3
    <3>3. q \in Threads
      BY <1>1, <3>2b, <3>2c, <3>2 DEF Threads
    <3>4. q * (floor + 1) = q * floor + q /\ q * floor \in Nat
      BY <1>1, <3>2b, <3>2c
    <3>5. OwnedRange(total, q).low = q * floor + q /\ OwnedRange(total, q).high = q * floor + floor + q + 1
      BY <1>1, <1>2, <3>2b, <3>2c, <3>2, <3>3, <3>4
    <3>6. mine(q)
      BY <1>1, <3>2b, <3>2c, <3>4, <3>5
    <3> QED BY <3>3, <3>6
  <2>2. CASE p >= edge
    <3> DEFINE rest == p - edge
               q == rest \div floor
               m == rest % floor
               a == remainder + q
    <3>1. (Parallelism - remainder) * floor = total - edge
      BY <1>1, <1>3
    <3>2. rest \in Nat /\ rest < (Parallelism - remainder) * floor
      BY <1>1, <1>3, <2>2, <3>1
    <3>3. floor > 0
      BY <1>1, <3>2
    <3>4. q \in Nat /\ m \in 0..floor - 1 /\ rest = q * floor + m
      BY <1>1, <3>2, <3>3, Division
    <3> HIDE DEF q, m, rest
    <3>5. q < Parallelism - remainder
      <4> SUFFICES ASSUME q >= Parallelism - remainder PROVE FALSE
        BY <1>1, <3>4
      <4>1. q * floor = floor * (Parallelism - remainder) + floor * (q - (Parallelism - remainder))
        BY <1>1, <3>4
      <4>2. floor * (q - (Parallelism - remainder)) >= 0
        BY <1>1, <3>4
      <4>3. floor * (Parallelism - remainder) = (Parallelism - remainder) * floor
        BY <1>1
      <4>4. /\ floor * (q - (Parallelism - remainder)) \in Int /\ q * floor \in Int
            /\ floor * (Parallelism - remainder) \in Int
        BY <1>1, <3>4
      <4> QED BY <3>2, <3>4, <4>1, <4>2, <4>3, <4>4
    <3>6. a \in Threads /\ a \in Nat /\ a >= remainder
      BY <1>1, <3>4, <3>5 DEF Threads
    <3>7. a * floor = remainder * floor + q * floor
      BY <1>1, <3>4
    <3>8. p = a * floor + remainder + m
      BY <1>1, <1>3, <3>4, <3>7 DEF rest
    <3>9. a * floor \in Nat
      BY <1>1, <3>6
    <3>10. OwnedRange(total, a).low = a * floor + remainder
      BY <1>1, <1>2, <3>6, <3>9
    <3>11. OwnedRange(total, a).high = a * floor + floor + remainder
      BY <1>1, <1>2, <3>6, <3>9
    <3>12. mine(a)
      BY <1>1, <3>4, <3>8, <3>9, <3>10, <3>11
    <3> QED BY <3>6, <3>12
  <2> QED BY <1>3, <2>1, <2>2
<1>5. ASSUME NEW a \in Threads, NEW b \in Threads, mine(a), mine(b) PROVE a = b
  <2>1. a \in Int /\ b \in Int
    BY <1>1 DEF Threads
  <2>2. /\ OwnedRange(total, a).low \in Int /\ OwnedRange(total, a).high \in Int
        /\ OwnedRange(total, b).low \in Int /\ OwnedRange(total, b).high \in Int
    <3>1. a * floor \in Int /\ b * floor \in Int
      BY <1>1, <2>1
    <3> QED BY <1>1, <1>2, <2>1, <3>1
  <2>3. a < b => OwnedRange(total, a).high <= OwnedRange(total, b).low
    BY RangesDisjoint
  <2>4. b < a => OwnedRange(total, b).high <= OwnedRange(total, a).low
    BY RangesDisjoint
  <2>5. p \in Int
    OBVIOUS
  <2> QED BY <1>5, <2>1, <2>2, <2>3, <2>4, <2>5
<1> QED BY <1>4, <1>5

\* No hash is merged and written by two threads.
THEOREM HashesHaveOneOwner ==
  ASSUME TablePartitions \in Nat, NEW t \in Threads, NEW u \in Threads, t # u
  PROVE  MergedHashes(t) \cap MergedHashes(u) = {}
<1>1. t \in Int /\ u \in Int
  BY BuilderAssumption DEF Threads
<1>2. Owned(t) \cap Owned(u) = {}
  <2>1. \A a \in Threads : OwnedRange(TablePartitions, a).low \in Int
                          /\ OwnedRange(TablePartitions, a).high \in Int
    <3> SUFFICES ASSUME NEW a \in Threads
                 PROVE  /\ OwnedRange(TablePartitions, a).low \in Int
                        /\ OwnedRange(TablePartitions, a).high \in Int
      OBVIOUS
    <3> DEFINE floor == TablePartitions \div Parallelism
               remainder == TablePartitions % Parallelism
    <3>1. a \in Nat /\ floor \in Nat /\ remainder \in Nat
      BY Shares, BuilderAssumption DEF Threads
    <3>2. a * floor \in Nat
      BY <3>1
    <3>3. /\ OwnedRange(TablePartitions, a).low = a * floor + (IF a <= remainder THEN a ELSE remainder)
          /\ OwnedRange(TablePartitions, a).high
               = a * floor + floor + (IF a < remainder THEN a + 1 ELSE remainder)
      BY RangeBounds
    <3> HIDE DEF floor, remainder
    <3> QED BY <3>1, <3>2, <3>3
  <2>2. t < u => OwnedRange(TablePartitions, t).high <= OwnedRange(TablePartitions, u).low
    BY RangesDisjoint
  <2>3. u < t => OwnedRange(TablePartitions, u).high <= OwnedRange(TablePartitions, t).low
    BY RangesDisjoint
  <2>4. Owned(t) = OwnedRange(TablePartitions, t).low..OwnedRange(TablePartitions, t).high - 1
    BY DEF Owned
  <2>5. Owned(u) = OwnedRange(TablePartitions, u).low..OwnedRange(TablePartitions, u).high - 1
    BY DEF Owned
  <2> HIDE DEF Owned
  <2> QED BY <1>1, <2>1, <2>2, <2>3, <2>4, <2>5
<1> QED BY <1>2 DEF MergedHashes
-----------------------------------------------------------------------------
\* The numbers of buckets, of partitions and of counters.
Powers == {2 ^ k : k \in 0..30}

\* None of them is 0.
LEMMA PowersArePositive == ASSUME NEW p \in Powers PROVE p \in Nat \ {0}
BY PowerType DEF Powers

\* There are at least as many partitions as threads, and a power of two of them.
LEMMA PartitionCount ==
  ASSUME Parallelism <= 2 ^ 16
  PROVE  TablePartitions \in Powers /\ TablePartitions >= Parallelism
<1> DEFINE P == {p \in {2 ^ k : k \in 0..16} : p >= Parallelism}
<1>1. P \subseteq Nat
  BY PowerType
<1>2. 2 ^ 16 \in P
  OBVIOUS
<1>3. Min(P) \in P
  BY <1>1, <1>2, MinIs
<1>4. PICK k \in 0..16 : Min(P) = 2 ^ k /\ 2 ^ k >= Parallelism
  BY <1>3
<1>5. k \in 0..30
  OBVIOUS
<1> QED BY <1>4, <1>5 DEF TablePartitions, Powers

\* A table for n elements has more buckets than that, and one for fewer has not more.
LEMMA CapacityFacts ==
  ASSUME NEW n \in Nat, n <= 2 ^ 29
  PROVE  /\ CapacityToBuckets(n) \in Powers /\ CapacityToBuckets(n) > n
         /\ \A m \in 0..n : CapacityToBuckets(m) <= CapacityToBuckets(n)
<1> DEFINE need(m) == (m * 8) \div 7
           P(m) == {p \in {2 ^ k : k \in 0..30} : p >= need(m)}
<1>1. 4 \in Powers /\ 8 \in Powers
  <2>1. 2 ^ (1 + 1) = 2 * 2 ^ 1 /\ 2 ^ (2 + 1) = 2 * 2 ^ 2 /\ 2 ^ (0 + 1) = 2 * 2 ^ 0
    BY PowerStep
  <2>2. 2 ^ 0 = 1 /\ 0 + 1 = 1 /\ 1 + 1 = 2 /\ 2 + 1 = 3
    OBVIOUS
  <2>3. 2 ^ 2 = 4 /\ 2 ^ 3 = 8 /\ 2 \in 0..30 /\ 3 \in 0..30
    BY <2>1, <2>2
  <2> QED BY <2>3 DEF Powers
<1>2. 2 ^ 29 \in Nat /\ 2 ^ 30 = 2 * 2 ^ 29 /\ 30 \in 0..30
  <2>1. 2 ^ (29 + 1) = 2 * 2 ^ 29 /\ 2 ^ 29 \in Nat
    BY PowerStep, PowerType
  <2> QED BY <2>1
<1>3. ASSUME NEW m \in 0..n
      PROVE  /\ m < 8 => CapacityToBuckets(m) = IF m < 4 THEN 4 ELSE 8
             /\ ~(m < 8) => CapacityToBuckets(m) = Min(P(m))
  BY DEF CapacityToBuckets
<1>4. CASE n < 8
  <2>1. CapacityToBuckets(n) = IF n < 4 THEN 4 ELSE 8
    <3> HIDE DEF P
    <3>1. n \in 0..n
      OBVIOUS
    <3> QED BY <1>3, <1>4, <3>1
  <2>2. ASSUME NEW m \in 0..n PROVE CapacityToBuckets(m) = IF m < 4 THEN 4 ELSE 8
    <3> HIDE DEF P
    <3>1. m < 8
      BY <1>4
    <3> QED BY <1>3, <3>1
  <2> QED BY <1>1, <1>4, <2>1, <2>2
<1>5. CASE n >= 8
  <2>1. CapacityToBuckets(n) = Min(P(n))
    BY <1>3, <1>5
  <2>2. need(n) \in Nat /\ need(n) > n /\ need(n) > 8 /\ need(n) <= 2 * n
    BY <1>5
  <2>3. \A m \in 0..n : need(m) \in Nat /\ need(m) <= need(n)
    OBVIOUS
  <2>4. \A m \in 0..n : P(m) \subseteq Nat
    BY PowerType
  <2>5. 2 ^ 30 \in P(n)
    BY <1>2, <2>2
  <2> HIDE DEF need
  <2>6. Min(P(n)) \in P(n)
    BY <2>4, <2>5, MinIs
  <2>7. Min(P(n)) \in Powers /\ Min(P(n)) \in Nat /\ Min(P(n)) >= need(n)
    BY <2>4, <2>6 DEF Powers
  <2>8. ASSUME NEW m \in 0..n, ~(m < 8) PROVE CapacityToBuckets(m) <= Min(P(n))
    <3>1. Min(P(n)) \in P(m)
      BY <2>2, <2>3, <2>6, <2>7
    <3>2. CapacityToBuckets(m) = Min(P(m))
      BY <1>3, <2>8
    <3> HIDE DEF P
    <3>3. \A y \in P(m) : Min(P(m)) <= y
      BY <2>4, <3>1, MinIs
    <3> QED BY <3>1, <3>2, <3>3
  <2>9. ASSUME NEW m \in 0..n, m < 8 PROVE CapacityToBuckets(m) <= Min(P(n))
    <3>1. CapacityToBuckets(m) = IF m < 4 THEN 4 ELSE 8
      BY <1>3, <2>9
    <3> HIDE DEF P
    <3> QED BY <2>2, <2>7, <3>1
  <2> HIDE DEF P
  <2> QED BY <2>1, <2>2, <2>7, <2>8, <2>9
<1> QED BY <1>4, <1>5

\* The first bits of a number, reversed: after n bits.
Reversing(number, bits) ==
  CHOOSE r : r = [n \in 0..bits |->
    IF n = 0 THEN 0 ELSE 2 * r[n - 1] + ((number \div 2 ^ (n - 1)) % 2)]

\* Each further bit is put after those before.
LEMMA ReversingIs ==
  ASSUME NEW number \in Nat, NEW bits \in Nat
  PROVE  /\ Reversed(number, bits) = Reversing(number, bits)[bits]
         /\ Reversing(number, bits)[0] = 0
         /\ \A n \in 0..bits - 1 :
              Reversing(number, bits)[n + 1] = 2 * Reversing(number, bits)[n] + ((number \div 2 ^ n) % 2)
<1> DEFINE bit(n) == (number \div 2 ^ (n - 1)) % 2
           Upto(f, n) == f = [x \in 0..n |-> IF x = 0 THEN 0 ELSE 2 * f[x - 1] + bit(x)]
           S == {n \in Nat : \E f : Upto(f, n)}
           r == Reversing(number, bits)
<1> HIDE DEF bit
<1>1. 0 \in S
  <2> DEFINE f == [x \in 0..0 |-> 0]
  <2>1. Upto(f, 0)
    OBVIOUS
  <2> QED BY <2>1
<1>2. ASSUME NEW n \in Nat, n \in S PROVE n + 1 \in S
  <2>1. PICK f : Upto(f, n)
    BY <1>2
  <2> DEFINE g == [x \in 0..n + 1 |-> IF x = n + 1 THEN 2 * f[n] + bit(n + 1) ELSE f[x]]
  <2>2. ASSUME NEW x \in 0..n + 1
        PROVE  g[x] = IF x = 0 THEN 0 ELSE 2 * g[x - 1] + bit(x)
    <3>1. CASE x = 0
      <4>1. g[0] = f[0] /\ f[0] = 0
        BY <2>1
      <4> QED BY <3>1, <4>1
    <3>2. CASE x \in 1..n
      <4>1. g[x] = f[x] /\ g[x - 1] = f[x - 1] /\ x # 0 /\ x \in 0..n
        BY <3>2
      <4> HIDE DEF g
      <4>2. f[x] = 2 * f[x - 1] + bit(x)
        BY <2>1, <4>1
      <4> QED BY <4>1, <4>2
    <3>3. CASE x = n + 1
      <4>1. g[x] = 2 * f[n] + bit(n + 1) /\ g[n] = f[n] /\ x - 1 = n /\ x # 0
        BY <3>3
      <4> HIDE DEF g
      <4> QED BY <3>3, <4>1
    <3> QED BY <3>1, <3>2, <3>3
  <2>3. g = [x \in 0..n + 1 |-> g[x]]
    OBVIOUS
  <2> HIDE DEF g
  <2>4. Upto(g, n + 1)
    BY <2>2, <2>3
  <2> QED BY <2>4
<1>3. Nat \subseteq S
  <2> HIDE DEF S
  <2> QED BY <1>1, <1>2, SetInduction
<1>4. \E f : Upto(f, bits)
  BY <1>3
<1>5. Upto(r, bits)
  BY <1>4 DEF Reversing, bit
<1>6. Reversed(number, bits) = r[bits]
  BY DEF Reversed, Reversing
<1> HIDE DEF r
<1>7. r[0] = 0
  BY <1>5
<1>8. ASSUME NEW n \in 0..bits - 1 PROVE r[n + 1] = 2 * r[n] + ((number \div 2 ^ n) % 2)
  <2>1. n + 1 \in 0..bits /\ n + 1 # 0 /\ (n + 1) - 1 = n
    OBVIOUS
  <2>2. r[n + 1] = 2 * r[n] + bit(n + 1)
    BY <1>5, <2>1
  <2> QED BY <2>1, <2>2 DEF bit
<1> QED BY <1>6, <1>7, <1>8 DEF r

\* The lowest bits of a number are each 0 or 1.
LEMMA BitRange ==
  ASSUME NEW number \in Nat, NEW n \in Nat
  PROVE  number \div 2 ^ n \in Nat /\ (number \div 2 ^ n) % 2 \in 0..1
<1>1. 2 ^ n \in Nat \ {0}
  BY PowerType
<1>2. number \div 2 ^ n \in Nat
  BY <1>1
<1> QED BY <1>2

\* They are as many bits.
LEMMA ReversedRange ==
  ASSUME NEW number \in Nat, NEW bits \in Nat
  PROVE  Reversed(number, bits) \in 0..2 ^ bits - 1
<1> DEFINE r == Reversing(number, bits)
           bit(n) == (number \div 2 ^ n) % 2
<1>1. Reversed(number, bits) = r[bits] /\ r[0] = 0 /\ \A n \in 0..bits - 1 : r[n + 1] = 2 * r[n] + bit(n)
  BY ReversingIs
<1>2. \A n \in Nat : bit(n) \in 0..1
  BY BitRange
<1> HIDE DEF r, bit
<1> DEFINE Small == {n \in Nat : n <= bits => r[n] \in 0..2 ^ n - 1}
<1>3. 0 \in Small
  <2>1. 2 ^ 0 = 1
    OBVIOUS
  <2> QED BY <1>1, <2>1
<1>4. ASSUME NEW n \in Nat, n \in Small PROVE n + 1 \in Small
  <2> SUFFICES ASSUME n + 1 <= bits PROVE r[n + 1] \in 0..2 ^ (n + 1) - 1
    OBVIOUS
  <2>1. r[n + 1] = 2 * r[n] + bit(n)
    <3>1. n \in 0..bits - 1
      OBVIOUS
    <3> QED BY <1>1, <3>1
  <2>2. r[n] \in 0..2 ^ n - 1 /\ 2 ^ n \in Nat /\ 2 ^ (n + 1) = 2 * 2 ^ n
    BY <1>4, PowerType, PowerStep
  <2>3. bit(n) \in 0..1
    BY <1>2
  <2> QED BY <2>1, <2>2, <2>3
<1>5. Nat \subseteq Small
  <2> HIDE DEF Small
  <2> QED BY <1>3, <1>4, SetInduction
<1> QED BY <1>1, <1>5

\* Every hash has a partition.
LEMMA PartitionRange ==
  ASSUME NEW hash \in Nat, NEW p \in Powers
  PROVE  PartitionOf(hash, p) \in 0..p - 1
<1>1. PICK k \in 0..30 : p = 2 ^ k
  BY DEF Powers
<1>2. \E j \in 0..64 : 2 ^ j = p
  <2>1. k \in 0..64
    OBVIOUS
  <2> QED BY <1>1, <2>1
<1>3. Log2(p) \in 0..64 /\ 2 ^ Log2(p) = p
  BY <1>2 DEF Log2
<1>4. hash % p \in Nat /\ Log2(p) \in Nat
  <2>1. p \in Nat \ {0} /\ hash \in Int
    BY PowersArePositive
  <2>2. hash % p \in 0..p - 1
    BY <2>1, Modulo
  <2> QED BY <1>3, <2>1, <2>2
<1>5. Reversed(hash % p, Log2(p)) \in 0..2 ^ Log2(p) - 1
  BY <1>4, ReversedRange
<1> QED BY <1>3, <1>5 DEF PartitionOf
-----------------------------------------------------------------------------
\* The powers of two that TablePartitions and CapacityToBuckets choose from end at 2^16 and 2^30:
\* there are no more threads, and what the local tables can hold together fits.
FewHashes ==
  /\ Parallelism <= 2 ^ 16
  /\ IsFiniteSet(Hashes) /\ Parallelism * Cardinality(Hashes) <= 2 ^ 29

\* The hashes of the local tables, and those merged so far.
Seen == UNION {DOMAIN local[t] : t \in Threads}
Merged == UNION {MergedHashes(t) : t \in {u \in Threads : pc[u] \in AfterMerge}}

\* The hashes counted by a counter, and how many counters there are.
Counted(c) == {hash \in Merged : CounterOf(hash) = c}
CounterCount == Max({TablePartitions, CapacityToBuckets(LocalEntries)})

\* The local tables hold the hashes of the rows.
RowsInv ==
  /\ DOMAIN local = Threads
  /\ \A t \in Threads : DOMAIN local[t] \subseteq Hashes
  /\ Seen = ToSet(rows)

\* The counters are allocated from complete local tables, before anybody comes to need them, and
\* count the hashes merged.
CountersThere ==
  \A t \in Threads : pc[t] \in {"copied", "merge"} \cup AfterMerge => counts # Unallocated
CountersRight ==
  counts # Unallocated => /\ ToSet(shared) = Threads
                          /\ DOMAIN counts = 0..CounterCount - 1
                          /\ \A c \in DOMAIN counts : counts[c] = Cardinality(Counted(c))

\* Where a thread may be once it has tried to claim the senders of the destination.
Claimed == {"merged", "destination"} \cup AfterAllocation

\* Who finds the senders claimed, or about to be, is right; the destination has no more buckets
\* than there are counters; and who has to give up has few hashes, or is alone.
DestinationInv ==
  /\ claimant \in Threads \cup {None}
  /\ \A t \in Threads : pc[t] \in Claimed => claimant \in Threads \/ SendersAreLocked
  /\ table # Unallocated => Buckets <= Cardinality(DOMAIN counts)
  /\ \A t \in Threads : /\ pc[t] = "panicked" => Cardinality(ToSet(rows)) < TablePartitions
                        /\ pc[t] = "refused" => ~(TablePartitions > 1)

CountsInv == RowsInv /\ CountersThere /\ CountersRight /\ DestinationInv

\* The threads are finitely many.
LEMMA ThreadsAre == IsFiniteSet(Threads) /\ Cardinality(Threads) = Parallelism /\ 0 \in Threads
<1>1. 0 \in Int /\ Parallelism - 1 \in Int /\ 0 <= Parallelism - 1
  BY BuilderAssumption
<1>2. IsFiniteSet(0..Parallelism - 1) /\ Cardinality(0..Parallelism - 1) = Parallelism - 1 - 0 + 1
  BY <1>1, FS_Interval
<1> QED BY <1>1, <1>2, BuilderAssumption DEF Threads

\* The local tables together have an entry for every hash, one for each thread that has it at most.
LEMMA LocalFacts ==
  ASSUME FewHashes, RowsInv
  PROVE  /\ IsFiniteSet(Seen) /\ Cardinality(Seen) \in Nat /\ LocalEntries \in Nat
         /\ Cardinality(Seen) <= LocalEntries /\ LocalEntries <= 2 ^ 29
<1> DEFINE sets == [t \in Threads |-> DOMAIN local[t]]
           part == [t \in Threads |-> Cardinality(DOMAIN local[t])]
           most == Cardinality(Hashes)
<1>1. most \in Nat
  BY FS_CardinalityType DEF FewHashes
<1>2. ASSUME NEW t \in Threads
      PROVE  IsFiniteSet(sets[t]) /\ part[t] = Cardinality(sets[t]) /\ part[t] <= most
  <2>1. DOMAIN local[t] \in SUBSET Hashes
    BY DEF RowsInv
  <2>2. IsFiniteSet(DOMAIN local[t]) /\ Cardinality(DOMAIN local[t]) <= most
    BY <2>1, FS_Subset DEF FewHashes
  <2> QED BY <2>2
<1> DEFINE step(f, s) == Cardinality(DOMAIN local[Picked(s)]) + f[s \ {Picked(s)}]
           LocalSum(f) == f = [s \in SUBSET Threads |-> IF s = {} THEN 0 ELSE step(f, s)]
           total == CHOOSE f : LocalSum(f)
<1>3. ASSUME NEW f PROVE SumsUp(f, part, Threads) <=> LocalSum(f)
  <2>1. ASSUME NEW s \in SUBSET Threads, s # {}
        PROVE  part[Picked(s)] + f[s \ {Picked(s)}] = step(f, s)
    <3>1. Picked(s) \in Threads
      BY <2>1 DEF Picked
    <3> QED BY <3>1
  <2> HIDE DEF part, step
  <2> QED BY <2>1 DEF SumsUp
<1>4. \E f : LocalSum(f)
  <2>1. \E f : SumsUp(f, part, Threads)
    BY ThreadsAre, SumExists
  <2> HIDE DEF LocalSum, part
  <2> QED BY <1>3, <2>1
<1>5. SumsUp(total, part, Threads)
  <2>1. LocalSum(total)
    BY <1>4
  <2> HIDE DEF LocalSum, part, total
  <2> QED BY <1>3, <2>1
<1>6. LocalEntries = total[Threads]
  BY DEF LocalEntries, MapThenSumSet, MapThenFoldSet, Picked
<1> HIDE DEF sets, part, most, total
<1>7. /\ IsFiniteSet(UNION {sets[t] : t \in Threads})
      /\ total[Threads] \in Nat /\ Cardinality(UNION {sets[t] : t \in Threads}) <= total[Threads]
      /\ total[Threads] <= Cardinality(Threads) * most
  BY <1>1, <1>2, <1>5, ThreadsAre, SumOfSizes
<1>8. UNION {sets[t] : t \in Threads} = Seen
  BY DEF sets, Seen
<1>9. Cardinality(Threads) * most <= 2 ^ 29
  BY ThreadsAre DEF FewHashes, most
<1>10. 2 ^ 29 \in Nat /\ Cardinality(Threads) * most \in Nat
  <2>1. 29 \in Nat
    OBVIOUS
  <2>2. 2 ^ 29 \in Nat
    BY <2>1, PowerType
  <2>3. Cardinality(Threads) \in Nat
    BY ThreadsAre, BuilderAssumption
  <2> QED BY <1>1, <2>2, <2>3
<1>11. Cardinality(Seen) \in Nat
  BY <1>7, <1>8, FS_CardinalityType
<1>12. total[Threads] <= 2 ^ 29
  BY <1>7, <1>9, <1>10
<1> QED BY <1>6, <1>7, <1>8, <1>11, <1>12

\* There are no fewer counters than partitions, and more than hashes.
LEMMA CounterFacts ==
  ASSUME FewHashes, RowsInv
  PROVE  /\ CounterCount \in Powers /\ CounterCount \in Nat \ {0}
         /\ CounterCount = TablePartitions \/ CounterCount = CapacityToBuckets(LocalEntries)
         /\ CounterCount >= TablePartitions /\ CounterCount >= CapacityToBuckets(LocalEntries)
         /\ IsFiniteSet(0..CounterCount - 1) /\ Cardinality(0..CounterCount - 1) = CounterCount
<1> DEFINE a == TablePartitions
           b == CapacityToBuckets(LocalEntries)
<1>1. a \in Powers /\ b \in Powers
  BY LocalFacts, CapacityFacts, PartitionCount DEF FewHashes
<1>2. a \in Nat \ {0} /\ b \in Nat \ {0}
  BY <1>1, PowersArePositive
<1>3. CounterCount = Max({a, b})
  BY DEF CounterCount
<1> HIDE DEF a, b
<1>4. \E x \in {a, b} : \A y \in {a, b} : x >= y
  BY <1>2
<1>5. Max({a, b}) \in {a, b} /\ \A y \in {a, b} : Max({a, b}) >= y
  BY <1>4 DEF Max
<1>6. /\ CounterCount \in Powers /\ CounterCount \in Nat \ {0}
      /\ CounterCount = a \/ CounterCount = b
      /\ CounterCount >= a /\ CounterCount >= b
  BY <1>1, <1>2, <1>3, <1>5
<1>7. 0 \in Int /\ CounterCount - 1 \in Int /\ ~(0 > CounterCount - 1)
  BY <1>6
<1>8. /\ IsFiniteSet(0..CounterCount - 1)
      /\ Cardinality(0..CounterCount - 1) = CounterCount - 1 - 0 + 1
  BY <1>7, FS_Interval
<1> QED BY <1>6, <1>8 DEF a, b
\* Nothing is counted initially.
LEMMA CountsInit == ConcurrentInit => CountsInv
<1> SUFFICES ASSUME ConcurrentInit PROVE CountsInv
  OBVIOUS
<1>1. RowsInv
  <2>1. DOMAIN local = Threads /\ \A t \in Threads : DOMAIN local[t] = {}
    BY DEF ConcurrentInit
  <2>2. ToSet(rows) = {}
    BY DEF ConcurrentInit, BuilderInit, ToSet
  <2> QED BY <2>1, <2>2 DEF RowsInv, Seen
<1>2. CountersThere /\ CountersRight
  BY FirstSteps DEF ConcurrentInit, BuilderInit, CountersThere, CountersRight, AfterMerge, PastMerge
<1>3. DestinationInv
  <2>1. FirstStep = "refused" => ~(TablePartitions > 1)
    BY DEF FirstStep
  <2> QED BY <2>1, FirstSteps DEF ConcurrentInit, BuilderInit, DestinationInv, Claimed, AfterAllocation
<1> QED BY <1>1, <1>2, <1>3 DEF CountsInv

\* A step that leaves the local tables alone leaves the number of counters alone.
LEMMA SameCounterCount ==
  ASSUME UNCHANGED local PROVE CounterCount' = CounterCount
<1>1. LocalEntries' = LocalEntries
  BY DEF LocalEntries, MapThenSumSet, MapThenFoldSet
<1> QED BY <1>1 DEF CounterCount, TablePartitions

\* A step that merges nothing leaves the hashes merged alone.
LEMMA SameMerged ==
  ASSUME UNCHANGED local, \A t \in Threads : pc'[t] \in AfterMerge <=> pc[t] \in AfterMerge
  PROVE  Merged' = Merged
<1>1. \A t \in Threads : MergedHashes(t)' = MergedHashes(t)
  BY DEF MergedHashes
<1> QED BY <1>1 DEF Merged
\* All have merged when all have come to the second barrier: the counters count every hash once.
LEMMA AllMerged ==
  ASSUME FewHashes, ControlInv, CountsInv, arrived[2] = Threads
  PROVE  /\ counts # Unallocated /\ Cardinality(DOMAIN counts) = CounterCount /\ Merged = Seen
         /\ MapThenSumSet(LAMBDA c : counts[c], DOMAIN counts) = Cardinality(ToSet(rows))
<1>1. \A t \in Threads : pc[t] \in AfterMerge
  BY DEF ControlInv, PhaseInv, AfterMerge, PastMerge, AfterAllocation
<1>2. counts # Unallocated
  BY <1>1, ThreadsAre DEF CountsInv, CountersThere
<1>3. /\ DOMAIN counts = 0..CounterCount - 1
      /\ \A c \in DOMAIN counts : counts[c] = Cardinality(Counted(c))
  BY <1>2 DEF CountsInv, CountersRight
<1>4. /\ CounterCount \in Powers /\ TablePartitions \in Powers /\ TablePartitions \in Nat \ {0}
      /\ IsFiniteSet(DOMAIN counts) /\ Cardinality(DOMAIN counts) = CounterCount
  BY <1>3, CounterFacts, PartitionCount, PowersArePositive DEF CountsInv, FewHashes
<1>5. \A hash \in Seen : hash \in Nat
  BY BuilderAssumption DEF CountsInv, RowsInv, Seen
<1>6. Merged = Seen
  <2>1. ASSUME NEW hash \in Seen PROVE \E t \in Threads : hash \in MergedHashes(t)
    <3>1. PartOf(hash) \in 0..TablePartitions - 1
      BY <1>4, <1>5, PartitionRange DEF PartOf
    <3>2. \E t \in Threads :
            PartOf(hash) \in OwnedRange(TablePartitions, t).low..OwnedRange(TablePartitions, t).high - 1
      BY <1>4, <3>1, EveryPartitionHasOneOwner
    <3>3. \E t \in Threads : PartOf(hash) \in Owned(t)
      BY <3>2 DEF Owned
    <3> QED BY <3>3 DEF MergedHashes, Seen
  <2>2. \A t \in Threads : MergedHashes(t) \subseteq Seen
    BY DEF MergedHashes, Seen
  <2> QED BY <1>1, <2>1, <2>2 DEF Merged
<1> DEFINE key == [hash \in Seen |-> CounterOf(hash)]
<1>7. \A hash \in Seen : key[hash] \in DOMAIN counts
  <2>1. ASSUME NEW hash \in Seen PROVE CounterOf(hash) \in 0..CounterCount - 1
    BY <1>4, <1>5, PartitionRange DEF CounterOf
  <2> QED BY <1>3, <2>1
<1>8. \A c \in DOMAIN counts : counts[c] = Cardinality({hash \in Seen : key[hash] = c})
  <2> SUFFICES ASSUME NEW c \in DOMAIN counts
               PROVE  counts[c] = Cardinality({hash \in Seen : key[hash] = c})
    OBVIOUS
  <2>1. Counted(c) = {hash \in Seen : key[hash] = c}
    BY <1>6 DEF Counted
  <2> QED BY <1>3, <2>1
<1> DEFINE total == CHOOSE f : SumsUp(f, counts, DOMAIN counts)
<1>9. /\ SumsUp(total, counts, DOMAIN counts)
      /\ MapThenSumSet(LAMBDA c : counts[c], DOMAIN counts) = total[DOMAIN counts]
  <2>1. SumsUp(total, counts, DOMAIN counts)
    BY <1>4, SumExists
  <2>2. MapThenSumSet(LAMBDA c : counts[c], DOMAIN counts) = total[DOMAIN counts]
    BY DEF MapThenSumSet, MapThenFoldSet, SumsUp, Picked
  <2> QED BY <2>1, <2>2
<1> HIDE DEF total
<1>10. IsFiniteSet(Seen) /\ Seen = ToSet(rows)
  BY LocalFacts DEF CountsInv, RowsInv
<1>11. CountedByKey(counts, DOMAIN counts, key, Seen)
  <2> HIDE DEF key
  <2> QED BY <1>7, <1>8 DEF CountedByKey
<1> HIDE DEF key
<1>12. total[DOMAIN counts] = Cardinality(Seen)
  BY <1>4, <1>9, <1>10, <1>11, SumOfParts
<1> QED BY <1>2, <1>4, <1>6, <1>9, <1>10, <1>12

\* Who is past the second barrier has allocated, or finds allocated, counters for all hashes.
LEMMA FewerThanCounters ==
  ASSUME FewHashes, RowsInv
  PROVE  /\ Cardinality(ToSet(rows)) \in Nat
         /\ Cardinality(ToSet(rows)) < CapacityToBuckets(LocalEntries)
         /\ CapacityToBuckets(Cardinality(ToSet(rows))) <= CounterCount
         /\ CapacityToBuckets(Cardinality(ToSet(rows))) \in Nat \ {0}
<1> DEFINE n == Cardinality(ToSet(rows))
<1>1. n \in Nat /\ LocalEntries \in Nat /\ n <= LocalEntries /\ LocalEntries <= 2 ^ 29
  BY LocalFacts DEF RowsInv
<1>2. 2 ^ 29 \in Nat
  <2>1. 29 \in Nat
    OBVIOUS
  <2> QED BY <2>1, PowerType
<1> HIDE DEF n
<1>3. n \in 0..LocalEntries /\ n <= 2 ^ 29
  BY <1>1, <1>2
<1>4. /\ CapacityToBuckets(LocalEntries) \in Powers /\ CapacityToBuckets(LocalEntries) > LocalEntries
      /\ CapacityToBuckets(n) <= CapacityToBuckets(LocalEntries)
  BY <1>1, <1>3, CapacityFacts
<1>5. CapacityToBuckets(n) \in Powers
  BY <1>1, <1>3, CapacityFacts
<1>6. /\ CapacityToBuckets(LocalEntries) \in Nat /\ CapacityToBuckets(n) \in Nat \ {0}
  BY <1>4, <1>5, PowersArePositive
<1>7. CounterCount \in Nat /\ CounterCount >= CapacityToBuckets(LocalEntries)
  BY CounterFacts
<1> QED BY <1>1, <1>4, <1>6, <1>7 DEF n
\* A step that neither allocates a batch or the counters nor merges.
Quiet ==
  /\ UNCHANGED <<rows, local, counts>>
  /\ \A t \in Threads : pc'[t] \in AfterMerge <=> pc[t] \in AfterMerge
  /\ \A t \in Threads : pc'[t] \in {"copied", "merge"} => counts # Unallocated
  /\ counts # Unallocated => ToSet(shared') = Threads
  /\ claimant' \in Threads \cup {None}
  /\ \A t \in Threads : pc'[t] \in Claimed => claimant' \in Threads \/ SendersAreLocked'
  /\ table' # Unallocated => Buckets' <= Cardinality(DOMAIN counts)
  /\ \A t \in Threads : /\ pc'[t] = "panicked" => Cardinality(ToSet(rows)) < TablePartitions
                        /\ pc'[t] = "refused" => ~(TablePartitions > 1)

\* It keeps what the counts are.
LEMMA QuietKeeps == ASSUME CountsInv, Quiet PROVE CountsInv'
<1>1. UNCHANGED <<rows, local, counts>>
  BY DEF Quiet
<1>2. RowsInv'
  BY <1>1 DEF CountsInv, RowsInv, Seen
<1>3. CountersThere'
  BY <1>1 DEF CountsInv, CountersThere, Quiet
<1>4. CounterCount' = CounterCount /\ Merged' = Merged
  BY <1>1, SameCounterCount, SameMerged DEF Quiet
<1>5. \A c : Counted(c)' = Counted(c)
  BY <1>1, <1>4 DEF Counted, CounterOf
<1>6. CountersRight'
  BY <1>1, <1>4, <1>5 DEF CountsInv, CountersRight, Quiet
<1>7. DestinationInv'
  BY <1>1 DEF DestinationInv, Quiet
<1> QED BY <1>2, <1>3, <1>6, <1>7 DEF CountsInv

\* Once all threads have arrived at the second barrier, nobody is claiming, and one has.
LEMMA OneHasClaimed ==
  ASSUME ControlInv, CountsInv, arrived[2] = Threads PROVE claimant \in Threads
<1>1. \A u \in Threads : pc[u] \in {"destination"} \cup AfterAllocation
  BY DEF ControlInv, PhaseInv
<1>2. ~SendersAreLocked
  BY <1>1 DEF SendersAreLocked, AfterAllocation
<1>3. 0 \in Threads
  BY BuilderAssumption DEF Threads
<1> QED BY <1>1, <1>2, <1>3 DEF CountsInv, DestinationInv, Claimed

\* Every action but three is such a step.
LEMMA QuietSteps ==
  ASSUME FewHashes, ControlInv, CountsInv, NEW t \in Threads, ConcurrentStep(t),
         ~AllocateBatch(t), ~AllocateCounts(t), ~Merge(t)
  PROVE  Quiet
<1> USE DEF CountsInv, CountersThere, DestinationInv, ControlInv, ControlTypeOK
<1>0. /\ pc \in [Threads -> Steps]
      /\ \A u \in Threads : pc[u] \in {"copied", "merge"} \cup AfterMerge => counts # Unallocated
      /\ counts # Unallocated => ToSet(shared) = Threads
      /\ claimant \in Threads \cup {None}
      /\ \A u \in Threads : pc[u] \in Claimed => claimant \in Threads \/ SendersAreLocked
      /\ table # Unallocated => Buckets <= Cardinality(DOMAIN counts)
      /\ \A u \in Threads : /\ pc[u] = "panicked" => Cardinality(ToSet(rows)) < TablePartitions
                            /\ pc[u] = "refused" => ~(TablePartitions > 1)
  BY DEF CountersRight
<1> USE DEF Quiet, GoTo, AfterMerge, PastMerge, AfterAllocation, Claimed, SendersAreLocked, Buckets
<1>1. CASE LockTracker(t)
  BY <1>0, <1>1 DEF LockTracker
<1>2. CASE SendTables(t)
  <2>1. counts = Unallocated
    BY <1>0, <1>2 DEF SendTables, PhaseInv, Accumulating
  <2> QED BY <1>0, <1>2, <2>1 DEF SendTables
<1>3. CASE CollectTables(t)
  BY <1>0, <1>3 DEF CollectTables, partitionedVars
<1>4. CASE AllocateOverflow(t)
  <2>1. tracker = None
    BY <1>4 DEF AllocateOverflow, TrackerInv, PhaseInv, Accumulating
  <2> QED BY <1>0, <1>4, <2>1 DEF AllocateOverflow, partitionedVars
<1>5. CASE ReceiveOverflow(t)
  BY <1>0, <1>5 DEF ReceiveOverflow, partitionedVars
<1>6. CASE CopyOverflow(t)
  BY <1>0, <1>6 DEF CopyOverflow, partitionedVars
<1>7. CASE ReceiveCounts(t)
  BY <1>0, <1>7 DEF ReceiveCounts, partitionedVars
<1>8. CASE ArriveCopied(t)
  BY <1>0, <1>8 DEF ArriveCopied, Arrive
<1>9. CASE LockSenders(t) \/ MissSenders(t) \/ TakeSenders(t)
  <2>1. CASE LockSenders(t)
    BY <1>0, <2>1 DEF LockSenders, partitionedVars
  <2>2. CASE MissSenders(t)
    BY <1>0, <2>2 DEF MissSenders, partitionedVars
  <2>3. CASE TakeSenders(t)
    <3>1. claimant' \in Threads
      BY <1>0, <2>3 DEF TakeSenders
    <3> QED BY <1>0, <2>3, <3>1 DEF TakeSenders
  <2> QED BY <1>9, <2>1, <2>2, <2>3
<1>10. CASE ArriveMerged(t)
  BY <1>0, <1>10 DEF ArriveMerged, Arrive
<1>11. CASE AllocateDestination(t)
  <2> DEFINE total == MapThenSumSet(LAMBDA c : counts[c], DOMAIN counts)
  <2>1. arrived[2] = Threads
    BY <1>11, PassedMeansAll DEF AllocateDestination
  <2>2. Cardinality(DOMAIN counts) = CounterCount /\ total = Cardinality(ToSet(rows))
    BY <2>1, AllMerged
  <2>3. pc[t] = "destination" /\ UNCHANGED <<rows, local, shared, claimant, counts>>
    BY <1>11 DEF AllocateDestination
  <2>4. \/ /\ total > 0 /\ CapacityToBuckets(total) <= Cardinality(DOMAIN counts)
           /\ table' = [i \in 0..CapacityToBuckets(total) - 1 |-> None]
           /\ pc' = [pc EXCEPT ![t] = "plan"]
        \/ /\ total = 0 \/ CapacityToBuckets(total) > Cardinality(DOMAIN counts)
           /\ pc' = [pc EXCEPT ![t] = "panicked"]
           /\ table' = table
    BY <1>11 DEF AllocateDestination
  <2> HIDE DEF total
  <2>5. /\ total \in Nat /\ CapacityToBuckets(total) <= CounterCount
        /\ CapacityToBuckets(total) \in Nat \ {0} /\ CounterCount \in Nat
    BY <2>2, FewerThanCounters, CounterFacts
  <2>6. CASE /\ table' = [i \in 0..CapacityToBuckets(total) - 1 |-> None]
             /\ pc' = [pc EXCEPT ![t] = "plan"]
    <3>1. Cardinality(DOMAIN table') = CapacityToBuckets(total)
      <4> DEFINE b == CapacityToBuckets(total)
      <4> HIDE DEF b
      <4>1. 0 \in Int /\ b - 1 \in Int /\ ~(0 > b - 1)
        BY <2>5 DEF b
      <4>2. Cardinality(0..b - 1) = b - 1 - 0 + 1
        BY <4>1, FS_Interval
      <4> QED BY <2>5, <2>6, <4>2 DEF b
    <3> QED BY <1>0, <2>2, <2>3, <2>5, <2>6, <3>1
  <2>7. CASE total = 0 /\ pc' = [pc EXCEPT ![t] = "panicked"] /\ table' = table
    <3>1. TablePartitions \in Nat \ {0}
      BY PartitionCount, PowersArePositive DEF FewHashes
    <3> QED BY <1>0, <2>2, <2>3, <2>7, <3>1
  <2> QED BY <2>2, <2>4, <2>5, <2>6, <2>7
<1>12. CASE ReceiveDestination(t)
  <2>1. pc[t] = "destination" /\ claimant \in Threads
    BY <1>12, PassedMeansAll, OneHasClaimed DEF ReceiveDestination
  <2> QED BY <1>0, <1>12, <2>1 DEF ReceiveDestination, partitionedVars
<1>13. CASE PlanWrites(t)
  BY <1>0, <1>13 DEF PlanWrites
<1>14. CASE PanicFewCounters(t)
  <2>1. Cardinality(ToSet(rows)) < TablePartitions
    <3>1. counts # Unallocated
      BY <1>0, <1>14 DEF PanicFewCounters
    <3>2. Cardinality(DOMAIN counts) = CounterCount
      BY <3>1, CounterFacts DEF CountersRight
    <3>3. CounterCount <= TablePartitions
      BY <1>14, <3>2 DEF PanicFewCounters, FewCounters
    <3>4. TablePartitions \in Nat /\ CapacityToBuckets(LocalEntries) \in Nat
      <4>1. CapacityToBuckets(LocalEntries) \in Powers /\ TablePartitions \in Powers
        BY LocalFacts, CapacityFacts, PartitionCount DEF FewHashes
      <4> QED BY <4>1, PowersArePositive
    <3> QED BY <3>3, <3>4, FewerThanCounters, CounterFacts
  <2> QED BY <1>0, <1>14, <2>1 DEF PanicFewCounters, partitionedVars
<1>15. CASE WriteCell(t)
  <2>1. DOMAIN table' = DOMAIN table /\ UNCHANGED <<pc, rows, local, shared, claimant, counts>>
    BY <1>15 DEF WriteCell
  <2>2. table' # Unallocated => table # Unallocated
    BY <1>15 DEF WriteCell, Unallocated
  <2> QED BY <1>0, <2>1, <2>2
<1>16. CASE Return(t)
  BY <1>0, <1>16 DEF Return, partitionedVars
<1> QED BY <1>1, <1>2, <1>3, <1>4, <1>5, <1>6, <1>7, <1>8, <1>9, <1>10, <1>11, <1>12, <1>13, <1>14, <1>15, <1>16 DEF ConcurrentStep
\* The set of two sequences, one after the other.
LEMMA ConcatToSet ==
  ASSUME NEW S, NEW r \in Seq(S), NEW s \in Seq(S) PROVE ToSet(r \o s) = ToSet(r) \cup ToSet(s)
<1>1. /\ DOMAIN r = 1..Len(r) /\ DOMAIN s = 1..Len(s) /\ Len(r) \in Nat /\ Len(s) \in Nat
      /\ DOMAIN (r \o s) = 1..Len(r) + Len(s)
      /\ \A i \in 1..Len(r) + Len(s) : (r \o s)[i] = IF i <= Len(r) THEN r[i] ELSE s[i - Len(r)]
  OBVIOUS
<1>2. ASSUME NEW i \in DOMAIN (r \o s) PROVE (r \o s)[i] \in ToSet(r) \cup ToSet(s)
  <2>1. CASE i <= Len(r)
    BY <1>1, <2>1 DEF ToSet
  <2>2. CASE ~(i <= Len(r))
    <3>1. i - Len(r) \in DOMAIN s
      BY <1>1, <2>2
    <3> QED BY <1>1, <2>2, <3>1 DEF ToSet
  <2> QED BY <2>1, <2>2
<1>3. ASSUME NEW i \in DOMAIN r PROVE r[i] \in ToSet(r \o s)
  <2>1. i \in DOMAIN (r \o s) /\ (r \o s)[i] = r[i]
    BY <1>1
  <2> QED BY <2>1 DEF ToSet
<1>4. ASSUME NEW i \in DOMAIN s PROVE s[i] \in ToSet(r \o s)
  <2>1. i + Len(r) \in DOMAIN (r \o s) /\ (r \o s)[i + Len(r)] = s[i]
    BY <1>1
  <2> QED BY <2>1 DEF ToSet
<1> QED BY <1>2, <1>3, <1>4 DEF ToSet

\* A batch is accumulated before there are counters.
LEMMA BatchKeepsCounts ==
  ASSUME ControlInv, CountsInv, NEW t \in Threads, AllocateBatch(t)
  PROVE  CountsInv'
<1> DEFINE batch == Head(waiting[t])
<1>1. /\ pc[t] = "allocate" /\ pc' = [pc EXCEPT ![t] = "accumulate"]
      /\ rows' = rows \o batch
      /\ local' = [local EXCEPT ![t] = AccumulatedEntries(@, Offset, batch)]
      /\ UNCHANGED <<shared, claimant, counts, table>>
  BY DEF AllocateBatch, GoTo
<1>2. batch \in Seq(Hashes) /\ rows \in Seq(Hashes)
  <2>1. waiting[t] \in Seq(Seq(Hashes)) /\ waiting[t] # <<>>
    BY <1>1 DEF ControlInv, ControlTypeOK, TrackerInv
  <2> QED BY <2>1 DEF ControlInv, ControlTypeOK
<1> HIDE DEF batch
<1>3. ToSet(rows') = ToSet(rows) \cup ToSet(batch)
  BY <1>1, <1>2, ConcatToSet
<1>4. ToSet(batch) \subseteq Hashes
  BY <1>2 DEF ToSet
<1>5. /\ DOMAIN local' = Threads
      /\ \A u \in Threads : DOMAIN local'[u] = IF u = t THEN DOMAIN local[t] \cup ToSet(batch)
                                               ELSE DOMAIN local[u]
  <2>1. DOMAIN local = Threads
    BY DEF CountsInv, RowsInv
  <2>2. DOMAIN AccumulatedEntries(local[t], Offset, batch) = DOMAIN local[t] \cup ToSet(batch)
    BY DEF AccumulatedEntries
  <2> QED BY <1>1, <2>1, <2>2
<1>6. RowsInv'
  BY <1>3, <1>4, <1>5 DEF CountsInv, RowsInv, Seen
<1>7. ToSet(shared) # Threads
  BY <1>1 DEF ControlInv, PhaseInv, Accumulating
<1>8. counts = Unallocated
  BY <1>7 DEF CountsInv, CountersRight
<1>9. \A u \in Threads : pc[u] \in Accumulating \cup {"collect"}
  BY <1>7 DEF ControlInv, PhaseInv
<1>10. \A u \in Threads : pc'[u] \in Accumulating \cup {"collect"}
  BY <1>1, <1>9 DEF ControlInv, ControlTypeOK, Accumulating
<1>11. table = Unallocated
  BY <1>1 DEF ControlInv, PhaseInv, AfterAllocation
<1>12. CountersThere' /\ CountersRight'
  BY <1>1, <1>8, <1>10 DEF CountersThere, CountersRight, Accumulating, AfterMerge, PastMerge, Unallocated
<1>13. DestinationInv'
  <2>1. \A u \in Threads : pc'[u] \notin Claimed \cup {"panicked"}
    BY <1>10 DEF Claimed, Accumulating, AfterAllocation
  <2>2. \A u \in Threads : pc'[u] = "refused" => pc[u] = "refused"
    BY <1>1 DEF ControlInv, ControlTypeOK
  <2> QED BY <1>1, <1>11, <2>1, <2>2 DEF CountsInv, DestinationInv
<1> QED BY <1>6, <1>12, <1>13 DEF CountsInv

\* The counters are allocated before anything is counted.
LEMMA AllocateKeepsCounts ==
  ASSUME FewHashes, ControlInv, CountsInv, NEW t \in Threads, AllocateCounts(t)
  PROVE  CountsInv'
<1>1. /\ pc[t] = "counts" /\ counts = Unallocated /\ pc' = [pc EXCEPT ![t] = "copied"]
      /\ counts' = ZeroBuffer(CounterCount)
      /\ UNCHANGED <<rows, local, shared, claimant, table>>
  BY DEF AllocateCounts, GoTo, CounterCount
<1>2. RowsInv'
  BY <1>1 DEF CountsInv, RowsInv, Seen
<1>3. \A u \in Threads : pc[u] \notin {"copied", "merge"} \cup AfterMerge
  BY <1>1 DEF CountsInv, CountersThere
<1>4. pc \in [Threads -> Steps]
  BY DEF ControlInv, ControlTypeOK
<1>5. \A u \in Threads : pc'[u] \notin AfterMerge
  BY <1>1, <1>3, <1>4 DEF AfterMerge, PastMerge
<1>6. Merged' = {}
  BY <1>5 DEF Merged
<1>7. CounterCount' = CounterCount /\ CounterCount \in Nat \ {0}
  BY <1>1, SameCounterCount, CounterFacts DEF CountsInv
<1>8. DOMAIN counts' = 0..CounterCount - 1 /\ \A c \in DOMAIN counts' : counts'[c] = 0
  BY <1>1 DEF ZeroBuffer
<1>9. counts' # Unallocated
  <2>1. 0 \in DOMAIN counts'
    BY <1>7, <1>8
  <2> QED BY <2>1 DEF Unallocated
<1>10. CountersThere'
  BY <1>9 DEF CountersThere
<1>11. CountersRight'
  <2>1. ToSet(shared') = Threads
    BY <1>1 DEF ControlInv, PhaseInv, Accumulating
  <2>2. \A c : Counted(c)' = {}
    BY <1>6 DEF Counted
  <2>3. Cardinality({}) = 0
    BY FS_EmptySet
  <2> QED BY <1>7, <1>8, <2>1, <2>2, <2>3 DEF CountersRight
<1>12. table = Unallocated
  <2>1. t \notin arrived[2]
    BY <1>1 DEF ControlInv, PhaseInv, AfterAllocation
  <2> QED BY <2>1 DEF ControlInv, PhaseInv
<1>13. DestinationInv'
  BY <1>1, <1>4, <1>5, <1>12
  DEF CountsInv, DestinationInv, Claimed, SendersAreLocked, AfterMerge, PastMerge, AfterAllocation
<1> QED BY <1>2, <1>10, <1>11, <1>13 DEF CountsInv

\* Who merges adds its hashes, which nobody has merged before, to the counts.
LEMMA MergeKeepsCounts ==
  ASSUME FewHashes, ControlInv, CountsInv, NEW t \in Threads, Merge(t)
  PROVE  CountsInv'
<1>1. /\ pc[t] = "merge" /\ pc' = [pc EXCEPT ![t] = "claim"]
      /\ counts' = [c \in DOMAIN counts |->
           counts[c] + Cardinality({hash \in MergedHashes(t) : CounterOf(hash) = c})]
      /\ UNCHANGED <<rows, local, shared, claimant, table>>
  BY DEF Merge, GoTo
<1>2. RowsInv'
  BY <1>1 DEF CountsInv, RowsInv, Seen
<1>3. pc \in [Threads -> Steps]
  BY DEF ControlInv, ControlTypeOK
<1>4. counts # Unallocated
  BY <1>1 DEF CountsInv, CountersThere
<1>5. DOMAIN counts' = DOMAIN counts /\ counts' # Unallocated
  BY <1>1, <1>4 DEF Unallocated
<1>6. /\ CounterCount' = CounterCount /\ ToSet(shared) = Threads
      /\ DOMAIN counts = 0..CounterCount - 1
      /\ \A c \in DOMAIN counts : counts[c] = Cardinality(Counted(c))
  BY <1>1, <1>4, SameCounterCount DEF CountsInv, CountersRight
<1>7. \A u \in Threads : MergedHashes(u)' = MergedHashes(u)
  BY <1>1 DEF MergedHashes
<1>8. \A u \in Threads : pc'[u] \in AfterMerge <=> pc[u] \in AfterMerge \/ u = t
  BY <1>1, <1>3 DEF AfterMerge, PastMerge
<1>9. Merged' = Merged \cup MergedHashes(t)
  BY <1>7, <1>8 DEF Merged
<1>10. Merged \cap MergedHashes(t) = {}
  <2>1. TablePartitions \in Nat
    BY PartitionCount, PowersArePositive DEF FewHashes
  <2>2. ASSUME NEW u \in Threads, pc[u] \in AfterMerge PROVE MergedHashes(u) \cap MergedHashes(t) = {}
    <3>1. u # t
      BY <1>1, <2>2 DEF AfterMerge, PastMerge
    <3> QED BY <2>1, <3>1, HashesHaveOneOwner
  <2> QED BY <2>2 DEF Merged
<1>11. ASSUME NEW c \in DOMAIN counts PROVE counts'[c] = Cardinality(Counted(c)')
  <2> DEFINE new == {hash \in MergedHashes(t) : CounterOf(hash) = c}
             old == Counted(c)
  <2>1. Counted(c)' = old \cup new /\ old \cap new = {}
    BY <1>5, <1>9, <1>10 DEF Counted, CounterOf
  <2>2. Merged \subseteq Seen /\ MergedHashes(t) \subseteq Seen /\ IsFiniteSet(Seen)
    <3>1. \A u \in Threads : MergedHashes(u) \subseteq Seen
      BY DEF MergedHashes, Seen
    <3>2. IsFiniteSet(Seen)
      BY LocalFacts DEF CountsInv
    <3> QED BY <3>1, <3>2 DEF Merged
  <2>3. old \in SUBSET Seen /\ new \in SUBSET Seen
    BY <2>2 DEF Counted
  <2>4. counts'[c] = Cardinality(old) + Cardinality(new)
    BY <1>1, <1>6
  <2> HIDE DEF old, new
  <2>5. IsFiniteSet(old) /\ IsFiniteSet(new)
    BY <2>2, <2>3, FS_Subset
  <2>6. Cardinality(old \cup new) = Cardinality(old) + Cardinality(new) - Cardinality(old \cap new)
    BY <2>5, FS_Union
  <2>7. Cardinality(old \cap new) = 0 /\ Cardinality(old) \in Nat /\ Cardinality(new) \in Nat
    BY <2>1, <2>5, FS_EmptySet, FS_CardinalityType
  <2> QED BY <2>1, <2>4, <2>6, <2>7
<1>12. CountersRight'
  BY <1>1, <1>5, <1>6, <1>11 DEF CountersRight
<1>13. CountersThere'
  BY <1>5 DEF CountersThere
<1>14. DestinationInv'
  BY <1>1, <1>3, <1>5 DEF CountsInv, DestinationInv, Claimed, SendersAreLocked, Buckets, AfterAllocation
<1> QED BY <1>2, <1>12, <1>13, <1>14 DEF CountsInv

\* From complete local tables to the destination: the counters stay right.
THEOREM CountsInvariant == ASSUME FewHashes PROVE ConcurrentSpec => []CountsInv
<1>1. ConcurrentInit => CountsInv
  BY CountsInit
<1>2. ControlInv /\ CountsInv /\ [ConcurrentNext]_concurrentVars => CountsInv'
  <2> SUFFICES ASSUME ControlInv, CountsInv, [ConcurrentNext]_concurrentVars PROVE CountsInv'
    OBVIOUS
  <2>1. CASE UNCHANGED concurrentVars
    <3>1. Quiet
      BY <2>1 DEF concurrentVars, builderVars, partitionedVars, Quiet, CountsInv, CountersThere,
                  CountersRight, DestinationInv, Claimed, SendersAreLocked, Buckets
    <3> QED BY <3>1, QuietKeeps
  <2>2. ASSUME NEW t \in Threads, ConcurrentStep(t) PROVE CountsInv'
    <3>1. CASE AllocateBatch(t)
      BY <3>1, BatchKeepsCounts
    <3>2. CASE AllocateCounts(t)
      BY <3>2, AllocateKeepsCounts
    <3>3. CASE Merge(t)
      BY <3>3, MergeKeepsCounts
    <3>4. CASE ~AllocateBatch(t) /\ ~AllocateCounts(t) /\ ~Merge(t)
      BY <2>2, <3>4, QuietSteps, QuietKeeps
    <3> QED BY <3>1, <3>2, <3>3, <3>4
  <2> QED BY <2>1, <2>2 DEF ConcurrentNext
<1> QED BY <1>1, <1>2, ControlInvariant, PTL DEF ConcurrentSpec

\* The destination is allocated from counts that count every hash of all threads once, and has no
\* more buckets than there are counters.
THEOREM CompleteCounts == ASSUME FewHashes PROVE ConcurrentSpec => []CountsAreComplete
<1>1. ControlInv /\ CountsInv => CountsAreComplete
  <2> SUFFICES ASSUME ControlInv, CountsInv, table # Unallocated
               PROVE  /\ MapThenSumSet(LAMBDA c : counts[c], DOMAIN counts) = Cardinality(ToSet(rows))
                      /\ Buckets <= Cardinality(DOMAIN counts)
    BY DEF CountsAreComplete
  <2>1. arrived[2] = Threads
    BY DEF ControlInv, PhaseInv
  <2>2. MapThenSumSet(LAMBDA c : counts[c], DOMAIN counts) = Cardinality(ToSet(rows))
    BY <2>1, AllMerged
  <2> QED BY <2>2 DEF CountsInv, DestinationInv
<1> QED BY <1>1, ControlInvariant, CountsInvariant, PTL

\* No call of run panics, neither in LocalTablePartitioner::new nor at the tracker, the destination
\* or the counters, unless the builder is for one thread only or all threads together have fewer
\* hashes than there are partitions.
THEOREM PanicMeansFewHashes == ASSUME FewHashes PROVE ConcurrentSpec => []PanicsOnFewHashes
<1>1. TablePartitions > 1 \/ Parallelism = 1
  <2>1. TablePartitions \in Nat /\ TablePartitions >= Parallelism
    BY PartitionCount, PowersArePositive DEF FewHashes
  <2> QED BY <2>1, BuilderAssumption
<1>2. CountsInv => PanicsOnFewHashes
  BY <1>1 DEF CountsInv, DestinationInv, PanicsOnFewHashes, Panicked
<1> QED BY <1>2, CountsInvariant, PTL
-----------------------------------------------------------------------------
(* Chains of rows *)

\* A chain f of the overflow buffer has at[n] for its n-th element.
Follows(f, head) ==
  f = [n \in 0..Len(rows) |-> IF n = 0 THEN head ELSE overflow[f[n - 1]]]

LEMMA FollowedIs ==
  ASSUME NEW head, NEW f, Len(rows) \in Nat, Follows(f, head)
  PROVE  Followed(head) = f
<1> DEFINE g == Followed(head)
<1>1. g = CHOOSE at : Follows(at, head)
  BY DEF Followed, Follows
<1>2. Follows(g, head)
  BY <1>1
<1> HIDE DEF g
<1>3. /\ DOMAIN f = 0..Len(rows) /\ f[0] = head
      /\ \A n \in 1..Len(rows) : f[n] = overflow[f[n - 1]]
      /\ f = [n \in 0..Len(rows) |-> f[n]]
  BY DEF Follows
<1>4. /\ DOMAIN g = 0..Len(rows) /\ g[0] = head
      /\ \A n \in 1..Len(rows) : g[n] = overflow[g[n - 1]]
      /\ g = [n \in 0..Len(rows) |-> g[n]]
  BY <1>2 DEF Follows
<1>5. ASSUME NEW n \in 0..Len(rows), g[n] # f[n] PROVE FALSE
  <2> DEFINE S == {m \in 0..Len(rows) : g[m] # f[m]}
  <2>1. S \subseteq Nat /\ S # {}
    BY <1>5
  <2>2. PICK m \in S : \A k \in S : m <= k
    BY <2>1, LeastElement
  <2>3. m \in 1..Len(rows)
    BY <1>3, <1>4, <2>2
  <2>4. m - 1 \in 0..Len(rows) /\ ~(m <= m - 1)
    BY <2>3
  <2>5. g[m - 1] = f[m - 1]
    BY <2>2, <2>4
  <2> QED BY <1>3, <1>4, <2>2, <2>3, <2>5
<1>6. \A n \in 0..Len(rows) : g[n] = f[n]
  BY <1>5
<1>7. g = f
  BY <1>3, <1>4, <1>6
<1> QED BY <1>7 DEF g

\* c[0], c[1], ... up to the first 0, c[n], come after each other in the overflow
\* buffer, starting from head, and are the elements of set, each once.
Strung(n, c, head, set) ==
  /\ c[0] = head /\ c[n] = 0
  /\ \A k \in 0..n - 1 : c[k] \in set /\ c[k + 1] = overflow[c[k]]
  /\ \A i \in set : \E k \in 0..n - 1 : c[k] = i
  /\ \A j, k \in 0..n - 1 : c[j] = c[k] => j = k

\* Such a chain has been followed to its end after as many steps as there are rows.
LEMMA ChainYields ==
  ASSUME rows \in Seq(Hashes), overflow[0] = 0, NEW set \in SUBSET (1..Len(rows)),
         NEW n \in Nat, NEW c, NEW head, Strung(n, c, head, set)
  PROVE  ChainOf(head) = {i - 1 : i \in set}
<1>1. /\ rows \in Seq(Hashes) /\ Len(rows) \in Nat /\ DOMAIN rows = 1..Len(rows)
      /\ overflow[0] = 0
  OBVIOUS
<1>8. /\ c[0] = head /\ c[n] = 0
      /\ \A k \in 0..n - 1 : c[k] \in set /\ c[k] \in 1..Len(rows) /\ c[k + 1] = overflow[c[k]]
      /\ \A i \in set : \E k \in 0..n - 1 : c[k] = i
      /\ \A j, k \in 0..n - 1 : c[j] = c[k] => j = k
  BY DEF Strung
<1>9. n <= Len(rows)
  <2> DEFINE f == [k \in 0..n - 1 |-> c[k]]
  <2>1. f \in [0..n - 1 -> 1..Len(rows)] /\ \A j, k \in 0..n - 1 : f[j] = f[k] => j = k
    BY <1>8
  <2>2. f \in Injection(0..n - 1, 1..Len(rows))
    BY <2>1 DEF Injection, IsInjective
  <2>3. IsFiniteSet(1..Len(rows)) /\ Cardinality(1..Len(rows)) = Len(rows)
    BY <1>1, IntervalSize
  <2>4. Cardinality(0..n - 1) = n
    BY FS_Interval
  <2> HIDE DEF f
  <2>5. Cardinality(0..n - 1) <= Cardinality(1..Len(rows))
    BY <2>2, <2>3, FS_Injection
  <2> QED BY <2>3, <2>4, <2>5
<1> DEFINE f == [k \in 0..Len(rows) |-> IF k < n THEN c[k] ELSE 0]
<1>10. f[0] = head
  BY <1>1, <1>8
<1>11. ASSUME NEW k \in 1..Len(rows) PROVE f[k] = overflow[f[k - 1]]
  <2>0. k - 1 \in 0..Len(rows) /\ k \in 0..Len(rows)
    BY <1>1
  <2>1. CASE k <= n
    <3>1. k - 1 \in 0..n - 1 /\ (k - 1) + 1 = k /\ k - 1 < n
      BY <2>1
    <3>2. c[k] = overflow[c[k - 1]]
      BY <1>8, <3>1
    <3>3. f[k - 1] = c[k - 1]
      BY <2>0, <3>1
    <3>4. f[k] = c[k]
      BY <1>8, <2>0, <2>1
    <3> QED BY <3>2, <3>3, <3>4
  <2>2. CASE ~(k <= n)
    <3>1. ~(k - 1 < n) /\ ~(k < n)
      BY <2>2
    <3>2. f[k - 1] = 0 /\ f[k] = 0
      BY <2>0, <3>1
    <3> QED BY <1>1, <3>2
  <2> QED BY <2>1, <2>2
<1>12. DOMAIN f = 0..Len(rows) /\ f = [k \in 0..Len(rows) |-> f[k]]
  OBVIOUS
<1>13. /\ \A k \in 0..n - 1 : f[k] = c[k]
       /\ \A k \in 0..Len(rows) : k \in 0..n - 1 \/ f[k] = 0
       /\ f[Len(rows)] = 0
  BY <1>1, <1>9
<1> HIDE DEF f
<1>14. Follows(f, head)
  <2>1. \A k \in 0..Len(rows) : f[k] = IF k = 0 THEN head ELSE overflow[f[k - 1]]
    <3> SUFFICES ASSUME NEW k \in 0..Len(rows)
                 PROVE  f[k] = IF k = 0 THEN head ELSE overflow[f[k - 1]]
      OBVIOUS
    <3>1. CASE k = 0
      BY <1>10, <3>1
    <3>2. CASE k # 0
      <4>1. k \in 1..Len(rows)
        BY <1>1, <3>2
      <4> QED BY <1>11, <3>2, <4>1
    <3> QED BY <3>1, <3>2
  <2> QED BY <1>12, <2>1 DEF Follows
<1>15. Followed(head) = f
  BY <1>1, <1>14, FollowedIs
<1>16. ChainOf(head) = {f[k] - 1 : k \in 0..Len(rows)} \ {-1}
  BY <1>13, <1>15 DEF ChainOf, Ends
<1>17. ASSUME NEW x PROVE x \in {i - 1 : i \in set} <=> x \in {f[k] - 1 : k \in 0..Len(rows)} \ {-1}
  <2>1. ASSUME NEW i \in set, x = i - 1 PROVE x \in {f[k] - 1 : k \in 0..Len(rows)} \ {-1}
    <3>2. PICK k \in 0..n - 1 : c[k] = i
      BY <1>8, <2>1
    <3>3. k \in 0..Len(rows) /\ f[k] = i
      BY <1>1, <1>9, <1>13, <3>2
    <3>4. i \in 1..Len(rows)
      OBVIOUS
    <3>5. x # -1
      BY <2>1, <3>4
    <3> QED BY <2>1, <3>3, <3>5
  <2>2. ASSUME NEW k \in 0..Len(rows), x = f[k] - 1, x # -1 PROVE x \in {i - 1 : i \in set}
    <3>2. f[k] # 0
      BY <2>2
    <3>3. k \in 0..n - 1
      BY <1>13, <3>2
    <3>4. f[k] \in set
      BY <1>8, <1>13, <3>3
    <3> QED BY <2>2, <3>4
  <2> QED BY <2>1, <2>2
<1> QED BY <1>16, <1>17
\* later[i] is what comes before i in a chain that starts at head, and the overflow
\* buffer has what comes after it.
Ordered(set, later, head) ==
  /\ head \in set /\ later[head] = {}
  /\ \A i \in set : i \notin later[i] /\ later[i] \subseteq set
  /\ \A i, j \in set : j \in later[i] => later[j] \subseteq later[i]
  /\ \A i, j \in set : i = j \/ i \in later[j] \/ j \in later[i]
  /\ \A i \in set : \/ overflow[i] = 0 /\ later[i] = set \ {i}
                    \/ overflow[i] \in set /\ later[overflow[i]] = later[i] \cup {i}

LEMMA OrderedIsStrung ==
  ASSUME NEW set, IsFiniteSet(set), NEW later, NEW head, Ordered(set, later, head)
  PROVE  \E n \in Nat : \E c : Strung(n, c, head, set)
<1> DEFINE n == Cardinality(set)
           at(i) == Cardinality(later[i])
<1>1. n \in Nat /\ head \in set
  BY FS_CardinalityType DEF Ordered
<1>2. ASSUME NEW i \in set PROVE IsFiniteSet(later[i]) /\ at(i) \in 0..n - 1
  <2>1. later[i] \subseteq set \ {i}
    BY DEF Ordered
  <2>2. IsFiniteSet(set \ {i}) /\ Cardinality(set \ {i}) = n - 1
    BY FS_RemoveElement
  <2>3. IsFiniteSet(later[i]) /\ at(i) <= Cardinality(set \ {i})
    BY <2>1, <2>2, FS_Subset
  <2>4. at(i) \in Nat
    BY <2>3, FS_CardinalityType
  <2> QED BY <1>1, <2>2, <2>3, <2>4
<1>3. ASSUME NEW i \in set, NEW j \in set, j \in later[i] PROVE at(j) < at(i)
  <2>1. later[j] \subseteq later[i] \ {j}
    BY <1>3 DEF Ordered
  <2>2. IsFiniteSet(later[i] \ {j}) /\ Cardinality(later[i] \ {j}) = at(i) - 1
    BY <1>2, <1>3, FS_RemoveElement
  <2>3. at(j) <= at(i) - 1
    BY <2>1, <2>2, FS_Subset
  <2>4. at(i) \in Nat /\ at(j) \in Nat
    BY <1>2
  <2> HIDE DEF at
  <2> QED BY <2>3, <2>4
<1>4. ASSUME NEW i \in set, NEW j \in set, at(i) = at(j) PROVE i = j
  <2>1. i = j \/ i \in later[j] \/ j \in later[i]
    BY DEF Ordered
  <2>2. at(i) \in Nat /\ at(j) \in Nat
    BY <1>2
  <2> HIDE DEF at
  <2> QED BY <1>3, <1>4, <2>1, <2>2
<1>5. ASSUME NEW i \in set, overflow[i] = 0, later[i] = set \ {i} PROVE at(i) = n - 1
  BY <1>5, FS_RemoveElement
<1>6. ASSUME NEW i \in set, later[overflow[i]] = later[i] \cup {i} PROVE at(overflow[i]) = at(i) + 1
  <2>1. IsFiniteSet(later[i]) /\ i \notin later[i]
    BY <1>2 DEF Ordered
  <2>2. Cardinality(later[i] \cup {i}) = Cardinality(later[i]) + 1
    BY <2>1, FS_AddElement
  <2> QED BY <1>6, <2>2
<1>7. at(head) = 0
  BY FS_EmptySet DEF Ordered
<1>8. \A i \in set : (overflow[i] = 0 /\ at(i) = n - 1) \/ (overflow[i] \in set /\ at(overflow[i]) = at(i) + 1)
  BY <1>5, <1>6 DEF Ordered
<1>9. \A i \in set : at(i) \in 0..n - 1
  BY <1>2
<1> HIDE DEF at, n
<1>10. ASSUME NEW k \in 0..n - 1, \A i \in set : at(i) # k PROVE FALSE
  <2> DEFINE S == {m \in 0..n - 1 : \A i \in set : at(i) # m}
  <2>1. S \subseteq Nat /\ S # {}
    BY <1>10
  <2>2. PICK m \in S : \A l \in S : m <= l
    BY <2>1, LeastElement
  <2>3. m \in 0..n - 1 /\ m # 0
    BY <1>1, <1>7, <2>2
  <2>4. m - 1 \in 0..n - 1 /\ ~(m <= m - 1)
    BY <1>1, <2>3
  <2>5. PICK i \in set : at(i) = m - 1
    BY <2>2, <2>4
  <2>6. overflow[i] \in set /\ at(overflow[i]) = m
    BY <1>1, <1>8, <2>3, <2>5
  <2> QED BY <2>2, <2>6
<1>11. \A k \in 0..n - 1 : \E i \in set : at(i) = k
  BY <1>10
<1> DEFINE c == [k \in 0..n |-> IF k < n THEN CHOOSE i \in set : at(i) = k ELSE 0]
<1>12. ASSUME NEW k \in 0..n - 1 PROVE c[k] \in set /\ at(c[k]) = k
  <2>1. k \in 0..n /\ k < n
    BY <1>1
  <2>2. c[k] = CHOOSE i \in set : at(i) = k
    BY <2>1
  <2> HIDE DEF c
  <2> QED BY <1>11, <2>2
<1>13. c[n] = 0
  BY <1>1
<1> HIDE DEF c
<1>14. n # 0 /\ 0 \in 0..n - 1
  BY <1>1, <1>9
<1>15. c[0] = head
  BY <1>1, <1>4, <1>7, <1>12, <1>14
<1>16. ASSUME NEW k \in 0..n - 1 PROVE c[k + 1] = overflow[c[k]]
  <2>1. c[k] \in set /\ at(c[k]) = k
    BY <1>12
  <2>2. CASE overflow[c[k]] = 0 /\ at(c[k]) = n - 1
    <3>1. k + 1 = n
      BY <1>1, <2>1, <2>2
    <3> QED BY <1>13, <2>2, <3>1
  <2>3. CASE overflow[c[k]] \in set /\ at(overflow[c[k]]) = at(c[k]) + 1
    <3>1. at(overflow[c[k]]) = k + 1 /\ k + 1 \in 0..n - 1
      BY <1>1, <1>9, <2>1, <2>3
    <3>2. c[k + 1] \in set /\ at(c[k + 1]) = k + 1
      BY <1>12, <3>1
    <3> QED BY <1>4, <2>3, <3>1, <3>2
  <2> QED BY <1>8, <2>1, <2>2, <2>3
<1>17. ASSUME NEW i \in set PROVE \E k \in 0..n - 1 : c[k] = i
  <2>1. at(i) \in 0..n - 1
    BY <1>9
  <2>2. c[at(i)] \in set /\ at(c[at(i)]) = at(i)
    BY <1>12, <2>1
  <2> QED BY <1>4, <2>1, <2>2
<1>18. \A j, k \in 0..n - 1 : c[j] = c[k] => j = k
  BY <1>12
<1>19. Strung(n, c, head, set)
  BY <1>12, <1>13, <1>15, <1>16, <1>17, <1>18 DEF Strung
<1> QED BY <1>1, <1>19

-----------------------------------------------------------------------------
\* The greatest of finitely many numbers, as Max returns it.
LEMMA MaxIs ==
  ASSUME NEW n \in Nat, NEW S \in SUBSET (0..n), S # {}
  PROVE  Max(S) \in S /\ \A y \in S : Max(S) >= y
<1> DEFINE T == {n - x : x \in S}
<1>1. T \subseteq Nat /\ T # {}
  <2>1. \A x \in S : x \in 0..n /\ n - x \in Nat
    OBVIOUS
  <2> QED BY <2>1
<1>2. PICK m \in T : \A l \in T : m <= l
  BY <1>1, LeastElement
<1>3. PICK x \in S : m = n - x
  BY <1>2
<1>4. \A y \in S : n - x <= n - y
  BY <1>2, <1>3
<1>5. \A y \in S : x >= y
  BY <1>4
<1> QED BY <1>5 DEF Max

\* The rows of a batch in the local table: entry is the new one of a hash, after old.
HeadAfter(entry, old, offset, batch, hash) ==
  \/ /\ \A m \in 1..Len(batch) : batch[m] # hash
     /\ entry.head = old.head
  \/ \E n \in 1..Len(batch) : /\ batch[n] = hash /\ entry.head = offset + n
                              /\ \A m \in 1..Len(batch) : batch[m] = hash => m <= n
TailAfter(entry, offset, batch, hash) ==
  \E n \in 1..Len(batch) : /\ batch[n] = hash /\ entry.tail = offset + n
                           /\ \A m \in 1..Len(batch) : batch[m] = hash => n <= m
LinkAfter(link, entries, offset, batch, n) ==
  \/ \E m \in 1..n - 1 : /\ batch[m] = batch[n] /\ link = offset + m
                         /\ \A k \in 1..n - 1 : batch[k] = batch[n] => k <= m
  \/ /\ \A k \in 1..n - 1 : batch[k] # batch[n]
     /\ link = IF batch[n] \in DOMAIN entries THEN entries[batch[n]].head ELSE 0

LEMMA AccumulatedIs ==
  ASSUME NEW batch \in Seq(Hashes), NEW offset \in Nat, NEW entries,
         NEW next, next = AccumulatedEntries(entries, offset, batch),
         NEW buffer, buffer = AccumulatedOverflow(entries, offset, batch)
  PROVE  /\ \A hash : hash \in DOMAIN next <=> hash \in DOMAIN entries \/ \E n \in 1..Len(batch) : batch[n] = hash
         /\ \A hash \in DOMAIN next : HeadAfter(next[hash], entries[hash], offset, batch, hash)
         /\ \A hash \in DOMAIN next : IF hash \in DOMAIN entries THEN next[hash].tail = entries[hash].tail
                                                                 ELSE TailAfter(next[hash], offset, batch, hash)
         /\ DOMAIN buffer = 1..Len(batch)
         /\ \A n \in 1..Len(batch) : LinkAfter(buffer[n], entries, offset, batch, n)
<1>1. DOMAIN batch = 1..Len(batch) /\ Len(batch) \in Nat
  OBVIOUS
<1>2. \A hash : hash \in ToSet(batch) <=> \E n \in 1..Len(batch) : batch[n] = hash
  BY <1>1 DEF ToSet
<1>3. \A hash : Places(batch, hash) \in SUBSET (0..Len(batch))
                /\ \A n : n \in Places(batch, hash) <=> n \in 1..Len(batch) /\ batch[n] = hash
  BY <1>1 DEF Places
<1>4. /\ DOMAIN next = DOMAIN entries \cup ToSet(batch)
      /\ \A hash \in DOMAIN next :
           /\ next[hash].head = IF hash \in ToSet(batch) THEN offset + Max(Places(batch, hash)) ELSE entries[hash].head
           /\ next[hash].tail = IF hash \in DOMAIN entries THEN entries[hash].tail ELSE offset + Min(Places(batch, hash))
  BY DEF AccumulatedEntries
<1>5. \A hash : hash \in DOMAIN next <=> hash \in DOMAIN entries \/ \E n \in 1..Len(batch) : batch[n] = hash
  BY <1>2, <1>4
<1>6. ASSUME NEW hash \in DOMAIN next PROVE HeadAfter(next[hash], entries[hash], offset, batch, hash)
  <2>1. CASE hash \in ToSet(batch)
    <3> DEFINE S == Places(batch, hash)
    <3>1. S \in SUBSET (0..Len(batch)) /\ S # {}
      BY <1>2, <1>3, <2>1
    <3>2. Max(S) \in S /\ \A y \in S : Max(S) >= y
      BY <1>1, <3>1, MaxIs
    <3>3. Max(S) \in 1..Len(batch) /\ batch[Max(S)] = hash
      BY <1>3, <3>2
    <3>4. \A m \in 1..Len(batch) : batch[m] = hash => m <= Max(S)
      BY <1>3, <3>2, <3>3
    <3>5. next[hash].head = offset + Max(S)
      BY <1>4, <2>1
    <3> HIDE DEF S
    <3> QED BY <3>3, <3>4, <3>5 DEF HeadAfter
  <2>2. CASE hash \notin ToSet(batch)
    BY <1>2, <1>4, <2>2 DEF HeadAfter
  <2> QED BY <2>1, <2>2
<1>7. ASSUME NEW hash \in DOMAIN next
      PROVE  IF hash \in DOMAIN entries THEN next[hash].tail = entries[hash].tail
                                        ELSE TailAfter(next[hash], offset, batch, hash)
  <2>1. CASE hash \notin DOMAIN entries
    <3> DEFINE S == Places(batch, hash)
    <3>1. S \subseteq Nat /\ S # {}
      BY <1>2, <1>3, <1>4, <2>1
    <3>2. Min(S) \in S /\ \A y \in S : Min(S) <= y
      BY <3>1, MinIs
    <3>3. Min(S) \in 1..Len(batch) /\ batch[Min(S)] = hash
      BY <1>3, <3>2
    <3>4. \A m \in 1..Len(batch) : batch[m] = hash => Min(S) <= m
      BY <1>3, <3>2
    <3>5. next[hash].tail = offset + Min(S)
      BY <1>4, <2>1
    <3> HIDE DEF S
    <3> QED BY <2>1, <3>3, <3>4, <3>5 DEF TailAfter
  <2> QED BY <1>4, <2>1
<1>8. DOMAIN buffer = 1..Len(batch)
  BY <1>1 DEF AccumulatedOverflow
<1>9. ASSUME NEW n \in 1..Len(batch) PROVE LinkAfter(buffer[n], entries, offset, batch, n)
  <2> DEFINE S == {m \in Places(batch, batch[n]) : m < n}
  <2>1. buffer[n] = IF S # {} THEN offset + Max(S)
                    ELSE IF batch[n] \in DOMAIN entries THEN entries[batch[n]].head ELSE 0
    BY <1>1 DEF AccumulatedOverflow
  <2>2. S \in SUBSET (0..Len(batch)) /\ \A m : m \in S <=> m \in 1..n - 1 /\ batch[m] = batch[n]
    BY <1>1, <1>3
  <2> HIDE DEF S
  <2>3. CASE S # {}
    <3>1. Max(S) \in S /\ \A y \in S : Max(S) >= y
      BY <1>1, <2>2, <2>3, MaxIs
    <3>2. Max(S) \in 1..n - 1 /\ batch[Max(S)] = batch[n]
      BY <2>2, <3>1
    <3>3. \A k \in 1..n - 1 : batch[k] = batch[n] => k <= Max(S)
      BY <2>2, <3>1, <3>2
    <3> QED BY <2>1, <2>3, <3>2, <3>3 DEF LinkAfter
  <2>4. CASE S = {}
    BY <2>1, <2>2, <2>4 DEF LinkAfter
  <2> QED BY <2>3, <2>4
<1> QED BY <1>5, <1>6, <1>7, <1>8, <1>9

\* The rows in the local tables of a thread, and those of a hash.
RowsOf(t) == {i \in 1..Len(rows) : \E r \in regions[t] : i - r.offset \in DOMAIN r.buffer}
Mine(t, hash) == {i \in RowsOf(t) : rows[i] = hash}

\* The first and the last row of a chain, and what a row is linked to.
Spans(entry, mine) ==
  /\ entry.head \in mine /\ entry.tail \in mine
  /\ \A i \in mine : entry.tail <= i /\ i <= entry.head
LinkedTo(i, link, mine) ==
  \/ link = 0 /\ \A k \in mine : i <= k
  \/ link \in mine /\ link < i /\ \A k \in mine : k < i => k <= link

\* Every row is in the local tables of a thread, where the rows of a hash are a
\* chain that goes back in the order of their indices; nobody shares tables twice.
LocalInv ==
  /\ \A t \in Threads : \A r \in regions[t] : DOMAIN r.buffer = 1..Len(r.buffer)
  /\ \A i \in 1..Len(rows) : \E t \in Threads : i \in RowsOf(t)
  /\ \A t \in Threads : \A hash \in Hashes : hash \in DOMAIN local[t] <=> Mine(t, hash) # {}
  /\ \A t \in Threads : \A hash \in DOMAIN local[t] : Spans(local[t][hash], Mine(t, hash))
  /\ \A t \in Threads : \A r \in regions[t] : \A n \in DOMAIN r.buffer :
       LinkedTo(r.offset + n, r.buffer[n], Mine(t, rows[r.offset + n]))
  /\ \A m, n \in DOMAIN shared : shared[m] = shared[n] => m = n

LEMMA LocalInit == ConcurrentInit => LocalInv
<1> SUFFICES ASSUME ConcurrentInit PROVE LocalInv
  OBVIOUS
<1>1. /\ \A t \in Threads : regions[t] = {} /\ local[t] = <<>>
      /\ rows = <<>> /\ shared = <<>>
  BY DEF ConcurrentInit, BuilderInit
<1>2. Len(rows) = 0 /\ DOMAIN shared = {}
  BY <1>1
<1>3. \A t \in Threads : DOMAIN local[t] = {}
  BY <1>1
<1>4. \A t \in Threads : RowsOf(t) = {}
  BY <1>1 DEF RowsOf
<1>5. \A t \in Threads : \A hash : Mine(t, hash) = {}
  BY <1>4 DEF Mine
<1> QED BY <1>1, <1>2, <1>3, <1>5 DEF LocalInv

\* A batch adds its rows to those of the thread.
LEMMA BatchAddsRows ==
  ASSUME ControlInv, BuffersAreDisjoint, LocalInv, NEW t \in Threads, AllocateBatch(t),
         NEW batch, batch = Head(waiting[t])
  PROVE  /\ batch \in Seq(Hashes) /\ Len(rows') = Len(rows) + Len(batch)
         /\ \A i \in 1..Len(rows) : rows'[i] = rows[i]
         /\ \A n \in 1..Len(batch) : rows'[Len(rows) + n] = batch[n]
         /\ \A u \in Threads : \A i : i \in RowsOf(u)' <=> i \in RowsOf(u) \/ (u = t /\ i \in Len(rows) + 1..Len(rows) + Len(batch))
<1> DEFINE new == [offset |-> Offset, buffer |-> AccumulatedOverflow(local[t], Offset, batch)]
<1>1. /\ rows' = rows \o batch
      /\ regions' = [regions EXCEPT ![t] = @ \cup {new}]
  BY DEF AllocateBatch
<1>2. batch \in Seq(Hashes) /\ rows \in Seq(Hashes) /\ DOMAIN regions = Threads
  <2>1. waiting[t] \in Seq(Seq(Hashes)) /\ waiting[t] # <<>>
    BY DEF ControlInv, ControlTypeOK, TrackerInv, AllocateBatch
  <2> QED BY <2>1 DEF ControlInv, ControlTypeOK
<1>3. new.offset = Len(rows) /\ DOMAIN new.buffer = 1..Len(batch)
  BY <1>2 DEF Offset, AccumulatedOverflow
<1>4. /\ Len(rows') = Len(rows) + Len(batch) /\ Len(rows) \in Nat /\ Len(batch) \in Nat
      /\ \A i \in 1..Len(rows) : rows'[i] = rows[i]
      /\ \A n \in 1..Len(batch) : rows'[Len(rows) + n] = batch[n]
  BY <1>1, <1>2
<1>5. \A u \in Threads : regions'[u] = IF u = t THEN regions[t] \cup {new} ELSE regions[u]
  BY <1>1, <1>2
<1> HIDE DEF new
<1>6. ASSUME NEW u \in Threads, NEW r \in regions[u]
      PROVE  /\ DOMAIN r.buffer = 1..Len(r.buffer) /\ r.offset \in Nat /\ Len(r.buffer) \in Nat
             /\ r.offset + Len(r.buffer) <= Len(rows)
  BY <1>2 DEF LocalInv, ControlInv, ControlTypeOK, BuffersAreDisjoint, Offset
<1>7. ASSUME NEW u \in Threads, NEW i
      PROVE  i \in RowsOf(u)' <=> i \in RowsOf(u) \/ (u = t /\ i \in Len(rows) + 1..Len(rows) + Len(batch))
  <2>1. i \in RowsOf(u)' <=> i \in 1..Len(rows') /\ \E r \in regions'[u] : i - r.offset \in DOMAIN r.buffer
    BY DEF RowsOf
  <2>2. ASSUME NEW r \in regions[u], i \in 1..Len(rows'), i - r.offset \in DOMAIN r.buffer PROVE i \in RowsOf(u)
    <3>1. i \in 1..Len(rows)
      BY <1>4, <1>6, <2>2
    <3> QED BY <2>2, <3>1 DEF RowsOf
  <2>3. i \in RowsOf(u) => i \in 1..Len(rows') /\ \E r \in regions[u] : i - r.offset \in DOMAIN r.buffer
    BY <1>4 DEF RowsOf
  <2>4. i \in 1..Len(rows') /\ i - new.offset \in DOMAIN new.buffer <=> i \in Len(rows) + 1..Len(rows) + Len(batch)
    BY <1>3, <1>4
  <2> QED BY <1>5, <2>1, <2>2, <2>3, <2>4
<1> QED BY <1>2, <1>4, <1>7

\* Its rows come after those the thread has, and so does their part of the chains.
LEMMA BatchKeepsLocal ==
  ASSUME ControlInv, CountsInv, BuffersAreDisjoint, LocalInv, NEW t \in Threads, AllocateBatch(t)
  PROVE  LocalInv'
<1> DEFINE batch == Head(waiting[t])
           next == AccumulatedEntries(local[t], Offset, batch)
           buffer == AccumulatedOverflow(local[t], Offset, batch)
           new == [offset |-> Offset, buffer |-> buffer]
<1>1. /\ batch \in Seq(Hashes) /\ Len(rows') = Len(rows) + Len(batch)
      /\ \A i \in 1..Len(rows) : rows'[i] = rows[i]
      /\ \A n \in 1..Len(batch) : rows'[Len(rows) + n] = batch[n]
      /\ \A u \in Threads : \A i : i \in RowsOf(u)' <=> i \in RowsOf(u) \/ (u = t /\ i \in Len(rows) + 1..Len(rows) + Len(batch))
  BY BatchAddsRows
<1>2. /\ Len(rows) \in Nat /\ Len(batch) \in Nat /\ DOMAIN regions = Threads /\ DOMAIN local = Threads
      /\ Offset = Len(rows) /\ \A u \in Threads : DOMAIN local[u] \subseteq Hashes
  BY <1>1 DEF ControlInv, ControlTypeOK, CountsInv, RowsInv, Offset
<1>3. /\ regions' = [regions EXCEPT ![t] = @ \cup {new}]
      /\ local' = [local EXCEPT ![t] = next] /\ shared' = shared
  BY DEF AllocateBatch
<1>4. /\ \A u \in Threads : regions'[u] = IF u = t THEN regions[t] \cup {new} ELSE regions[u]
      /\ \A u \in Threads : local'[u] = IF u = t THEN next ELSE local[u]
  BY <1>2, <1>3
<1>5. /\ \A hash : hash \in DOMAIN next <=> hash \in DOMAIN local[t] \/ \E n \in 1..Len(batch) : batch[n] = hash
      /\ \A hash \in DOMAIN next : HeadAfter(next[hash], local[t][hash], Len(rows), batch, hash)
      /\ \A hash \in DOMAIN next : IF hash \in DOMAIN local[t] THEN next[hash].tail = local[t][hash].tail
                                                               ELSE TailAfter(next[hash], Len(rows), batch, hash)
      /\ DOMAIN buffer = 1..Len(batch)
      /\ \A n \in 1..Len(batch) : LinkAfter(buffer[n], local[t], Len(rows), batch, n)
  BY <1>1, <1>2, AccumulatedIs
<1>6. new.offset = Len(rows) /\ new.buffer = buffer /\ Len(buffer) = Len(batch)
  BY <1>1, <1>2, AccumulatedLength
<1> HIDE DEF batch, next, buffer, new
<1>7. \A u \in Threads : \A hash, i : i \in Mine(u, hash) => i \in 1..Len(rows) /\ i \in RowsOf(u) /\ rows[i] = hash
  BY DEF Mine, RowsOf
<1>8. ASSUME NEW u \in Threads, NEW hash, NEW i
      PROVE  i \in Mine(u, hash)' <=> i \in Mine(u, hash) \/ (u = t /\ \E n \in 1..Len(batch) : i = Len(rows) + n /\ batch[n] = hash)
  <2>1. i \in Mine(u, hash)' <=> i \in RowsOf(u)' /\ rows'[i] = hash
    BY DEF Mine
  <2>2. i \in RowsOf(u) => i \in 1..Len(rows) /\ rows'[i] = rows[i]
    BY <1>1 DEF RowsOf
  <2>3. i \in Mine(u, hash) <=> i \in RowsOf(u) /\ rows[i] = hash
    BY DEF Mine
  <2>4. ASSUME i \in Len(rows) + 1..Len(rows) + Len(batch), rows'[i] = hash
        PROVE  \E n \in 1..Len(batch) : i = Len(rows) + n /\ batch[n] = hash
    <3>1. i - Len(rows) \in 1..Len(batch) /\ i = Len(rows) + (i - Len(rows))
      BY <1>2, <2>4
    <3> QED BY <1>1, <2>4, <3>1
  <2>5. ASSUME NEW n \in 1..Len(batch), i = Len(rows) + n, batch[n] = hash
        PROVE  i \in Len(rows) + 1..Len(rows) + Len(batch) /\ rows'[i] = hash
    BY <1>1, <1>2, <2>5
  <2> QED BY <1>1, <2>1, <2>2, <2>3, <2>4, <2>5
<1>9. ASSUME NEW u \in Threads, u # t, NEW hash PROVE Mine(u, hash)' = Mine(u, hash)
  <2>1. \A i : i \in Mine(u, hash)' <=> i \in Mine(u, hash)
    BY <1>8, <1>9
  <2> QED BY <2>1
<1>10. ASSUME NEW u \in Threads, NEW r \in regions'[u] PROVE DOMAIN r.buffer = 1..Len(r.buffer)
  BY <1>4, <1>5, <1>6, <1>10 DEF LocalInv
<1>11. ASSUME NEW i \in 1..Len(rows') PROVE \E u \in Threads : i \in RowsOf(u)'
  <2>1. CASE i \in 1..Len(rows)
    BY <1>1, <2>1 DEF LocalInv
  <2>2. CASE i \notin 1..Len(rows)
    <3>1. i \in Len(rows) + 1..Len(rows) + Len(batch)
      BY <1>1, <1>2, <2>2
    <3> QED BY <1>1, <3>1
  <2> QED BY <2>1, <2>2
<1>12. ASSUME NEW u \in Threads, NEW hash \in Hashes
       PROVE  hash \in DOMAIN local'[u] <=> Mine(u, hash)' # {}
  <2>1. hash \in DOMAIN local[u] <=> Mine(u, hash) # {}
    BY DEF LocalInv
  <2>2. CASE u = t
    <3>1. hash \in DOMAIN local'[u] <=> hash \in DOMAIN local[t] \/ \E n \in 1..Len(batch) : batch[n] = hash
      BY <1>4, <1>5, <2>2
    <3> QED BY <1>8, <2>1, <2>2, <3>1
  <2>3. CASE u # t
    BY <1>4, <1>9, <2>1, <2>3
  <2> QED BY <2>2, <2>3
<1>13. ASSUME NEW u \in Threads, NEW hash \in DOMAIN local'[u]
       PROVE  Spans(local'[u][hash], Mine(u, hash)')
  <2>1. CASE u # t
    <3>1. Spans(local[u][hash], Mine(u, hash))
      BY <1>4, <1>13, <2>1 DEF LocalInv
    <3> QED BY <1>4, <1>9, <2>1, <3>1
  <2>2. CASE u = t
    <3> DEFINE e == next[hash]
               o == local[t][hash]
    <3>1. local'[u][hash] = e /\ hash \in DOMAIN next
      BY <1>4, <1>13, <2>2
    <3>2. hash \in DOMAIN local[t] => Spans(o, Mine(t, hash))
      BY DEF LocalInv
    <3>3. hash \notin DOMAIN local[t] => Mine(t, hash) = {} /\ \E n \in 1..Len(batch) : batch[n] = hash
      <4>1. hash \in Hashes
        <5>1. \A n \in 1..Len(batch) : batch[n] \in Hashes
          BY <1>1
        <5> QED BY <1>2, <1>5, <3>1, <5>1
      <4> QED BY <1>5, <3>1, <4>1 DEF LocalInv
    <3>4. HeadAfter(e, o, Len(rows), batch, hash)
      BY <1>5, <3>1
    <3>5. IF hash \in DOMAIN local[t] THEN e.tail = o.tail ELSE TailAfter(e, Len(rows), batch, hash)
      BY <1>5, <3>1
    <3> HIDE DEF e, o
    <3>6. e.head \in Mine(t, hash)' /\ \A i \in Mine(t, hash)' : i <= e.head
      <4>1. CASE (\A m \in 1..Len(batch) : batch[m] # hash) /\ e.head = o.head
        <5>1. Mine(t, hash)' = Mine(t, hash)
          BY <1>8, <4>1
        <5> QED BY <3>2, <3>3, <4>1, <5>1 DEF Spans
      <4>2. CASE \E n \in 1..Len(batch) : /\ batch[n] = hash /\ e.head = Len(rows) + n
                                          /\ \A m \in 1..Len(batch) : batch[m] = hash => m <= n
        BY <1>2, <1>7, <1>8, <4>2
      <4> QED BY <3>4, <4>1, <4>2 DEF HeadAfter
    <3>7. e.tail \in Mine(t, hash)' /\ \A i \in Mine(t, hash)' : e.tail <= i
      <4>1. CASE hash \in DOMAIN local[t]
        <5>1. e.tail \in Mine(t, hash) /\ \A i \in Mine(t, hash) : e.tail <= i
          BY <3>2, <3>5, <4>1 DEF Spans
        <5> QED BY <1>2, <1>7, <1>8, <5>1
      <4>2. CASE hash \notin DOMAIN local[t]
        BY <1>2, <1>8, <3>3, <3>5, <4>2 DEF TailAfter
      <4> QED BY <4>1, <4>2
    <3> QED BY <2>2, <3>1, <3>6, <3>7 DEF Spans
  <2> QED BY <2>1, <2>2
<1>14. ASSUME NEW u \in Threads, NEW r \in regions'[u], NEW n \in DOMAIN r.buffer
       PROVE  LinkedTo(r.offset + n, r.buffer[n], Mine(u, rows[r.offset + n]))'
  <2>1. CASE r \in regions[u]
    <3>1. PICK i : i = r.offset + n
      OBVIOUS
    <3>2. i \in 1..Len(rows)
      <4>1. DOMAIN r.buffer = 1..Len(r.buffer) /\ r.offset \in Nat /\ Len(r.buffer) \in Nat /\ r.offset + Len(r.buffer) <= Len(rows)
        BY <1>2, <2>1 DEF LocalInv, ControlInv, ControlTypeOK, BuffersAreDisjoint
      <4> QED BY <1>2, <3>1, <4>1
    <3>3. PICK h : h = rows[i]
      OBVIOUS
    <3>4. rows'[i] = h
      BY <1>1, <3>2, <3>3
    <3>5. LinkedTo(i, r.buffer[n], Mine(u, h))
      BY <1>14, <2>1, <3>1, <3>3 DEF LocalInv
    <3>6. \A k \in Mine(u, h)' : k \in Mine(u, h) \/ (k > i /\ k \in Int)
      BY <1>2, <1>8, <3>2
    <3>7. \A k \in Mine(u, h) : k \in Mine(u, h)' /\ k \in 1..Len(rows)
      BY <1>7, <1>8
    <3>8. LinkedTo(i, r.buffer[n], Mine(u, h)')
      <4> DEFINE old == Mine(u, h)
                 more == Mine(u, h)'
                 link == r.buffer[n]
      <4>1. LinkedTo(i, link, old) /\ (\A k \in more : k \in old \/ (k > i /\ k \in Int))
            /\ (\A k \in old : k \in more /\ k \in 1..Len(rows)) /\ i \in Nat
        BY <3>2, <3>5, <3>6, <3>7
      <4> HIDE DEF old, more, link
      <4>2. LinkedTo(i, link, more)
        <5>1. CASE link = 0 /\ \A k \in old : i <= k
          <6>1. \A k \in more : i <= k
            BY <4>1, <5>1
          <6> QED BY <5>1, <6>1 DEF LinkedTo
        <5>2. CASE link \in old /\ link < i /\ \A k \in old : k < i => k <= link
          <6>1. \A k \in more : k < i => k <= link
            BY <4>1, <5>2
          <6> QED BY <4>1, <5>2, <6>1 DEF LinkedTo
        <5> QED BY <4>1, <5>1, <5>2 DEF LinkedTo
      <4> QED BY <4>2 DEF old, more, link
    <3>9. Mine(u, rows[r.offset + n])' = Mine(u, h)'
      BY <3>1, <3>4 DEF Mine
    <3> QED BY <3>1, <3>8, <3>9
  <2>2. CASE u = t /\ r = new
    <3>1. n \in 1..Len(batch) /\ r.offset = Len(rows) /\ r.buffer = buffer
      BY <1>5, <1>6, <2>2
    <3>0. PICK hash : hash = batch[n]
      OBVIOUS
    <3>2. rows'[r.offset + n] = hash
      BY <1>1, <3>0, <3>1
    <3>20. Mine(u, rows[r.offset + n])' = Mine(t, hash)'
      BY <2>2, <3>2 DEF Mine
    <3>3. LinkAfter(buffer[n], local[t], Len(rows), batch, n)
      BY <1>5, <3>1
    <3>4. \A k \in Mine(t, hash)' : (k \in 1..Len(rows) /\ k \in Mine(t, hash)) \/ (\E m \in 1..Len(batch) : k = Len(rows) + m /\ batch[m] = hash)
      BY <1>7, <1>8
    <3>5. \A k \in Mine(t, hash) : k \in Mine(t, hash)' /\ k \in 1..Len(rows)
      BY <1>7, <1>8
    <3>6. \A m \in 1..Len(batch) : batch[m] = hash => Len(rows) + m \in Mine(t, hash)'
      BY <1>8
    <3>7. CASE \E m \in 1..n - 1 : /\ batch[m] = hash /\ buffer[n] = Len(rows) + m
                                   /\ \A k \in 1..n - 1 : batch[k] = hash => k <= m
      <4>1. PICK m \in 1..n - 1 : /\ batch[m] = hash /\ buffer[n] = Len(rows) + m
                                  /\ \A k \in 1..n - 1 : batch[k] = hash => k <= m
        BY <3>7
      <4>2. m \in 1..Len(batch) /\ m < n
        BY <3>1
      <4>3. Len(rows) + m \in Mine(t, hash)' /\ Len(rows) + m < Len(rows) + n
        BY <1>2, <3>1, <3>6, <4>1, <4>2
      <4>4. ASSUME NEW k \in Mine(t, hash)', k < Len(rows) + n PROVE k <= Len(rows) + m
        <5>1. CASE k \in 1..Len(rows)
          BY <1>2, <4>2, <5>1
        <5>2. CASE \E l \in 1..Len(batch) : k = Len(rows) + l /\ batch[l] = hash
          <6>1. PICK l \in 1..Len(batch) : k = Len(rows) + l /\ batch[l] = hash
            BY <5>2
          <6>2. l \in 1..n - 1
            BY <1>2, <3>1, <4>4, <6>1
          <6> QED BY <1>2, <4>1, <4>2, <6>1, <6>2
        <5> QED BY <3>4, <5>1, <5>2
      <4>5. LinkedTo(Len(rows) + n, Len(rows) + m, Mine(t, hash)')
        BY <4>3, <4>4 DEF LinkedTo
      <4> QED BY <3>1, <3>20, <4>1, <4>5
    <3>8. CASE /\ \A k \in 1..n - 1 : batch[k] # hash
               /\ buffer[n] = IF hash \in DOMAIN local[t] THEN local[t][hash].head ELSE 0
      <4>1. ASSUME NEW k \in Mine(t, hash)', k < Len(rows) + n PROVE k \in Mine(t, hash)
        <5>1. CASE \E l \in 1..Len(batch) : k = Len(rows) + l /\ batch[l] = hash
          <6>1. PICK l \in 1..Len(batch) : k = Len(rows) + l /\ batch[l] = hash
            BY <5>1
          <6>2. l \in 1..n - 1
            BY <1>2, <3>1, <4>1, <6>1
          <6> QED BY <3>8, <6>1, <6>2
        <5> QED BY <3>4, <5>1
      <4>2. CASE hash \in DOMAIN local[t]
        <5>1. Spans(local[t][hash], Mine(t, hash)) /\ buffer[n] = local[t][hash].head
          BY <3>8, <4>2 DEF LocalInv
        <5>2. /\ buffer[n] \in Mine(t, hash)' /\ buffer[n] < Len(rows) + n
              /\ \A k \in Mine(t, hash) : k <= buffer[n]
          BY <1>2, <3>1, <3>5, <5>1 DEF Spans
        <5>3. LinkedTo(Len(rows) + n, buffer[n], Mine(t, hash)')
          BY <4>1, <5>2 DEF LinkedTo
        <5> QED BY <3>1, <3>20, <5>3
      <4>3. CASE hash \notin DOMAIN local[t]
        <5>1. hash \in Hashes
          BY <1>1, <3>0, <3>1
        <5>2. Mine(t, hash) = {} /\ buffer[n] = 0
          BY <3>8, <4>3, <5>1 DEF LocalInv
        <5>3. \A k \in Mine(t, hash)' : Len(rows) + n <= k
          <6>1. \A k \in Mine(t, hash)' : k \in Int
            BY <1>2, <3>4
          <6> QED BY <1>2, <3>1, <4>1, <5>2, <6>1
        <5>4. LinkedTo(Len(rows) + n, buffer[n], Mine(t, hash)')
          BY <5>2, <5>3 DEF LinkedTo
        <5> QED BY <3>1, <3>20, <5>4
      <4> QED BY <4>2, <4>3
    <3> QED BY <3>0, <3>3, <3>7, <3>8 DEF LinkAfter
  <2> QED BY <1>4, <1>14, <2>1, <2>2
<1>15. \A m, n \in DOMAIN shared' : shared'[m] = shared'[n] => m = n
  BY <1>3 DEF LocalInv
<1> QED BY <1>10, <1>11, <1>12, <1>13, <1>14, <1>15 DEF LocalInv

\* Tables are shared once, and otherwise nothing changes them.
LEMMA LocalStep ==
  ASSUME ControlInv, CountsInv, BuffersAreDisjoint, LocalInv, [ConcurrentNext]_concurrentVars
  PROVE  LocalInv'
<1>1. ASSUME UNCHANGED <<rows, regions, local>>, \A m, n \in DOMAIN shared' : shared'[m] = shared'[n] => m = n
      PROVE  LocalInv'
  <2>1. \A t : RowsOf(t)' = RowsOf(t)
    BY <1>1 DEF RowsOf
  <2>2. ASSUME NEW t, NEW hash PROVE Mine(t, hash)' = Mine(t, hash)
    BY <1>1, <2>1 DEF Mine
  <2>3. \A t \in Threads : \A r \in regions'[t] : DOMAIN r.buffer = 1..Len(r.buffer)
    BY <1>1 DEF LocalInv
  <2>4. \A i \in 1..Len(rows') : \E t \in Threads : i \in RowsOf(t)'
    BY <1>1, <2>1 DEF LocalInv
  <2>5. \A t \in Threads : \A hash \in Hashes : hash \in DOMAIN local'[t] <=> Mine(t, hash)' # {}
    BY <1>1, <2>2 DEF LocalInv
  <2>6. ASSUME NEW t \in Threads, NEW hash \in DOMAIN local'[t] PROVE Spans(local'[t][hash], Mine(t, hash)')
    BY <1>1, <2>2, <2>6 DEF LocalInv
  <2>7. ASSUME NEW t \in Threads, NEW r \in regions'[t], NEW n \in DOMAIN r.buffer
        PROVE  LinkedTo(r.offset + n, r.buffer[n], Mine(t, rows[r.offset + n]))'
    <3>1. LinkedTo(r.offset + n, r.buffer[n], Mine(t, rows[r.offset + n]))
      BY <1>1, <2>7 DEF LocalInv
    <3>2. Mine(t, rows[r.offset + n])' = Mine(t, rows[r.offset + n])
      BY <1>1, <2>1 DEF Mine
    <3> QED BY <3>1, <3>2
  <2> QED BY <1>1, <2>3, <2>4, <2>5, <2>6, <2>7 DEF LocalInv
<1>2. ASSUME UNCHANGED <<rows, regions, local, shared>> PROVE LocalInv'
  BY <1>1, <1>2 DEF LocalInv
<1>3. CASE UNCHANGED concurrentVars
  BY <1>2, <1>3 DEF concurrentVars, builderVars, partitionedVars
<1>4. ASSUME NEW t \in Threads, ConcurrentStep(t) PROVE LocalInv'
  <2>1. CASE AllocateBatch(t)
    BY <2>1, BatchKeepsLocal
  <2>2. CASE SendTables(t)
    <3>1. UNCHANGED <<rows, regions, local>> /\ shared' = Append(shared, t) /\ pc[t] = "accumulate"
      BY <2>2 DEF SendTables
    <3>2. t \notin ToSet(shared) /\ shared \in Seq(Threads)
      BY <3>1 DEF ControlInv, ControlTypeOK, PhaseInv, Accumulating
    <3>3. /\ DOMAIN shared = 1..Len(shared) /\ Len(shared) \in Nat /\ DOMAIN shared' = 1..Len(shared) + 1
          /\ \A n \in 1..Len(shared) : shared'[n] = shared[n]
          /\ shared'[Len(shared) + 1] = t
      BY <3>1, <3>2
    <3>4. \A n \in 1..Len(shared) : shared[n] # t
      BY <3>2, <3>3 DEF ToSet
    <3>5. \A m, n \in 1..Len(shared) : shared[m] = shared[n] => m = n
      BY <3>3 DEF LocalInv
    <3>6. ASSUME NEW m \in DOMAIN shared', NEW n \in DOMAIN shared', shared'[m] = shared'[n] PROVE m = n
      <4>1. \A k \in DOMAIN shared' : k \in 1..Len(shared) \/ k = Len(shared) + 1
        BY <3>3
      <4> QED BY <3>3, <3>4, <3>5, <3>6, <4>1
    <3> QED BY <1>1, <3>1, <3>6
  <2>3. CASE ~AllocateBatch(t) /\ ~SendTables(t)
    <3> USE DEF partitionedVars
    <3>1. CASE LockTracker(t) \/ CollectTables(t) \/ AllocateOverflow(t) \/ ReceiveOverflow(t) \/ CopyOverflow(t)
      BY <1>2, <3>1 DEF LockTracker, CollectTables, AllocateOverflow, ReceiveOverflow, CopyOverflow
    <3>2. CASE AllocateCounts(t) \/ ReceiveCounts(t) \/ ArriveCopied(t) \/ Merge(t)
      BY <1>2, <3>2 DEF AllocateCounts, ReceiveCounts, ArriveCopied, Arrive, Merge
    <3>3. CASE LockSenders(t) \/ MissSenders(t) \/ TakeSenders(t) \/ ArriveMerged(t) \/ AllocateDestination(t) \/ ReceiveDestination(t)
      BY <1>2, <3>3 DEF LockSenders, MissSenders, TakeSenders, ArriveMerged, Arrive, AllocateDestination, ReceiveDestination
    <3>4. CASE PlanWrites(t) \/ PanicFewCounters(t) \/ WriteCell(t) \/ Return(t)
      BY <1>2, <3>4 DEF PlanWrites, PanicFewCounters, WriteCell, Return
    <3> QED BY <1>4, <2>3, <3>1, <3>2, <3>3, <3>4 DEF ConcurrentStep
  <2> QED BY <2>1, <2>2, <2>3
<1> QED BY <1>3, <1>4 DEF ConcurrentNext

\* In the table and the batches' buffers of one thread, as accumulate leaves them,
\* all its rows of a hash are on one chain, latest first.
THEOREM LocalInvariant == ASSUME FewHashes PROVE ConcurrentSpec => []LocalInv
<1>1. ControlInv /\ CountsInv /\ BuffersAreDisjoint /\ LocalInv /\ [ConcurrentNext]_concurrentVars => LocalInv'
  BY LocalStep
<1> QED BY <1>1, LocalInit, ControlInvariant, CountsInvariant, BuffersDisjoint, PTL DEF ConcurrentSpec

-----------------------------------------------------------------------------
(* The chains in the overflow buffer *)

\* A place is in one local buffer at most.
LEMMA RegionsApart ==
  ASSUME ControlInv, BuffersAreDisjoint, LocalInv, NEW t \in Threads, NEW u \in Threads,
         NEW r \in regions[t], NEW s \in regions[u], NEW i \in Int,
         i - r.offset \in DOMAIN r.buffer, i - s.offset \in DOMAIN s.buffer
  PROVE  t = u /\ r = s /\ i \in 1..Len(rows)
<1>1. /\ DOMAIN r.buffer = 1..Len(r.buffer) /\ r.offset \in Nat /\ Len(r.buffer) \in Nat
      /\ DOMAIN s.buffer = 1..Len(s.buffer) /\ s.offset \in Nat /\ Len(s.buffer) \in Nat
      /\ r.offset + Len(r.buffer) <= Len(rows) /\ Len(rows) \in Nat
  BY DEF ControlInv, ControlTypeOK, BuffersAreDisjoint, LocalInv, Offset
<1>2. <<t, r>> = <<u, s>> \/ r.offset + Len(r.buffer) <= s.offset \/ s.offset + Len(s.buffer) <= r.offset
  BY DEF ControlInv, ControlTypeOK, BuffersAreDisjoint
<1>3. <<t, r>> = <<u, s>>
  BY <1>1, <1>2
<1> QED BY <1>1, <1>3

LEMMA RowsApart ==
  ASSUME ControlInv, BuffersAreDisjoint, LocalInv, NEW t \in Threads, NEW u \in Threads,
         NEW i \in RowsOf(t), i \in RowsOf(u)
  PROVE  t = u /\ i \in 1..Len(rows)
<1>1. PICK r \in regions[t] : i - r.offset \in DOMAIN r.buffer
  BY DEF RowsOf
<1>2. PICK s \in regions[u] : i - s.offset \in DOMAIN s.buffer
  BY DEF RowsOf
<1>3. i \in 1..Len(rows) /\ i \in Int
  BY DEF RowsOf
<1> QED BY <1>1, <1>2, <1>3, RegionsApart

\* Which tables, but the first, have rows of a hash, and the last of those before one of them.
Joined(hash) == Sources(hash) \ {Min(Sources(hash))}
Earlier(hash, n) == Max({m \in Sources(hash) : m < n})

\* No two chains have an end in common.
LEMMA ChainIs ==
  ASSUME ControlInv, LocalInv, NEW hash, NEW n \in Sources(hash)
  PROVE  /\ shared[n] \in Threads /\ n \in DOMAIN shared
         /\ Spans(Chain(hash, n), Mine(shared[n], hash))
<1>1. n \in DOMAIN shared /\ hash \in DOMAIN local[shared[n]]
  BY DEF Sources
<1>2. shared[n] \in Threads
  BY <1>1 DEF ControlInv, ControlTypeOK
<1> QED BY <1>1, <1>2 DEF LocalInv, Chain

LEMMA TailsApart ==
  ASSUME ControlInv, BuffersAreDisjoint, LocalInv,
         NEW hash, NEW n \in Sources(hash), NEW other, NEW m \in Sources(other),
         Chain(hash, n).tail = Chain(other, m).tail
  PROVE  hash = other /\ n = m /\ Chain(hash, n).tail \in 1..Len(rows)
<1> DEFINE i == Chain(hash, n).tail
<1>1. i \in Mine(shared[n], hash) /\ shared[n] \in Threads /\ n \in DOMAIN shared
  BY ChainIs DEF Spans
<1>2. i \in Mine(shared[m], other) /\ shared[m] \in Threads /\ m \in DOMAIN shared
  BY ChainIs DEF Spans
<1> HIDE DEF i
<1>3. /\ i \in RowsOf(shared[n]) /\ rows[i] = hash
      /\ i \in RowsOf(shared[m]) /\ rows[i] = other
  BY <1>1, <1>2 DEF Mine
<1>4. shared[n] = shared[m] /\ i \in 1..Len(rows)
  BY <1>1, <1>2, <1>3, RowsApart
<1> QED BY <1>1, <1>2, <1>3, <1>4 DEF LocalInv, i

\* Who may use the overflow buffer, and whose local buffers are in it.
Copied == {"counts", "copied", "merge"} \cup AfterMerge
Copying == {"copy"} \cup Copied

\* The rows whose link merging has changed.
Linked(i) == \E hash \in Merged : \E n \in Joined(hash) : i = Chain(hash, n).tail

\* The overflow buffer has the links of the local buffers, but from the end of each
\* chain of a hash that has been merged to the chain before it.
LinkInv ==
  /\ \A t \in Threads : pc[t] \in Copying => overflow # Unallocated
  /\ overflow # Unallocated => overflow[0] = 0
  /\ \A t \in Threads : pc[t] \in Copied =>
       \A r \in regions[t] : \A n \in DOMAIN r.buffer :
         ~Linked(r.offset + n) => overflow[r.offset + n] = r.buffer[n]
  /\ \A hash \in Merged : \A n \in Joined(hash) :
       overflow[Chain(hash, n).tail] = Chain(hash, Earlier(hash, n)).head

LEMMA LinkInit == ConcurrentInit => LinkInv
<1> SUFFICES ASSUME ConcurrentInit PROVE LinkInv
  OBVIOUS
<1>1. (\A t \in Threads : pc[t] \in {"accumulate", "refused"}) /\ overflow = Unallocated
  BY FirstSteps DEF ConcurrentInit, BuilderInit
<1>2. Merged = {}
  BY <1>1 DEF Merged, AfterMerge, PastMerge
<1> QED BY <1>1, <1>2 DEF LinkInv, Copying, Copied, AfterMerge, PastMerge

\* What concerns neither links nor the merging keeps them.
LEMMA LinksStay ==
  ASSUME LinkInv, UNCHANGED <<local, regions, shared, overflow>>,
         \A t \in Threads : pc'[t] \in AfterMerge <=> pc[t] \in AfterMerge,
         \A t \in Threads : pc'[t] \in Copied => pc[t] \in Copied,
         \A t \in Threads : pc'[t] \in Copying => overflow # Unallocated
  PROVE  LinkInv'
<1>1. Merged' = Merged
  BY SameMerged
<1>2. ASSUME NEW hash PROVE Sources(hash)' = Sources(hash) /\ Joined(hash)' = Joined(hash)
  BY DEF Sources, Joined
<1>3. ASSUME NEW hash, NEW n PROVE Chain(hash, n)' = Chain(hash, n) /\ Earlier(hash, n)' = Earlier(hash, n)
  BY <1>2 DEF Chain, Earlier
<1>4. ASSUME NEW i PROVE Linked(i)' <=> Linked(i)
  BY <1>1, <1>2, <1>3 DEF Linked
<1>5. ASSUME NEW t \in Threads, pc'[t] \in Copied, NEW r \in regions'[t], NEW n \in DOMAIN r.buffer,
             ~Linked(r.offset + n)'
      PROVE  overflow'[r.offset + n] = r.buffer[n]
  BY <1>4, <1>5 DEF LinkInv
<1>6. ASSUME NEW hash \in Merged', NEW n \in Joined(hash)'
      PROVE  overflow'[Chain(hash, n)'.tail] = Chain(hash, Earlier(hash, n))'.head
  <2>1. Chain(hash, Earlier(hash, n))' = Chain(hash, Earlier(hash, n))
    BY <1>3 DEF Chain
  <2> QED BY <1>1, <1>2, <1>3, <1>6, <2>1 DEF LinkInv
<1>7. overflow' # Unallocated => overflow'[0] = 0
  BY DEF LinkInv
<1> QED BY <1>5, <1>6, <1>7 DEF LinkInv

\* A thread copies its buffers to where no other thread's are.
LEMMA CopyKeepsLinks ==
  ASSUME ControlInv, BuffersAreDisjoint, LocalInv, LinkInv, NEW t \in Threads, CopyOverflow(t)
  PROVE  LinkInv'
<1> DEFINE mine(i) == {r \in regions[t] : i - r.offset \in DOMAIN r.buffer}
           value(i) == IF mine(i) = {} THEN overflow[i]
                       ELSE LET r == CHOOSE r \in mine(i) : TRUE IN r.buffer[i - r.offset]
<1>1. /\ pc[t] = "copy" /\ pc' = [pc EXCEPT ![t] = "counts"]
      /\ overflow' = [i \in DOMAIN overflow |-> value(i)]
      /\ UNCHANGED <<rows, local, regions, shared>>
  BY DEF CopyOverflow, GoTo, partitionedVars
<1>2. overflow # Unallocated /\ DOMAIN overflow = 0..Len(rows) /\ Len(rows) \in Nat /\ pc \in [Threads -> Steps]
  BY <1>1 DEF LinkInv, Copying, BuffersAreDisjoint, Offset, ControlInv, ControlTypeOK
<1>3. \A i \in 0..Len(rows) : overflow'[i] = value(i)
  BY <1>1, <1>2
<1> HIDE DEF value, mine
<1>4. ASSUME NEW i \in 0..Len(rows), mine(i) = {} PROVE overflow'[i] = overflow[i]
  BY <1>3, <1>4 DEF value
<1>5. ASSUME NEW r \in regions[t], NEW n \in DOMAIN r.buffer PROVE overflow'[r.offset + n] = r.buffer[n]
  <2>0. PICK i : i = r.offset + n
    OBVIOUS
  <2>1. DOMAIN r.buffer = 1..Len(r.buffer) /\ r.offset \in Nat /\ Len(r.buffer) \in Nat
    BY DEF LocalInv, ControlInv, ControlTypeOK
  <2>2. i \in Int /\ i - r.offset = n
    BY <2>0, <2>1
  <2>3. i \in 1..Len(rows)
    BY <2>2, RegionsApart
  <2>4. mine(i) = {r}
    <3>1. r \in mine(i)
      BY <2>2 DEF mine
    <3>2. ASSUME NEW s \in mine(i) PROVE s = r
      BY <2>2, <3>2, RegionsApart DEF mine
    <3> QED BY <3>1, <3>2
  <2>5. value(i) = r.buffer[n]
    <3>1. mine(i) # {} /\ (CHOOSE s \in mine(i) : TRUE) = r
      BY <2>4
    <3> QED BY <2>2, <3>1 DEF value
  <2>6. i \in 0..Len(rows)
    BY <1>2, <2>3
  <2> QED BY <1>3, <2>0, <2>5, <2>6
<1>6. ASSUME NEW u \in Threads, u # t, NEW r \in regions[u], NEW n \in DOMAIN r.buffer
      PROVE  overflow'[r.offset + n] = overflow[r.offset + n]
  <2>0. PICK i : i = r.offset + n
    OBVIOUS
  <2>1. DOMAIN r.buffer = 1..Len(r.buffer) /\ r.offset \in Nat /\ Len(r.buffer) \in Nat
    BY DEF LocalInv, ControlInv, ControlTypeOK
  <2>2. i \in Int /\ i - r.offset = n
    BY <2>0, <2>1
  <2>3. i \in 1..Len(rows)
    BY <2>2, RegionsApart
  <2>4. mine(i) = {}
    <3> SUFFICES ASSUME NEW s \in mine(i) PROVE FALSE
      OBVIOUS
    <3> QED BY <1>6, <2>2, RegionsApart DEF mine
  <2>5. i \in 0..Len(rows)
    BY <1>2, <2>3
  <2> QED BY <1>4, <2>0, <2>4, <2>5
<1>7. overflow'[0] = 0 /\ overflow' # Unallocated
  <2>1. mine(0) = {}
    <3> SUFFICES ASSUME NEW s \in mine(0) PROVE FALSE
      OBVIOUS
    <3>1. s \in regions[t] /\ 0 - s.offset \in DOMAIN s.buffer /\ 0 \in Int
      BY DEF mine
    <3> QED BY <3>1, RegionsApart
  <2>2. 0 \in 0..Len(rows)
    BY <1>2
  <2>3. 0 \in DOMAIN overflow'
    BY <1>1, <1>2, <2>2
  <2> QED BY <1>2, <1>4, <2>1, <2>2, <2>3 DEF LinkInv, Unallocated
<1>8. \A u \in Threads : pc[u] \notin AfterMerge
  <2> SUFFICES ASSUME NEW u \in Threads, pc[u] \in AfterMerge PROVE FALSE
    OBVIOUS
  <2>1. t \in arrived[1]
    BY DEF ControlInv, PhaseInv
  <2> QED BY <1>1, <2>1 DEF ControlInv, PhaseInv, AfterMerge, PastMerge
<1>9. \A u \in Threads : pc'[u] = IF u = t THEN "counts" ELSE pc[u]
  BY <1>1, <1>2
<1>10. \A u \in Threads : pc'[u] \notin AfterMerge
  BY <1>8, <1>9 DEF AfterMerge, PastMerge
<1>11. Merged = {} /\ Merged' = {}
  BY <1>8, <1>10 DEF Merged
<1>12. \A i : ~Linked(i)
  BY <1>11 DEF Linked
<1>13. ASSUME NEW u \in Threads, pc'[u] \in Copied, NEW r \in regions'[u], NEW n \in DOMAIN r.buffer
       PROVE  overflow'[r.offset + n] = r.buffer[n]
  <2>1. CASE u = t
    BY <1>1, <1>5, <1>13, <2>1
  <2>2. CASE u # t
    <3>1. overflow[r.offset + n] = r.buffer[n]
      BY <1>1, <1>9, <1>12, <1>13, <2>2 DEF LinkInv
    <3> QED BY <1>1, <1>6, <1>13, <2>2, <3>1
  <2> QED BY <2>1, <2>2
<1> QED BY <1>7, <1>11, <1>13 DEF LinkInv

\* The links of ends that are merged: of all the hashes, each end gets its own.
LEMMA MergeKeepsLinks ==
  ASSUME ControlInv, BuffersAreDisjoint, LocalInv, LinkInv, NEW t \in Threads, Merge(t)
  PROVE  LinkInv'
<1> DEFINE links == UNION {ChainLinks(hash) : hash \in MergedHashes(t)}
           here(i) == {l \in links : l.at = i}
           value(i) == IF here(i) = {} THEN overflow[i] ELSE (CHOOSE l \in here(i) : TRUE).to
<1>1. /\ pc[t] = "merge" /\ pc' = [pc EXCEPT ![t] = "claim"]
      /\ overflow' = [i \in DOMAIN overflow |-> value(i)]
      /\ UNCHANGED <<rows, local, regions, shared>>
  BY DEF Merge, GoTo
<1>2. overflow # Unallocated /\ DOMAIN overflow = 0..Len(rows) /\ Len(rows) \in Nat /\ pc \in [Threads -> Steps]
  BY <1>1 DEF LinkInv, Copying, Copied, BuffersAreDisjoint, Offset, ControlInv, ControlTypeOK
<1>3. \A i \in 0..Len(rows) : overflow'[i] = value(i)
  BY <1>1, <1>2
<1>4. \A l : l \in links <=> \E hash \in MergedHashes(t) : \E n \in Joined(hash) :
                              l = [at |-> Chain(hash, n).tail, to |-> Chain(hash, Earlier(hash, n)).head]
  BY DEF ChainLinks, Joined, Earlier
<1> HIDE DEF links, value
<1>5. ASSUME NEW hash, NEW n \in Joined(hash), NEW other, NEW m \in Joined(other),
             Chain(hash, n).tail = Chain(other, m).tail
      PROVE  hash = other /\ n = m
  <2>1. n \in Sources(hash) /\ m \in Sources(other)
    BY DEF Joined
  <2> QED BY <1>5, <2>1, TailsApart
<1>6. ASSUME NEW hash, NEW n \in Joined(hash) PROVE Chain(hash, n).tail \in 1..Len(rows)
  <2>1. n \in Sources(hash)
    BY DEF Joined
  <2> QED BY <2>1, TailsApart
<1>7. ASSUME NEW hash \in MergedHashes(t), NEW n \in Joined(hash)
      PROVE  overflow'[Chain(hash, n).tail] = Chain(hash, Earlier(hash, n)).head
  <2>1. PICK l : l = [at |-> Chain(hash, n).tail, to |-> Chain(hash, Earlier(hash, n)).head]
    OBVIOUS
  <2>2. PICK i : i = Chain(hash, n).tail
    OBVIOUS
  <2>3. l \in here(i)
    BY <1>4, <2>1, <2>2
  <2>4. ASSUME NEW k \in here(i) PROVE k = l
    <3>1. k \in links /\ k.at = i
      BY <2>4
    <3>2. PICK other \in MergedHashes(t) : \E m \in Joined(other) :
                 k = [at |-> Chain(other, m).tail, to |-> Chain(other, Earlier(other, m)).head]
      BY <1>4, <3>1
    <3>3. PICK m \in Joined(other) : k = [at |-> Chain(other, m).tail, to |-> Chain(other, Earlier(other, m)).head]
      BY <3>2
    <3>4. Chain(hash, n).tail = Chain(other, m).tail
      BY <2>2, <3>1, <3>3
    <3>5. hash = other /\ n = m
      BY <1>5, <3>4
    <3> QED BY <2>1, <3>3, <3>5
  <2> HIDE DEF here
  <2>5. here(i) # {} /\ (CHOOSE k \in here(i) : TRUE) = l
    BY <2>3, <2>4
  <2>6. i \in 0..Len(rows)
    BY <1>2, <1>6, <2>2
  <2>7. overflow'[i] = l.to
    BY <1>3, <2>5, <2>6 DEF value
  <2> QED BY <2>1, <2>2, <2>7
<1>8. ASSUME NEW i \in 0..Len(rows), \A hash \in MergedHashes(t) : \A n \in Joined(hash) : i # Chain(hash, n).tail
      PROVE  overflow'[i] = overflow[i]
  <2>1. here(i) = {}
    BY <1>4, <1>8
  <2> HIDE DEF here
  <2> QED BY <1>3, <2>1 DEF value
<1> HIDE DEF here
<1>9. overflow'[0] = 0 /\ overflow' # Unallocated
  <2>1. 0 \in 0..Len(rows)
    BY <1>2
  <2>2. \A hash \in MergedHashes(t) : \A n \in Joined(hash) : 0 # Chain(hash, n).tail
    BY <1>6
  <2>3. 0 \in DOMAIN overflow'
    BY <1>1, <1>2, <2>1
  <2> QED BY <1>2, <1>8, <2>1, <2>2, <2>3 DEF LinkInv, Unallocated
<1>10. \A u \in Threads : pc'[u] = IF u = t THEN "claim" ELSE pc[u]
  BY <1>1, <1>2
<1>11. \A hash : hash \in Merged' <=> hash \in Merged \/ hash \in MergedHashes(t)
  <2>1. \A u : MergedHashes(u)' = MergedHashes(u)
    BY <1>1 DEF MergedHashes
  <2>2. \A u \in Threads : pc'[u] \in AfterMerge <=> pc[u] \in AfterMerge \/ u = t
    BY <1>1, <1>10 DEF AfterMerge, PastMerge
  <2>3. \A hash : hash \in Merged' <=> \E u \in Threads : pc'[u] \in AfterMerge /\ hash \in MergedHashes(u)'
    BY DEF Merged
  <2>4. \A hash : hash \in Merged <=> \E u \in Threads : pc[u] \in AfterMerge /\ hash \in MergedHashes(u)
    BY DEF Merged
  <2> QED BY <2>1, <2>2, <2>3, <2>4
<1>12. ASSUME NEW hash PROVE Sources(hash)' = Sources(hash) /\ Joined(hash)' = Joined(hash)
  BY <1>1 DEF Sources, Joined
<1>13. ASSUME NEW hash, NEW n PROVE Chain(hash, n)' = Chain(hash, n) /\ Earlier(hash, n)' = Earlier(hash, n)
  BY <1>1, <1>12 DEF Chain, Earlier
<1>14. ASSUME NEW u \in Threads, pc'[u] \in Copied, NEW r \in regions'[u], NEW n \in DOMAIN r.buffer,
              ~Linked(r.offset + n)'
       PROVE  overflow'[r.offset + n] = r.buffer[n]
  <2>0. PICK i : i = r.offset + n
    OBVIOUS
  <2>1. ~Linked(i)'
    BY <1>1, <1>14, <2>0 DEF Linked
  <2>2. \A hash \in Merged' : \A n_1 \in Joined(hash)' : i # Chain(hash, n_1)'.tail
    BY <2>1 DEF Linked
  <2>3. ASSUME NEW hash, hash \in Merged \/ hash \in MergedHashes(t), NEW m \in Joined(hash) PROVE i # Chain(hash, m).tail
    BY <1>11, <1>12, <1>13, <2>2, <2>3
  <2>4. ~Linked(i)
    BY <2>3 DEF Linked
  <2>5. r \in regions[u] /\ pc[u] \in Copied
    BY <1>1, <1>10, <1>14 DEF Copied
  <2>6. overflow[i] = r.buffer[n]
    BY <1>14, <2>0, <2>4, <2>5 DEF LinkInv
  <2>7. i \in 0..Len(rows)
    <3>1. DOMAIN r.buffer = 1..Len(r.buffer) /\ r.offset \in Nat /\ Len(r.buffer) \in Nat
      BY <2>5 DEF LocalInv, ControlInv, ControlTypeOK
    <3>2. i \in Int /\ i - r.offset = n
      BY <1>14, <2>0, <3>1
    <3>3. i \in 1..Len(rows)
      BY <1>14, <2>5, <3>2, RegionsApart
    <3> QED BY <1>2, <3>3
  <2>8. overflow'[i] = overflow[i]
    BY <1>8, <2>3, <2>7
  <2> QED BY <2>0, <2>6, <2>8
<1>15. ASSUME NEW hash \in Merged', NEW n \in Joined(hash)'
       PROVE  overflow'[Chain(hash, n)'.tail] = Chain(hash, Earlier(hash, n))'.head
  <2>1. Chain(hash, Earlier(hash, n))' = Chain(hash, Earlier(hash, n)) /\ n \in Joined(hash)
    BY <1>1, <1>12, <1>13, <1>15 DEF Chain
  <2>2. overflow'[Chain(hash, n).tail] = Chain(hash, Earlier(hash, n)).head
    <3>1. CASE hash \in MergedHashes(t)
      BY <1>7, <2>1, <3>1
    <3>2. CASE hash \notin MergedHashes(t)
      <4>1. overflow[Chain(hash, n).tail] = Chain(hash, Earlier(hash, n)).head
        BY <1>11, <1>15, <2>1, <3>2 DEF LinkInv
      <4>2. PICK i : i = Chain(hash, n).tail
        OBVIOUS
      <4>3. ASSUME NEW other \in MergedHashes(t), NEW m \in Joined(other) PROVE i # Chain(other, m).tail
        BY <1>5, <2>1, <3>2, <4>2, <4>3
      <4>4. i \in 0..Len(rows)
        BY <1>2, <1>6, <2>1, <4>2
      <4>5. overflow'[i] = overflow[i]
        BY <1>8, <4>3, <4>4
      <4> QED BY <4>1, <4>2, <4>5
    <3> QED BY <3>1, <3>2
  <2>3. Chain(hash, n)' = Chain(hash, n)
    BY <1>13
  <2> QED BY <2>1, <2>2, <2>3
<1> QED BY <1>9, <1>14, <1>15 DEF LinkInv


LEMMA LinkStep ==
  ASSUME ControlInv, BuffersAreDisjoint, LocalInv, LinkInv, [ConcurrentNext]_concurrentVars
  PROVE  LinkInv'
<1>0. pc \in [Threads -> Steps] /\ \A u \in Threads : pc[u] \in Copying => overflow # Unallocated
  BY DEF ControlInv, ControlTypeOK, LinkInv
<1> USE DEF GoTo
<1>1. CASE UNCHANGED concurrentVars
  <2>1. UNCHANGED <<pc, local, regions, shared, overflow>>
    BY <1>1 DEF concurrentVars, builderVars, partitionedVars
  <2> QED BY <1>0, <2>1, LinksStay
<1>2. ASSUME NEW t \in Threads, ConcurrentStep(t) PROVE LinkInv'
  <2> DEFINE Same == /\ UNCHANGED <<local, regions, shared, overflow>>
                     /\ \A u \in Threads : u # t => pc'[u] = pc[u]
                     /\ pc'[t] \in AfterMerge <=> pc[t] \in AfterMerge
                     /\ pc'[t] \in Copied => pc[t] \in Copied
                     /\ pc'[t] \in Copying => overflow # Unallocated
  <2>1. ASSUME Same PROVE LinkInv'
    <3>1. /\ \A u \in Threads : pc'[u] \in AfterMerge <=> pc[u] \in AfterMerge
          /\ \A u \in Threads : pc'[u] \in Copied => pc[u] \in Copied
          /\ \A u \in Threads : pc'[u] \in Copying => overflow # Unallocated
      BY <1>0, <2>1
    <3> QED BY <2>1, <3>1, LinksStay
  <2>2. CASE AllocateBatch(t) \/ SendTables(t)
    <3>1. /\ pc[t] \in Accumulating /\ UNCHANGED overflow
          /\ pc' = [pc EXCEPT ![t] = "accumulate"] \/ pc' = [pc EXCEPT ![t] = "collect"]
      BY <2>2 DEF AllocateBatch, SendTables, Accumulating
    <3>2. t \notin ToSet(shared)
      BY <3>1 DEF ControlInv, PhaseInv
    <3>3. overflow = Unallocated /\ \A u \in Threads : pc[u] \in Accumulating \cup {"collect"}
      BY <3>2 DEF ControlInv, PhaseInv
    <3>4. \A u \in Threads : pc'[u] \in Accumulating \cup {"collect"}
      BY <1>0, <3>1, <3>3 DEF Accumulating
    <3>5. \A u \in Threads : pc'[u] \notin Copied /\ pc'[u] \notin Copying
      BY <3>4 DEF Accumulating, Copying, Copied, AfterMerge, PastMerge
    <3>6. /\ \A u \in Threads : pc'[u] \notin Copied
          /\ \A u \in Threads : pc'[u] \in Copying => overflow' # Unallocated
          /\ overflow' # Unallocated => overflow'[0] = 0
      BY <3>1, <3>3, <3>5
    <3>7. Merged' = {}
      BY <3>6 DEF Merged, Copied
    <3> QED BY <3>6, <3>7 DEF LinkInv
  <2>3. CASE AllocateOverflow(t)
    <3>1. tracker = None
      BY <2>3 DEF AllocateOverflow, ControlInv, ControlTypeOK, TrackerInv, PhaseInv, Accumulating
    <3>2. /\ overflow = Unallocated /\ pc[t] = "overflow" /\ overflow' = ZeroBuffer(Offset + 1)
          /\ pc' = [pc EXCEPT ![t] = "copy"]
      BY <2>3, <3>1 DEF AllocateOverflow
    <3>3. \A u \in Threads : pc[u] \notin Copying
      BY <3>2 DEF LinkInv
    <3>4. \A u \in Threads : pc'[u] \notin Copied
      BY <1>0, <3>2, <3>3 DEF Copying, Copied, AfterMerge, PastMerge
    <3>5. overflow'[0] = 0 /\ overflow' # Unallocated
      <4>1. Offset \in Nat /\ 0 \in 0..(Offset + 1) - 1
        BY DEF Offset, ControlInv, ControlTypeOK
      <4>2. 0 \in DOMAIN overflow'
        BY <3>2, <4>1 DEF ZeroBuffer
      <4> QED BY <3>2, <4>1, <4>2 DEF ZeroBuffer, Unallocated
    <3>6. Merged' = {}
      BY <3>4 DEF Merged, Copied
    <3> QED BY <3>4, <3>5, <3>6 DEF LinkInv
  <2>4. CASE CopyOverflow(t)
    BY <2>4, CopyKeepsLinks
  <2>5. CASE Merge(t)
    BY <2>5, MergeKeepsLinks
  <2> USE DEF Copying, Copied, AfterMerge, PastMerge, partitionedVars
  <2>6. CASE LockTracker(t) \/ CollectTables(t) \/ ReceiveOverflow(t)
    BY <1>0, <2>1, <2>6 DEF LockTracker, CollectTables, ReceiveOverflow
  <2>7. CASE AllocateCounts(t) \/ ReceiveCounts(t) \/ ArriveCopied(t) \/ ArriveMerged(t)
    BY <1>0, <2>1, <2>7 DEF AllocateCounts, ReceiveCounts, ArriveCopied, Arrive, ArriveMerged
  <2>8. CASE LockSenders(t) \/ MissSenders(t) \/ TakeSenders(t) \/ AllocateDestination(t) \/ ReceiveDestination(t)
    BY <1>0, <2>1, <2>8 DEF LockSenders, MissSenders, TakeSenders, AllocateDestination, ReceiveDestination
  <2>9. CASE PlanWrites(t) \/ PanicFewCounters(t) \/ Return(t)
    BY <1>0, <2>1, <2>9 DEF PlanWrites, PanicFewCounters, Return
  <2>10. CASE WriteCell(t)
    BY <1>0, <2>1, <2>10 DEF WriteCell
  <2> QED BY <1>2, <2>2, <2>3, <2>4, <2>5, <2>6, <2>7, <2>8, <2>9, <2>10 DEF ConcurrentStep
<1> QED BY <1>1, <1>2 DEF ConcurrentNext

\* What copy_local_overflows and merge_partition write without a lock loses no link:
\* every row still leads to the one before it of its thread and hash, and the first
\* row of a thread to the last of the thread merged before.
THEOREM LinkInvariant == ASSUME FewHashes PROVE ConcurrentSpec => []LinkInv
<1>1. ControlInv /\ BuffersAreDisjoint /\ LocalInv /\ LinkInv /\ [ConcurrentNext]_concurrentVars => LinkInv'
  BY LinkStep
<1> QED BY <1>1, LinkInit, LocalInvariant, ControlInvariant, BuffersDisjoint, PTL DEF ConcurrentSpec

\* The rows of a hash, and which of the tables sent has one of them.
AllOf(hash) == {i \in 1..Len(rows) : rows[i] = hash}
Within(hash, i, n) == n \in Sources(hash) /\ i \in Mine(shared[n], hash)

LEMMA OneTableEach ==
  ASSUME ControlInv, CountsInv, BuffersAreDisjoint, LocalInv, ToSet(shared) = Threads, NEW hash, NEW i \in AllOf(hash)
  PROVE  \E n : Within(hash, i, n) /\ \A m : Within(hash, i, m) => m = n
<1>1. i \in 1..Len(rows) /\ rows[i] = hash
  BY DEF AllOf
<1>2. PICK t \in Threads : i \in RowsOf(t)
  BY <1>1 DEF LocalInv
<1>3. hash \in Hashes
  BY <1>1 DEF ControlInv, ControlTypeOK
<1>4. i \in Mine(t, hash)
  BY <1>1, <1>2 DEF Mine
<1>5. hash \in DOMAIN local[t]
  BY <1>3, <1>4 DEF LocalInv
<1>6. PICK n \in DOMAIN shared : shared[n] = t
  BY DEF ToSet
<1>7. Within(hash, i, n)
  BY <1>4, <1>5, <1>6 DEF Within, Sources
<1>8. ASSUME NEW m, Within(hash, i, m) PROVE m = n
  <2>1. m \in DOMAIN shared /\ shared[m] \in Threads /\ i \in RowsOf(shared[m])
    BY <1>8, ChainIs DEF Within, Mine
  <2>2. shared[m] = t
    BY <1>2, <2>1, RowsApart
  <2> QED BY <1>6, <2>1, <2>2 DEF LocalInv
<1> QED BY <1>7, <1>8

\* What a row is linked to once all have merged: the row before it in its table, or
\* from the end of a table's chain the head of the one merged before.
LEMMA LinksAre ==
  ASSUME FewHashes, ControlInv, CountsInv, BuffersAreDisjoint, LocalInv, LinkInv, arrived[2] = Threads,
         NEW hash \in Seen, NEW i, NEW n, Within(hash, i, n)
  PROVE  \/ /\ n \in Joined(hash) /\ i = Chain(hash, n).tail
            /\ overflow[i] = Chain(hash, Earlier(hash, n)).head
         \/ /\ ~(n \in Joined(hash) /\ i = Chain(hash, n).tail)
            /\ LinkedTo(i, overflow[i], Mine(shared[n], hash))
<1>1. hash \in Merged
  BY AllMerged
<1>2. shared[n] \in Threads /\ n \in Sources(hash) /\ n \in DOMAIN shared /\ i \in Mine(shared[n], hash)
  BY ChainIs DEF Within
<1>3. pc[shared[n]] \in Copied
  BY <1>2 DEF ControlInv, PhaseInv, Copied, AfterMerge, PastMerge, AfterAllocation
<1>4. PICK t \in Threads : t = shared[n]
  BY <1>2
<1>5. i \in RowsOf(t) /\ rows[i] = hash
  BY <1>2, <1>4 DEF Mine
<1>6. PICK r \in regions[t] : i \in 1..Len(rows) /\ i - r.offset \in DOMAIN r.buffer
  BY <1>5 DEF RowsOf
<1>7. PICK m \in DOMAIN r.buffer : m = i - r.offset
  BY <1>6
<1>8. r.offset + m = i
  BY <1>6, <1>7 DEF ControlInv, ControlTypeOK
<1>9. LinkedTo(i, r.buffer[m], Mine(t, hash))
  BY <1>5, <1>8 DEF LocalInv
<1>10. CASE n \in Joined(hash) /\ i = Chain(hash, n).tail
  BY <1>1, <1>10 DEF LinkInv
<1>11. CASE ~(n \in Joined(hash) /\ i = Chain(hash, n).tail)
  <2>1. ASSUME NEW other \in Merged, NEW k \in Joined(other), i = Chain(other, k).tail PROVE FALSE
    <3>1. k \in Sources(other)
      BY DEF Joined
    <3>2. i \in Mine(shared[k], other) /\ shared[k] \in Threads /\ k \in DOMAIN shared
      BY <2>1, <3>1, ChainIs DEF Spans
    <3>3. rows[i] = other /\ i \in RowsOf(shared[k])
      BY <3>2 DEF Mine
    <3>4. shared[k] = t
      BY <1>5, <3>2, <3>3, RowsApart
    <3>5. k = n
      BY <1>2, <1>4, <3>2, <3>4 DEF LocalInv
    <3> QED BY <1>5, <1>11, <2>1, <3>3, <3>5
  <2>2. ~Linked(i)
    BY <2>1 DEF Linked
  <2>3. overflow[i] = r.buffer[m]
    BY <1>3, <1>4, <1>8, <2>2 DEF LinkInv
  <2> QED BY <1>4, <1>9, <1>11, <2>3
<1> QED BY <1>10, <1>11

\* So all rows of a hash are on one chain, table after table.
LEMMA MergedIsOrdered ==
  ASSUME FewHashes, ControlInv, CountsInv, BuffersAreDisjoint, LocalInv, LinkInv, arrived[2] = Threads,
         NEW hash \in Seen
  PROVE  \E later : Ordered(AllOf(hash), later, MergedHead(hash))
<1> DEFINE S == AllOf(hash)
           K == Sources(hash)
           head == MergedHead(hash)
<1>1. ToSet(shared) = Threads /\ 0 \in Threads
  BY ThreadsAre DEF ControlInv, PhaseInv, Accumulating, AfterAllocation
<1>2. Len(shared) \in Nat /\ DOMAIN shared = 1..Len(shared)
  BY DEF ControlInv, ControlTypeOK
<1>3. K \in SUBSET (0..Len(shared)) /\ K \in SUBSET Nat
  BY <1>2 DEF Sources
<1>4. K # {}
  <2>1. PICK t \in Threads : hash \in DOMAIN local[t]
    BY DEF Seen
  <2>2. PICK n \in DOMAIN shared : shared[n] = t
    BY <1>1 DEF ToSet
  <2> QED BY <2>1, <2>2 DEF Sources
<1>5. \A i, n : Within(hash, i, n) => /\ n \in K /\ i \in S /\ n \in Nat /\ i \in Nat
                                     /\ i \in Mine(shared[n], hash)
  BY <1>3 DEF Within, Mine, AllOf, RowsOf
<1>6. \A n \in K : Spans(Chain(hash, n), Mine(shared[n], hash)) /\ \A i \in Mine(shared[n], hash) : Within(hash, i, n)
  BY ChainIs DEF Within
<1> DEFINE at(i) == CHOOSE n : Within(hash, i, n)
<1>7. ASSUME NEW i \in S PROVE Within(hash, i, at(i)) /\ \A n : Within(hash, i, n) => n = at(i)
  BY <1>1, OneTableEach
<1> HIDE DEF at, S
<1>8. \A i \in S : at(i) \in K /\ at(i) \in Nat /\ i \in Nat /\ i \in Mine(shared[at(i)], hash)
  BY <1>5, <1>7
<1>9. \A n \in K : \A i \in Mine(shared[n], hash) : i \in S /\ at(i) = n
  BY <1>5, <1>6, <1>7
<1> DEFINE later == [i \in S |-> {j \in S : at(j) > at(i) \/ (at(j) = at(i) /\ j > i)}]
<1>10. \A i \in S : \A j : j \in later[i] <=> j \in S /\ (at(j) > at(i) \/ (at(j) = at(i) /\ j > i))
  OBVIOUS
<1> HIDE DEF later
<1>11. head \in S /\ later[head] = {}
  <2>1. Max(K) \in K /\ \A n \in K : Max(K) >= n
    BY <1>2, <1>3, <1>4, MaxIs
  <2>2. head \in Mine(shared[Max(K)], hash) /\ \A i \in Mine(shared[Max(K)], hash) : i <= head
    BY <1>6, <2>1 DEF Spans, MergedHead
  <2> HIDE DEF head, K
  <2>3. head \in S /\ at(head) = Max(K)
    BY <1>9, <2>1, <2>2
  <2>4. ASSUME NEW j \in later[head] PROVE FALSE
    <3>1. j \in S /\ (at(j) > Max(K) \/ (at(j) = Max(K) /\ j > head))
      BY <1>10, <2>3, <2>4
    <3>2. at(j) \in K /\ at(j) \in Nat /\ j \in Nat /\ head \in Nat /\ Max(K) \in Nat /\ j \in Mine(shared[at(j)], hash)
      BY <1>8, <2>3, <3>1
    <3> QED BY <2>1, <2>2, <3>1, <3>2
  <2> QED BY <2>3, <2>4
<1> HIDE DEF head
<1>12. /\ \A i \in S : i \notin later[i] /\ later[i] \subseteq S
       /\ \A i, j \in S : j \in later[i] => later[j] \subseteq later[i]
       /\ \A i, j \in S : i = j \/ i \in later[j] \/ j \in later[i]
  BY <1>8, <1>10
<1>13. ASSUME NEW i \in S
       PROVE  \/ overflow[i] = 0 /\ later[i] = S \ {i}
              \/ overflow[i] \in S /\ later[overflow[i]] = later[i] \cup {i}
  <2> DEFINE n == at(i)
             e == Chain(hash, n)
             mine == Mine(shared[n], hash)
             o == overflow[i]
  <2>1. Within(hash, i, n) /\ n \in K /\ n \in Nat /\ i \in Nat
    BY <1>7, <1>8
  <2>2. e.tail \in mine /\ e.head \in mine /\ \A j \in mine : e.tail <= j
    BY <1>6, <2>1 DEF Spans
  <2>3. \A j \in S : at(j) = n <=> j \in mine
    BY <1>8, <1>9, <2>1
  <2>4. \/ n \in Joined(hash) /\ i = e.tail /\ o = Chain(hash, Earlier(hash, n)).head
        \/ ~(n \in Joined(hash) /\ i = e.tail) /\ LinkedTo(i, o, mine)
    BY <2>1, LinksAre
  <2> HIDE DEF o
  <2>5. CASE n \in Joined(hash) /\ i = e.tail /\ o = Chain(hash, Earlier(hash, n)).head
    <3> DEFINE B == {m \in K : m < n}
               b == Max(B)
    <3>1. Min(K) \in K /\ \A m \in K : Min(K) <= m
      BY <1>3, <1>4, MinIs
    <3>2. n # Min(K)
      BY <2>5 DEF Joined
    <3>3. Min(K) \in Nat /\ Min(K) < n
      BY <1>3, <2>1, <3>1, <3>2
    <3>4. B \in SUBSET (0..Len(shared)) /\ B # {}
      BY <1>3, <3>1, <3>3
    <3>5. b \in B /\ \A m \in B : b >= m
      BY <1>2, <3>4, MaxIs
    <3>6. b = Earlier(hash, n)
      BY DEF Earlier
    <3> HIDE DEF b
    <3>7. b \in K /\ b \in Nat /\ b < n /\ \A m \in K : m <= b \/ m >= n
      BY <1>3, <2>1, <3>5
    <3>8. o \in Mine(shared[b], hash) /\ \A j \in Mine(shared[b], hash) : j <= o
      BY <1>6, <2>5, <3>6, <3>7 DEF Spans
    <3>9. o \in S /\ at(o) = b /\ o \in Nat
      BY <1>8, <1>9, <3>7, <3>8
    <3> HIDE DEF n, e, mine, K
    <3>10. ASSUME NEW j PROVE j \in later[o] <=> j \in later[i] \/ j = i
      <4>1. j \in later[o] <=> j \in S /\ (at(j) > b \/ (at(j) = b /\ j > o))
        BY <1>10, <3>9
      <4>2. j \in later[i] <=> j \in S /\ (at(j) > n \/ (at(j) = n /\ j > i))
        BY <1>10 DEF n
      <4>3. CASE j \in S
        <5>1. at(j) \in K /\ at(j) \in Nat /\ j \in Nat /\ at(i) = n
          BY <1>8, <4>3 DEF n
        <5>2. at(j) = b => j <= o
          BY <1>8, <3>8, <4>3
        <5>3. at(j) > b <=> at(j) >= n
          BY <3>7, <5>1, <2>1
        <5>4. at(j) = n => i <= j
          BY <2>2, <2>3, <2>5, <4>3
        <5> QED BY <2>1, <3>7, <3>9, <4>1, <4>2, <4>3, <5>1, <5>2, <5>3, <5>4
      <4>4. CASE j \notin S
        BY <4>1, <4>2, <4>4
      <4> QED BY <4>3, <4>4
    <3> QED BY <3>9, <3>10 DEF o
  <2>6. CASE o = 0 /\ (\A k \in mine : i <= k) /\ ~(n \in Joined(hash) /\ i = e.tail)
    <3>1. i = e.tail
      <4>1. i \in mine /\ e.tail \in Nat
        BY <1>8, <1>9, <2>1, <2>2
      <4> HIDE DEF n, e, mine
      <4> QED BY <2>1, <2>2, <2>6, <4>1
    <3>2. n = Min(K)
      BY <2>1, <2>6, <3>1 DEF Joined
    <3>3. \A m \in K : n <= m
      BY <1>3, <1>4, <3>2, MinIs
    <3> HIDE DEF n, e, mine, K
    <3>4. ASSUME NEW j \in S, j # i PROVE j \in later[i]
      <4>1. at(j) \in K /\ at(j) \in Nat /\ j \in Nat /\ at(i) = n
        BY <1>8 DEF n
      <4>2. n <= at(j)
        BY <3>3, <4>1
      <4>3. at(j) = n => i <= j
        BY <2>3, <2>6
      <4> QED BY <1>10, <2>1, <3>4, <4>1, <4>2, <4>3
    <3>5. later[i] = S \ {i}
      BY <1>12, <3>4
    <3> QED BY <2>6, <3>5 DEF o
  <2>7. CASE o \in mine /\ o < i /\ \A k \in mine : k < i => k <= o
    <3>1. o \in S /\ at(o) = n /\ o \in Nat
      BY <1>8, <1>9, <2>1, <2>7
    <3> HIDE DEF n, e, mine
    <3>2. ASSUME NEW j PROVE j \in later[o] <=> j \in later[i] \/ j = i
      <4>1. j \in later[o] <=> j \in S /\ (at(j) > n \/ (at(j) = n /\ j > o))
        BY <1>10, <3>1
      <4>2. j \in later[i] <=> j \in S /\ (at(j) > n \/ (at(j) = n /\ j > i))
        BY <1>10 DEF n
      <4>3. CASE j \in S
        <5>1. at(j) \in Nat /\ j \in Nat /\ at(i) = n
          BY <1>8, <4>3 DEF n
        <5>2. at(j) = n => (j < i => j <= o)
          BY <2>3, <2>7, <4>3
        <5> QED BY <2>1, <2>7, <3>1, <4>1, <4>2, <4>3, <5>1, <5>2
      <4>4. CASE j \notin S
        BY <4>1, <4>2, <4>4
      <4> QED BY <4>3, <4>4
    <3> QED BY <3>1, <3>2 DEF o
  <2> QED BY <2>4, <2>5, <2>6, <2>7 DEF LinkedTo
<1>14. Ordered(S, later, head)
  BY <1>11, <1>12, <1>13 DEF Ordered
<1> QED BY <1>14 DEF S, head

\* And following it from its head gives exactly these rows.
LEMMA ChainsComplete ==
  ASSUME FewHashes, ControlInv, CountsInv, BuffersAreDisjoint, LocalInv, LinkInv, arrived[2] = Threads,
         NEW hash \in Seen
  PROVE  ChainOf(MergedHead(hash)) = {i - 1 : i \in AllOf(hash)}
<1>1. PICK later : Ordered(AllOf(hash), later, MergedHead(hash))
  BY MergedIsOrdered
<1>2. rows \in Seq(Hashes) /\ Len(rows) \in Nat /\ AllOf(hash) \in SUBSET (1..Len(rows))
  BY DEF AllOf, ControlInv, ControlTypeOK
<1>3. IsFiniteSet(AllOf(hash))
  <2>1. IsFiniteSet(1..Len(rows))
    BY <1>2, IntervalSize
  <2> QED BY <1>2, <2>1, FS_Subset
<1>4. PICK n \in Nat : \E c : Strung(n, c, MergedHead(hash), AllOf(hash))
  BY <1>1, <1>3, OrderedIsStrung
<1>5. PICK c : Strung(n, c, MergedHead(hash), AllOf(hash))
  BY <1>4
<1>6. overflow[0] = 0
  <2>1. 0 \in Threads
    BY ThreadsAre
  <2>2. pc[0] \in Copying
    BY <2>1 DEF ControlInv, PhaseInv, Copying, Copied, AfterMerge, PastMerge, AfterAllocation
  <2> QED BY <2>1, <2>2 DEF LinkInv
<1> QED BY <1>2, <1>5, <1>6, ChainYields
=============================================================================
