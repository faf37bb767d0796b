---------------------------- MODULE JoinBuilders ----------------------------
(***************************************************************************)
(* All builders of the hash join, and that each of them implements         *)
(* JoinIndex.  `design` says which one runs; the variables of the others   *)
(* keep their initial values.                                              *)
(***************************************************************************)
EXTENDS ConcurrentBuilder, LockedBuilder

CONSTANT NotReady   \* the answers while the table is being built

allVars == <<builderVars, partitionedVars, lockedVars>>

Init == \/ /\ ConcurrentInit /\ design = "partitioned"
           /\ heads = <<>> /\ batch = <<>> /\ holders = {} /\ published = FALSE
        \/ /\ LockedInit /\ design # "partitioned"
           /\ tracker = None /\ local = <<>> /\ regions = <<>> /\ shared = <<>>
           /\ claimant = None /\ counts = Unallocated /\ arrived = <<{}, {}>>
           /\ table = Unallocated /\ plan = <<>> /\ writers = Unallocated

\* One thread goes on.
Step(t) == \/ design = "partitioned" /\ ConcurrentStep(t) /\ UNCHANGED lockedVars
           \/ design # "partitioned" /\ LockedStep(t) /\ UNCHANGED partitionedVars

Next == \E t \in Threads : Step(t)

\* As long as some task can go on, the runtime polls one that can.
Spec == Init /\ [][Next]_allVars /\ WF_allVars(Next)
-----------------------------------------------------------------------------
\* The lookup may be used when every call of run has returned.
Answers ==
  IF \E t \in Threads : pc[t] # "done" THEN NotReady
  ELSE [hash \in Hashes |-> IF design = "partitioned" THEN LookedUp(hash)
                                                      ELSE LockedLookedUp(hash)]

\* Every builder gives each row an index once and its lookup, once all calls
\* have returned, answers with exactly the rows of the hash: the offsets handed
\* out do not overlap, no link of a chain is lost or overwritten, whatever the
\* order of copying, merging and publishing, and no row's cell is passed over.
Index == INSTANCE JoinIndex WITH answers <- Answers
ImplementsJoinIndex == Index!Spec

\* Every call of run ends: the last message and the last arrival come for all
\* who wait, and everybody finds a free cell for every row.
EveryRunEnds == <>(\A t \in Threads : pc[t] \in {"done"} \cup Panicked)
=============================================================================
