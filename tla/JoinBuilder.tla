----------------------------- MODULE JoinBuilder -----------------------------
(***************************************************************************)
(* What the builders of the hash join have in common.  Threads, each with  *)
(* batches of hashes, call `run` once each and get a lookup.  A row is     *)
(* known by an index; index 0 is kept free, so a row is stored as its      *)
(* index plus one.  The table holds one entry per hash, the row inserted   *)
(* last; `overflow` links each row to the one before it of the same hash,  *)
(* and 0 ends the chain.                                                   *)
(*                                                                         *)
(* ConcurrentBuilder and LockedBuilder add how the table is built.         *)
(***************************************************************************)
EXTENDS Integers, Sequences, FiniteSets, FiniteSetsExt, SequencesExt

CONSTANTS
  Parallelism,  \* how many threads call run
  Designs,      \* the builders considered
  Hashes,       \* the hashes: the low bits of a u64
  Inputs        \* what threads may be given: [Threads -> Seq(Seq(Hashes))]

Threads == 0..Parallelism - 1

ASSUME BuilderAssumption ==
  /\ Parallelism \in Nat \ {0}
  /\ Designs \subseteq {"partitioned", "mutex", "sharded"}
  /\ Hashes \subseteq Nat
  /\ \A input \in Inputs : input \in [Threads -> Seq(Seq(Hashes))]

VARIABLES
  design,       \* the builder under consideration
  pc,           \* where each thread is in run
  waiting,      \* the batches each thread has not taken up yet
  rows,         \* the hash of every row that has an index (the code counts them)
  overflow      \* the overflow buffer, a function on 0..n

builderVars == <<design, pc, waiting, rows, overflow>>
-----------------------------------------------------------------------------
Unallocated == <<>>
ZeroBuffer(size) == [i \in 0..size - 1 |-> 0]

\* Mutant of Offset: only new hashes advance it.
OffsetOfHashes == Cardinality(ToSet(rows))

\* GlobalIndexTracker and the length of the shared overflow buffer count alike:
\* the rows that have an index.
Offset == Len(rows)

BuilderInit(firstStep) ==
  /\ design \in Designs
  /\ pc = [t \in Threads |-> firstStep]
  /\ waiting \in Inputs
  /\ rows = <<>>

GoTo(t, step) == pc' = [pc EXCEPT ![t] = step]

\* Following `overflow` from an entry of the table; its first element stays 0, so
\* a chain that has come to its end stays there.  As many steps as there are rows
\* must do.
Followed(head) ==
  LET at[n \in 0..Len(rows)] == IF n = 0 THEN head ELSE overflow[at[n - 1]] IN at
Ends(head) == Followed(head)[Len(rows)] = 0

\* The rows of a chain; -1, which is no row, for one that goes round.
ChainOf(head) == IF Ends(head) THEN {Followed(head)[n] - 1 : n \in 0..Len(rows)} \ {-1}
                               ELSE {-1}
=============================================================================
