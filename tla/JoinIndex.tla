------------------------------ MODULE JoinIndex ------------------------------
(***************************************************************************)
(* What a builder of the hash join promises (hashjoin/src/lookup.rs and    *)
(* the tests of the builders): every row of every batch gets an index of   *)
(* its own, a batch gets consecutive ones, and once the table is built the *)
(* answer for a hash is the set of the indices of its rows.                *)
(***************************************************************************)
EXTENDS Integers, Sequences

CONSTANTS
  Hashes,       \* the hashes that are looked up
  Inputs,       \* what threads may be given: [threads -> Seq(Seq(Hashes))]
  NotReady      \* the answers while the table is being built

VARIABLES
  waiting,      \* the batches of each thread that have no indices yet
  rows,         \* the hash of each index, counted from 0
  answers       \* NotReady, or what a lookup of each hash returns

vars == <<waiting, rows, answers>>
-----------------------------------------------------------------------------
Init == /\ waiting \in Inputs
        /\ rows = <<>>
        /\ answers = NotReady

PlaceBatch(t) == /\ waiting[t] # <<>>
                 /\ rows' = rows \o Head(waiting[t])
                 /\ waiting' = [waiting EXCEPT ![t] = Tail(@)]
                 /\ UNCHANGED answers

Publish == /\ \A t \in DOMAIN waiting : waiting[t] = <<>>
           /\ answers = NotReady
           /\ answers' = [hash \in Hashes |->
                            {n - 1 : n \in {n \in DOMAIN rows : rows[n] = hash}}]
           /\ UNCHANGED <<waiting, rows>>

Next == (\E t \in DOMAIN waiting : PlaceBatch(t)) \/ Publish

Spec == Init /\ [][Next]_vars
=============================================================================
