----------------------------- MODULE ElementBag -----------------------------
(***************************************************************************)
(* What a hashbrown raw table promises to the maps and sets built on it:   *)
(* it is a bag of elements.  Two elements are told apart only by hash, so  *)
(* the bag counts the elements of each hash.  Growing, shrinking and       *)
(* rehashing are invisible, except that a panic of the caller's hash       *)
(* function may cost elements.                                             *)
(***************************************************************************)
EXTENDS Integers

CONSTANT Hashes

VARIABLES elements,     \* how many elements of each hash the table holds
          panics        \* TRUE: the caller's hash function may panic

NoElements == [hash \in Hashes |-> 0]

Init == /\ elements = NoElements
        /\ panics \in BOOLEAN

Add(hash) == elements' = [elements EXCEPT ![hash] = @ + 1]

Take(hash) == /\ elements[hash] > 0
              /\ elements' = [elements EXCEPT ![hash] = @ - 1]

Clear == elements' = NoElements

\* A hash function that panics while elements are being moved takes some of
\* them with it; it never adds or duplicates one.
Lose == /\ panics
        /\ elements' \in [Hashes -> Nat]
        /\ \A hash \in Hashes : elements'[hash] <= elements[hash]

Next == /\ \/ \E hash \in Hashes : Add(hash) \/ Take(hash)
           \/ Clear
           \/ Lose
        /\ UNCHANGED panics

Spec == Init /\ [][Next]_<<elements, panics>>
=============================================================================
