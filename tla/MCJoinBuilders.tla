---------------------------- MODULE MCJoinBuilders ----------------------------
(***************************************************************************)
(* Three threads on a few inputs.                                          *)
(***************************************************************************)
EXTENDS JoinBuilders

Three(a, b, c) == [t \in Threads |-> CASE t = 0 -> a [] t = 1 -> b [] t = 2 -> c]

\* One hash in the batches of all threads, next to others of every partition; two
\* partitions with hashes that start their probe at one place; too few hashes; none.
SmallInputs == {Three(<<<<0, 2, 0>>>>, <<<<1, 0>>>>, <<<<0, 3>>>>),
                Three(<<<<0>>, <<1, 0>>>>, <<<<8, 4>>>>, <<>>),
                Three(<<<<1>>>>, <<<<1>>>>, <<<<2>>>>),
                Three(<<>>, <<>>, <<>>)}

\* What the proof that no two threads write one bucket asks of the inputs.
ASSUME InputsAreUncrowded == UncrowdedInputs
==============================================================================
