--------------------------- MODULE MCCrowdedBuilder ---------------------------
(***************************************************************************)
(* Two threads with several hashes that start their probe at one place.    *)
(* Width = 4 and Lanes = 2 stand for the 16 bytes of an SSE2 group, of     *)
(* which the builder fills 8, so that 8 buckets stand for 32 of the code.  *)
(***************************************************************************)
EXTENDS JoinBuilders

Two(a, b) == [t \in Threads |-> IF t = 0 THEN a ELSE b]

\* In 16 buckets, four hashes of thread 0 start at bucket 0 and one at bucket 4;
\* two of thread 1 start at bucket 11.
CrowdedInputs == {Two(<<<<4, 0, 16, 32, 48>>>>, <<<<1, 11, 27>>>>)}

\* Three hashes start at bucket 0.
OneGroupInputs == {Two(<<<<0, 8, 16>>>>, <<<<1>>>>)}
==============================================================================
