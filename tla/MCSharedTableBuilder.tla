------------------------- MODULE MCSharedTableBuilder -------------------------
(* Three handles of the build table, four rows, two of them with one hash.     *)
EXTENDS SharedTableBuilder

CONSTANTS original, t1, t2, t3, r1, r2, r3, r4

MCHashOf == [r \in Rows |-> CASE r = r1 -> 1 [] r = r2 -> 2 [] r = r3 -> 3 [] r = r4 -> 1]
MCWork == [t \in Threads |-> CASE t = t1 -> {r1, r2} [] t = t2 -> {r3} [] t = t3 -> {r4}]
==============================================================================
