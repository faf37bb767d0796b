---------------------------- MODULE MCPartialSource ----------------------------
(* Five rows of different hashes in groups of two cells: the current table is   *)
(* replaced by the compaction while it still has an empty cell.                 *)
EXTENDS SharedTableBuilder

CONSTANTS t1, t2, r1, r2, r3, r4, r5

MCHashOf == [r \in Rows |-> CASE r = r1 -> 1 [] r = r2 -> 2 [] r = r3 -> 3
                              [] r = r4 -> 4 [] r = r5 -> 5]
MCWork == [t \in Threads |-> CASE t = t1 -> {r1, r2, r3} [] t = t2 -> {r4, r5}]
==============================================================================
