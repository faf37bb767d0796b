----------------------------- MODULE MCFixedTable -----------------------------
(* Three threads and a table of two groups of two cells.  The groups of a start  *)
(* at the last cell and run into the mirrored tags; b has the tag of a.          *)
EXTENDS FixedTable

CONSTANTS t1, t2, t3, a1, a2, b1, c1, d1, e1

MCHashes == {"a", "b", "c", "d", "e"}
MCTagOf == [h \in MCHashes |-> IF h \in {"a", "b"} THEN 1 ELSE 2]
MCStartOf == [h \in MCHashes |-> CASE h \in {"a", "c"} -> 3 [] h \in {"b", "d"} -> 0 [] h = "e" -> 2]
MCHashOf == [r \in Rows |-> CASE r \in {a1, a2} -> "a" [] r = b1 -> "b" [] r = c1 -> "c"
                              [] r = d1 -> "d" [] r = e1 -> "e"]
MCWork == [t \in Threads |-> CASE t = t1 -> {a1, b1} [] t = t2 -> {a2, c1} [] t = t3 -> {d1, e1}]
==============================================================================
