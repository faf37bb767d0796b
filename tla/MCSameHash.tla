------------------------------ MODULE MCSameHash ------------------------------
(* Two threads insert one row each, of the same hash.                           *)
EXTENDS FixedTable

CONSTANTS t1, t2, a1, a2

MCHashes == {"a"}
MCTagOf == [h \in MCHashes |-> 1]
MCStartOf == [h \in MCHashes |-> 3]
MCHashOf == [r \in Rows |-> "a"]
MCWork == [t \in Threads |-> IF t = t1 THEN {a1} ELSE {a2}]
==============================================================================
