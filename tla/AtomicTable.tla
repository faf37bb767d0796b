----------------------------- MODULE AtomicTable -----------------------------
(***************************************************************************)
(* What WritableFixedTable of hashjoin, new_map_3, promises to the threads *)
(* that insert into it concurrently.  A hash takes a cell once and for     *)
(* all; every insert of that hash exchanges the value in one atomic step   *)
(* and hands the previous value to its caller, or nothing when that is     *)
(* V::default(); an insert is refused only when every cell is taken by     *)
(* another hash.                                                           *)
(***************************************************************************)
EXTENDS Integers, FiniteSets

CONSTANTS Threads, Rows, HashOf, Work, Capacity, Default

VARIABLES
    held,       \* the cells taken: hash -> value
    todo,       \* the rows each thread has still to insert
    returned,   \* the previous values handed to callers
    refused     \* the rows whose insert returned Err

tableVars == <<held, todo, returned, refused>>

AtomicInit ==
    /\ held = [h \in {} |-> Default]
    /\ todo = Work
    /\ returned = {}
    /\ refused = {}

\* A new hash takes a cell, which has no value yet.
Take(h) ==
    /\ h \notin DOMAIN held
    /\ Cardinality(DOMAIN held) < Capacity
    /\ held' = [x \in DOMAIN held \cup {h} |-> IF x = h THEN Default ELSE held[x]]
    /\ UNCHANGED <<todo, returned, refused>>

\* An insert of r exchanges the value of its hash.
Exchange(t, r) ==
    /\ r \in todo[t]
    /\ HashOf[r] \in DOMAIN held
    /\ held' = [held EXCEPT ![HashOf[r]] = r]
    /\ todo' = [todo EXCEPT ![t] = @ \ {r}]
    /\ returned' = returned \cup ({held[HashOf[r]]} \ {Default})
    /\ UNCHANGED refused

\* An insert of r finds no room.
Refuse(t, r) ==
    /\ r \in todo[t]
    /\ HashOf[r] \notin DOMAIN held
    /\ Cardinality(DOMAIN held) = Capacity
    /\ todo' = [todo EXCEPT ![t] = @ \ {r}]
    /\ refused' = refused \cup {r}
    /\ UNCHANGED <<held, returned>>

AtomicNext ==
    \/ \E t \in Threads : \E r \in todo[t] : Take(HashOf[r]) \/ Exchange(t, r) \/ Refuse(t, r)

AtomicSpec == AtomicInit /\ [][AtomicNext]_tableVars

==============================================================================
