----------------------------- MODULE TableCalls -----------------------------
(***************************************************************************)
(* Calls on a raw table that run code of the caller half way: loops over   *)
(* its elements that erase some of them (retain, extract_if), drain,       *)
(* clone, replace_bucket_with, and an entry that was vacated and may be    *)
(* filled again.  While one is under way the table cannot be used by       *)
(* anything else, but what the call remembers of it can go stale: the      *)
(* group of control bytes an iterator has read, how many elements are left *)
(* to it, the byte a bucket had.  The caller's code may also panic, or     *)
(* never come back to a drain that it forgets.                             *)
(***************************************************************************)
EXTENDS RawTable

VARIABLE call     \* what is under way, a record with a kind

callVars == <<vars, call>>

NoCall == [kind |-> "none"]
-----------------------------------------------------------------------------
\* RawIter: the full buckets of the group read last that it has not returned, the
\* next group to read and the number of elements to come.
FullIn(t, c) == {c + k : k \in {k \in Offsets : IsFull(t.ctrl[c + k])}}
IterOf(t) == [group |-> FullIn(t, 0), next |-> Width, items |-> t.items]

\* The groups that can still be read, up to the one past the last bucket.
GroupsAhead(iter, t) ==
  {c \in iter.next..t.buckets : (c - iter.next) % Width = 0 /\ FullIn(t, c) # {}}

\* Mutant of AtGroup: next_ctrl stays where it is, so a group is read twice.
AtGroupAgain(iter, t) ==
  IF iter.group # {} THEN iter
  ELSE LET c == Min(GroupsAhead(iter, t))
       IN [iter EXCEPT !.group = FullIn(t, c), !.next = c]

\* next_impl: on to a group with a full bucket, without a check for the end.
AtGroup(iter, t) ==
  IF iter.group # {} THEN iter
  ELSE LET c == Min(GroupsAhead(iter, t))
       IN [iter EXCEPT !.group = FullIn(t, c), !.next = c + Width]
Yielded(iter, t) == Min(AtGroup(iter, t).group)
Advanced(iter, t) == [AtGroup(iter, t) EXCEPT !.group = @ \ {Min(@)}, !.items = @ - 1]
HasNext(iter, t) == iter.items > 0 /\ (iter.group # {} \/ GroupsAhead(iter, t) # {})

\* RawIterHash: window after window up to one with an EMPTY byte, the places in it
\* whose byte is the tag of the hash, and the bucket each stands for.
WindowsOf(t, hash) ==
  {n \in Probes(t) : \A m \in 0..n - 1 : EmptyAt(t, Position(t, hash, m)) = {}}
HashIterReturns(t, hash) ==
  {place \in WindowsOf(t, hash) \X Offsets :
     t.ctrl[Position(t, hash, place[1]) + place[2]] = Tag(hash)}
BucketAt(t, hash, place) == (Position(t, hash, place[1]) + place[2]) % t.buckets
-----------------------------------------------------------------------------
\* Nothing else uses the table while a call is under way.
Begin(c, t) == /\ ~rehashing /\ call = NoCall
               /\ call' = c /\ table' = t
               /\ UNCHANGED <<build, rehashing, pending>>
Go(kind, c, t) == /\ call.kind = kind
                  /\ call' = c /\ table' = t
                  /\ UNCHANGED <<build, rehashing, pending>>

\* `unseen` are the buckets whose element is still to come.
Passing(c, t) == [c EXCEPT !.iter = Advanced(@, t), !.unseen = @ \ {Yielded(c.iter, t)}]

\* iter, retain and extract_if: the caller keeps each element or has it erased, and
\* may stop or panic after any of them.
BeginIteration ==
  /\ table.items > 0
  /\ Begin([kind |-> "iterate", iter |-> IterOf(table), unseen |-> FullBuckets(table)], table)
Keep == /\ call.kind = "iterate" /\ HasNext(call.iter, table)
        /\ Go("iterate", Passing(call, table), table)
EraseYielded == /\ call.kind = "iterate" /\ HasNext(call.iter, table)
                /\ Go("iterate", Passing(call, table), Erased(table, Yielded(call.iter, table)))
EndIteration == Go("iterate", NoCall, table)

\* drain moves the table into the iterator and leaves the empty singleton.
BeginDrain ==
  /\ table.items > 0
  /\ Begin([kind |-> "drain", moved |-> table, iter |-> IterOf(table),
            unseen |-> FullBuckets(table)], Singleton)
Drain == /\ call.kind = "drain" /\ HasNext(call.iter, call.moved)
         /\ Go("drain", Passing(call, call.moved), table)
\* Its drop clears the table and moves it back.
DropDrain == /\ call.kind = "drain"
             /\ Go("drain", NoCall, EmptyTable(call.moved.buckets))
\* It is forgotten, or the drop of an element panics.
ForgetDrain == Go("drain", NoCall, table)

\* clone copies the control bytes, then the elements; `index` is where the guard
\* that drops them again would stop.
BeginClone ==
  /\ table.items > 0
  /\ Begin([kind |-> "clone", cloned |-> {}, index |-> 0, iter |-> IterOf(table),
            unseen |-> FullBuckets(table)], table)
\* Mutant of CloneElement: the guard's index is that of the last element cloned.
CloneElementIndex ==
  /\ call.kind = "clone" /\ HasNext(call.iter, table)
  /\ LET i == Yielded(call.iter, table)
     IN Go("clone", [Passing(call, table) EXCEPT !.cloned = @ \cup {i}, !.index = i], table)
CloneElement ==
  /\ call.kind = "clone" /\ HasNext(call.iter, table)
  /\ LET i == Yielded(call.iter, table)
     IN Go("clone", [Passing(call, table) EXCEPT !.cloned = @ \cup {i}, !.index = i + 1], table)
FinishClone == /\ call.kind = "clone" /\ call.iter.items = 0
               /\ Go("clone", NoCall, table)
\* The source is as it was; the destination of clone_from has been cleared.
ClonePanics == /\ call.kind = "clone" /\ call.iter.items > 0
               /\ \E t \in {table, EmptyTable(table.buckets)} : Go("clone", NoCall, t)
Unwound == {i \in 0..call.index - 1 : IsFull(table.ctrl[i])}

\* replace_bucket_with takes an element out and runs the caller's function on it.
BeginReplace ==
  \E i \in FullBuckets(table) :
    Begin([kind |-> "replace", index |-> i, byte |-> table.ctrl[i], hash |-> table.slot[i],
           growthLeft |-> table.growthLeft], Erased(table, i))
PutBack ==
  /\ call.kind = "replace"
  /\ Go("replace", NoCall,
        [SetCtrl(table, call.index, call.byte) EXCEPT
           !.slot[call.index] = call.hash, !.items = @ + 1, !.growthLeft = call.growthLeft])
\* The function returns nothing, or panics.
LeaveOut == Go("replace", NoCall, table)

\* OccupiedEntry::remove keeps the slot for an insert of the same hash.
Vacate ==
  \E i \in FullBuckets(table) :
    Begin([kind |-> "vacant", index |-> i, hash |-> table.slot[i]], Erased(table, i))
Refill == /\ call.kind = "vacant"
          /\ Go("vacant", NoCall, InsertInSlot(table, call.index, call.hash))
DropVacant == Go("vacant", NoCall, table)

Whole == call = NoCall /\ Next /\ UNCHANGED call
CallsInit == Init /\ call = NoCall
CallsNext == \/ Whole
             \/ BeginIteration \/ Keep \/ EraseYielded \/ EndIteration
             \/ BeginDrain \/ Drain \/ DropDrain \/ ForgetDrain
             \/ BeginClone \/ CloneElement \/ FinishClone \/ ClonePanics
             \/ BeginReplace \/ PutBack \/ LeaveOut
             \/ Vacate \/ Refill \/ DropVacant

CallsSpec == CallsInit /\ [][CallsNext]_callVars /\ WF_callVars(RehashStep /\ UNCHANGED call)
-----------------------------------------------------------------------------
\* An iterator counts the elements to come and looks for no other end: whatever
\* has been erased behind it, what it has left of the group it read and the groups
\* ahead are exactly the elements it has not returned, so it returns each once and
\* does not read past the last group.
IterationIsExact ==
  call.kind \in {"iterate", "drain", "clone"} =>
    LET t == IF call.kind = "drain" THEN call.moved ELSE table
    IN /\ call.iter.items = Cardinality(call.unseen)
       /\ call.unseen = call.iter.group \cup {i \in FullBuckets(t) : i >= call.iter.next}
       /\ call.unseen \subseteq FullBuckets(t)

\* iter_hash returns every element of a hash, and no bucket twice: the windows of a
\* probe do not overlap, and in a table smaller than a window, where each byte is
\* there twice, a window shows one of the two.
HashIterationIsExact ==
  ~rehashing => \A hash \in Hashes :
    LET bucket(place) == BucketAt(table, hash, place)
        places == HashIterReturns(table, hash)
    IN /\ {i \in Indices(table) : table.slot[i] = hash} \subseteq {bucket(p) : p \in places}
       /\ \A p, q \in places : bucket(p) = bucket(q) => p = q

\* If the clone of an element panics, the guard drops the elements cloned so far
\* and no other, which it finds by the control bytes of the whole source.
UnwindDropsCloned == call.kind = "clone" => Unwound = call.cloned
=============================================================================
