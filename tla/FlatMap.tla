------------------------------- MODULE FlatMap -------------------------------
(***************************************************************************)
(* V8gFlatMap (include/voxen/common/v8g_flat_map_impl.hpp): a sorted array  *)
(* of versioned items that is changed, and immutable copies of it that      *)
(* share the values whose versions have not changed.                       *)
(*                                                                         *)
(* The content of a value is the timeline of its last change.  Changes     *)
(* after a copy have a higher timeline.                                    *)
(***************************************************************************)
EXTENDS Integers, Sequences, FiniteSets, SequencesExt

CONSTANTS FlatKeys,      \* keys, numbers from 1
          FlatTimelines, \* bound: timelines used
          FlatCopies     \* bound: copies kept

Absent == [version |-> 0, key |-> 0, value |-> 0]

VARIABLES
  items,      \* m_items of the mutable container
  snapshots,  \* immutable containers made from it, oldest first: [items, map]
  now,        \* the timeline of the changes made now
  map         \* history: key -> the content its value should have

vars == <<items, snapshots, now, map>>
-----------------------------------------------------------------------------
Init == items = <<>> /\ snapshots = <<>> /\ now = 1 /\ map = <<>>

FlatItem(version, key, value) == [version |-> version, key |-> key, value |-> value]
Has(s, key) == \E i \in DOMAIN s : s[i].key = key
At(s, key) == s[CHOOSE i \in DOMAIN s : s[i].key = key]
SmallerThan(s, key) == SelectSeq(s, LAMBDA e : e.key < key)
LargerThan(s, key) == SelectSeq(s, LAMBDA e : e.key > key)

Recorded(key) == [k \in DOMAIN map \cup {key} |-> IF k = key THEN now ELSE map[k]]

\* insert: at the lower bound of the key, in the place of the item with that key.
Insert(key) ==
  /\ items' = SmallerThan(items, key) \o <<FlatItem(now, key, now)>> \o LargerThan(items, key)
  /\ map' = Recorded(key)
  /\ UNCHANGED <<snapshots, now>>

\* erase of a key or of an iterator.
Erase(key) ==
  /\ items' = SmallerThan(items, key) \o LargerThan(items, key)
  /\ map' = [k \in DOMAIN map \ {key} |-> map[k]]
  /\ UNCHANGED <<snapshots, now>>

\* (mutant) The version stays.
FindSilently(key) ==
  /\ Has(items, key)
  /\ items' = [i \in DOMAIN items |->
                 IF items[i].key = key THEN [items[i] EXCEPT !.value = now] ELSE items[i]]
  /\ map' = Recorded(key)
  /\ UNCHANGED <<snapshots, now>>

\* find for a change, which the caller makes.
Find(key) ==
  /\ Has(items, key)
  /\ items' = [i \in DOMAIN items |->
                 IF items[i].key = key THEN FlatItem(now, key, now) ELSE items[i]]
  /\ map' = Recorded(key)
  /\ UNCHANGED <<snapshots, now>>

\* The value of an item in a copy: that of the old container when it has the same
\* version there, otherwise made from the mutable value.
CopiedItem(e, old) ==
  IF Has(old, e.key) /\ At(old, e.key).version = e.version THEN At(old, e.key) ELSE e

\* The constructor of an immutable container, with some earlier copy or none.
Copy ==
  /\ now < FlatTimelines /\ now' = now + 1
  /\ \E old \in {<<>>} \cup {snapshots[i].items : i \in DOMAIN snapshots} :
       LET copy == [items |-> [i \in DOMAIN items |-> CopiedItem(items[i], old)], map |-> map]
           all == Append(snapshots, copy)
       IN  snapshots' = IF Len(all) > FlatCopies THEN Tail(all) ELSE all
  /\ UNCHANGED <<items, map>>

Next == (\E key \in FlatKeys : Insert(key) \/ Erase(key) \/ Find(key)) \/ Copy

Spec == Init /\ [][Next]_vars
-----------------------------------------------------------------------------
\* visitDiff: the pairs <<new item, old item>> given to the visitor, which may stop
\* after any of them.  Before an item of the new container come the old ones with
\* smaller keys that were not passed yet.
Passed(new, old, i) ==
  LET from == IF i = 1 THEN 0 ELSE new[i - 1].key
  IN  SelectSeq(old, LAMBDA e : e.key > from /\ e.key < new[i].key)

VisitDiff(new, old) ==
  FlattenSeq([i \in DOMAIN new |->
    LET gone == Passed(new, old, i)
        e == new[i]
    IN  [j \in DOMAIN gone |-> <<Absent, gone[j]>>]
          \o (IF ~Has(old, e.key) THEN <<<<e, Absent>>>>
              ELSE IF At(old, e.key).version # e.version THEN <<<<e, At(old, e.key)>>>>
              ELSE <<>>)])
-----------------------------------------------------------------------------
(* Properties                                                              *)

StandsForMap(s, m) ==
  /\ \A i, j \in DOMAIN s : i < j => s[i].key < s[j].key
  /\ {s[i].key : i \in DOMAIN s} = DOMAIN m
  /\ \A i \in DOMAIN s : s[i].value = m[s[i].key]

ItemAt(s, key) == IF Has(s, key) THEN At(s, key) ELSE Absent

\* Keys that were added, removed or changed between two containers.
ChangedKeys(new, old) ==
  {k \in FlatKeys : ItemAt(new, k).value # ItemAt(old, k).value}

Visited(new, old) == {VisitDiff(new, old)[i] : i \in DOMAIN VisitDiff(new, old)}
Expected(new, old, S) == {<<ItemAt(new, k), ItemAt(old, k)>> : k \in S}

\* Containers are sorted and hold the values of their maps, a copy for ever and
\* whatever older copy it took values from.  visitDiff visits a key once at most, with its
\* two values, visits none that did not change, and all that did up to the largest key of
\* the new container.  (What was removed above that key is left open: v8g_flat_map.hpp:167
\* promises every changed pair, the code ends with the last item of the new container.)
FlatMapExact ==
  /\ StandsForMap(items, map)
  /\ \A i \in DOMAIN snapshots : StandsForMap(snapshots[i].items, snapshots[i].map)
  /\ \A i, j \in DOMAIN snapshots :
       LET new == snapshots[j].items
           old == snapshots[i].items
           changed == ChangedKeys(new, old)
           upTo == {k \in changed : \E n \in DOMAIN new : k <= new[n].key}
       IN  i < j =>
             /\ Expected(new, old, upTo) \subseteq Visited(new, old)
             /\ Visited(new, old) \subseteq Expected(new, old, changed)
             /\ Len(VisitDiff(new, old)) = Cardinality(Visited(new, old))

=============================================================================
